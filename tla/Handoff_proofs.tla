--------------------------- MODULE Handoff_proofs ---------------------------
(***************************************************************************)
(* Theorems about Handoff, for any clients, versions, bounds and failures: *)
(* with any number of map servers nobody is believed to be on a lost       *)
(* server and a player who quits finds no node; with one map server        *)
(* nothing that was played is lost, and the programs keep the ledger; and  *)
(* if no connection fails either, the other servers know of every player.  *)
(***************************************************************************)
EXTENDS Handoff, SequenceTheorems, TLAPS

(* The messages on each link. *)
ToLoginMsg == [t : {"auth"}, c : Clients] \cup [t : {"online", "offline"}] \cup {ListOf(ids) : ids \in {<<>>, <<AccountId>>}}
FromLoginMsg == [t : {"authAck"}, c : Clients, ok : BOOLEAN] \cup [t : {"kick"}]
FromMapMsg ==
    [t : {"save"}, ver : Nat, final : BOOLEAN] \cup [t : {"select", "auth"}, c : Clients]
    \cup [t : {"change"}, c : Clients, to : Maps] \cup [t : {"users"}, playing : BOOLEAN]
    \cup [t : {"offline", "regs"}]
ToMapMsg ==
    [t : {"authOk"}, c : Clients, ver : Nat] \cup [t : {"authFail"}, c : Clients]
    \cup [t : {"changeAck"}, c : Clients, ok : BOOLEAN, to : Maps]
    \cup [t : {"regs", "selectOk", "kick", "saveAck"}]

LinkTypes ==
    /\ toLogin \in Seq(ToLoginMsg) /\ fromLogin \in Seq(FromLoginMsg)
    /\ fromMap \in [Maps -> Seq(FromMapMsg)] /\ toMap \in [Maps -> Seq(ToMapMsg)]
    /\ loginWire \in BOOLEAN /\ mapWire \in [Maps -> BOOLEAN]

(* The clients at the char server are those with a session that is not closing. *)
SessionsAtChar == \A c \in Clients : client[c] = AtChar <=> charSession[c] # "none" /\ c \notin charEof

(* Who plays with a connection, who is on the way in or out, and who is at the map server
   has a socket there; the last one's is not closed. *)
SocketsOpen ==
    \A m \in Maps :
        /\ Playing(m) /\ player[m].link = "on" => socket[m][player[m].client] = "sd"
        /\ authdb[m].state \in {"login", "loaded", "mapchange"} => socket[m][authdb[m].client] = "sd"
        /\ \A c \in Clients : client[c] = AtMap(m) => socket[m][c] # "none" /\ c \notin mapEof[m]

(* What a node holds in each state. *)
NodesFilled ==
    \A m \in Maps :
        /\ authdb[m].state \in {"loaded", "logout"} => authdb[m].ver \in Nat
        /\ authdb[m].state = "mapchange" => authdb[m].to \in Maps

MapSide == MapTypeOK /\ SocketsOpen /\ NodesFilled /\ QuitFindsNoNode
CharSide == CharTypeOK /\ SessionsAtChar
Inv == client \in [Clients -> ClientPlace] /\ LinkTypes /\ LoginTypeOK /\ CharSide /\ MapSide
       /\ cuts \in [login : 0 .. MaxLoginCuts, map : 0 .. MaxMapCuts] /\ NobodyOnLostServer

----------------------------------------------------------------------------
(* The places of a client are apart. *)
LEMMA Places ==
    /\ {Home, Ticket, AtChar, Gone} \subseteq ClientPlace
    /\ \A m \in Maps : {ReadyFor(m), AtMap(m)} \subseteq ClientPlace
    /\ AtChar \notin {Home, Ticket, Gone} /\ \A m : AtChar \notin {ReadyFor(m), AtMap(m)}
BY DEF Home, Ticket, AtChar, Gone, ReadyFor, AtMap, ClientPlace

(* What a program reads from a link. *)
LEMMA FirstAndRest ==
    ASSUME NEW S, NEW s \in Seq(S), s # <<>>
    PROVE  Head(s) \in S /\ Tail(s) \in Seq(S)
BY HeadTailProperties

LEMMA AccountListType == AccountList \in ToLoginMsg
<1>1. (IF online.server \in Maps THEN <<AccountId>> ELSE <<>>) \in {<<>>, <<AccountId>>}
    OBVIOUS
<1> QED BY <1>1, Zenon DEF AccountList, ToLoginMsg

LEMMA ToLoginType ==
    ASSUME LinkTypes, NEW msgs \in Seq(ToLoginMsg), ToLogin(msgs)
    PROVE  toLogin' \in Seq(ToLoginMsg)
BY ConcatProperties DEF LinkTypes, ToLogin

LEMMA ToCharType ==
    ASSUME LinkTypes, NEW msgs \in Seq(FromLoginMsg), ToChar(msgs)
    PROVE  fromLogin' \in Seq(FromLoginMsg)
BY ConcatProperties DEF LinkTypes, ToChar

LEMMA ToMapsType ==
    ASSUME LinkTypes, NEW mail \in [Maps -> Seq(ToMapMsg)], ToMaps(mail)
    PROVE  toMap' \in [Maps -> Seq(ToMapMsg)]
BY ConcatProperties DEF LinkTypes, ToMaps

LEMMA ToCharFromType ==
    ASSUME LinkTypes, NEW m \in Maps, NEW msgs \in Seq(FromMapMsg), ToCharFrom(m, msgs)
    PROVE  fromMap' \in [Maps -> Seq(FromMapMsg)]
<1>1. fromMap[m] \o msgs \in Seq(FromMapMsg)
    BY ConcatProperties DEF LinkTypes
<1> QED BY <1>1 DEF LinkTypes, ToCharFrom

LEMMA MailType ==
    ASSUME NEW m, NEW msgs \in Seq(ToMapMsg)
    PROVE  MailTo(m, msgs) \in [Maps -> Seq(ToMapMsg)]
<1>1. NoMail \in [Maps -> Seq(ToMapMsg)]
    BY EmptySeq DEF NoMail
<1> QED BY <1>1 DEF MailTo

LEMMA KickType == ASSUME NEW server PROVE Kick(server) \in [Maps -> Seq(ToMapMsg)]
<1>1. <<[t |-> "kick"]>> \in Seq(ToMapMsg) /\ NoMail \in [Maps -> Seq(ToMapMsg)]
    BY DEF ToMapMsg, NoMail
<1> QED BY <1>1, MailType DEF Kick

LEMMA BothType ==
    ASSUME NEW a \in [Maps -> Seq(ToMapMsg)], NEW b \in [Maps -> Seq(ToMapMsg)]
    PROVE  Both(a, b) \in [Maps -> Seq(ToMapMsg)]
BY ConcatProperties DEF Both

(* Steps of the login and char servers: nobody arrives at a map server, and who left does not
   come back. *)
Elsewhere ==
    /\ client' \in [Clients -> ClientPlace]
    /\ \A c \in Clients : \/ client'[c] \in {client[c], Gone}
                          \/ client[c].at \notin {"map", "gone"} /\ client'[c].at # "map"

LEMMA MapSideKept == ASSUME MapSide, UNCHANGED mapVars, Elsewhere PROVE MapSide'
<1>1. \A c \in Clients, m \in Maps : client'[c] = AtMap(m) => client[c] = AtMap(m)
    BY DEF Elsewhere, AtMap, Gone
<1> QED BY <1>1 DEF MapSide, mapVars, MapTypeOK, SocketsOpen, NodesFilled, QuitFindsNoNode, Playing

LEMMA CharSideKept ==
    ASSUME CharSide, UNCHANGED charVars, \A c \in Clients : client'[c] = AtChar <=> client[c] = AtChar
    PROVE  CharSide'
BY DEF CharSide, charVars, CharTypeOK, SessionsAtChar

----------------------------------------------------------------------------
(* The login server's steps. *)

LEMMA LoginAuthInv ==
    ASSUME Inv, NEW c \in Clients, login_auth_ok(c), LoginOnly
    PROVE  Inv'
<1>1. PICK place \in {Ticket, Gone} : client[c] = Home /\ client' = [client EXCEPT ![c] = place]
    BY DEF login_auth_ok, RefuseLogin, AcceptLogin
<1>2. client' \in [Clients -> ClientPlace] /\ \A d \in Clients : client'[d] \in {client[d], place} /\ (client'[d] # client[d] => client[d] = Home)
    BY <1>1, Places DEF Inv
<1>3. Elsewhere /\ \A d \in Clients : client'[d] = AtChar <=> client[d] = AtChar
    BY <1>2 DEF Elsewhere, Home, Ticket, Gone, AtMap, AtChar
<1>4. CharSide' /\ MapSide'
    BY <1>3, CharSideKept, MapSideKept DEF Inv, LoginOnly
<1>5. fromLogin' \in Seq(FromLoginMsg)
  <2>1. <<[t |-> "kick"]>> \in Seq(FromLoginMsg)
      BY DEF FromLoginMsg
  <2> QED BY <2>1, ToCharType DEF login_auth_ok, RefuseLogin, AcceptLogin, Inv, LinkTypes
<1>6. LoginTypeOK' /\ NobodyOnLostServer'
    BY DEF Inv, login_auth_ok, RefuseLogin, AcceptLogin, LoginTypeOK, NobodyOnLostServer, LoginOnly, charVars
<1> QED BY <1>2, <1>4, <1>5, <1>6 DEF Inv, LinkTypes, login_auth_ok, wireVars, LoginOnly

LEMMA ParseFromCharInv == ASSUME Inv, parse_fromchar, LoginOnly PROVE Inv'
<1> DEFINE msg == Head(toLogin)
<1>1. msg \in ToLoginMsg /\ toLogin' \in Seq(ToLoginMsg)
    BY FirstAndRest DEF Inv, LinkTypes, parse_fromchar
<1>2. msg.t = "auth" => msg.c \in Clients
    BY <1>1 DEF ToLoginMsg, ListOf
<1> HIDE DEF msg
<1>3. fromLogin' \in Seq(FromLoginMsg) /\ LoginTypeOK' /\ loginHasChar'
  <2>1. CASE msg.t = "auth" /\ OnAuthRequest(msg.c)
    <3>1. <<[t |-> "authAck", c |-> msg.c, ok |-> loginNode = msg.c]>> \in Seq(FromLoginMsg)
        BY <1>2, <2>1 DEF FromLoginMsg
    <3> QED BY <2>1, <3>1, ToCharType DEF Inv, parse_fromchar, OnAuthRequest, LoginTypeOK
  <2>2. CASE msg.t = "online" /\ add_online_user("char") /\ UNCHANGED <<loginNode, fromLogin>>
      BY <2>2 DEF Inv, LinkTypes, parse_fromchar, add_online_user, LoginTypeOK
  <2>3. CASE msg.t = "offline" /\ remove_online_user /\ UNCHANGED <<loginNode, fromLogin>>
      BY <2>3 DEF Inv, LinkTypes, parse_fromchar, remove_online_user, LoginTypeOK
  <2>4. CASE msg.t = "list" /\ OnAccountList(msg.words)
      BY <2>4 DEF Inv, LinkTypes, parse_fromchar, OnAccountList, add_online_user, online_db_setoffline, LoginTypeOK
  <2> QED BY <2>1, <2>2, <2>3, <2>4 DEF parse_fromchar, msg
<1>4. Elsewhere /\ client' = client
    BY DEF Elsewhere, Inv, parse_fromchar
<1>5. CharSide' /\ MapSide'
    BY <1>4, CharSideKept, MapSideKept DEF Inv, LoginOnly
<1> QED BY <1>1, <1>3, <1>4, <1>5 DEF Inv, LinkTypes, parse_fromchar, wireVars, LoginOnly, NobodyOnLostServer, charVars

(* The login server's eof branch and timers write no message. *)
LEMMA LoginAloneInv ==
    ASSUME Inv, LoginOnly,
           login_chrif_on_disconnect \/ waiting_disconnect_timer \/ login_online_data_cleanup
    PROVE  Inv'
<1>1. UNCHANGED <<client, queueVars, wireVars>>
    BY DEF login_chrif_on_disconnect, waiting_disconnect_timer, login_online_data_cleanup
<1>2. LoginTypeOK' /\ (loginServer' = "char" => loginHasChar')
    BY DEF login_chrif_on_disconnect, waiting_disconnect_timer, login_online_data_cleanup, online_db_setoffline,
           remove_online_user, Inv, LoginTypeOK, NobodyOnLostServer
<1>3. Elsewhere
    BY <1>1 DEF Elsewhere, Inv
<1>4. CharSide' /\ MapSide'
    BY <1>1, <1>3, CharSideKept, MapSideKept DEF Inv, LoginOnly
<1> QED BY <1>1, <1>2, <1>4 DEF Inv, LinkTypes, queueVars, wireVars, LoginOnly, NobodyOnLostServer, charVars

LEMMA LoginNextInv == ASSUME Inv, LoginNext PROVE Inv'
BY LoginAuthInv, ParseFromCharInv, LoginAloneInv DEF LoginNext

----------------------------------------------------------------------------
(* The operations on the online entry, and the messages they write. *)
OnlineEntry == [known : BOOLEAN, char : BOOLEAN, fd : Clients \cup {NoOne},
                server : Maps \cup {"none", "unknown"}, timer : BOOLEAN]
Servers == Maps \cup {"none", "unknown"}

LEMMA AccountMsgs ==
    <<[t |-> "online"]>> \in Seq(ToLoginMsg) /\ <<[t |-> "offline"]>> \in Seq(ToLoginMsg) /\ <<>> \in Seq(ToLoginMsg)
BY DEF ToLoginMsg

LEMMA EntryType == ASSUME CharTypeOK PROVE Entry \in OnlineEntry /\ create_online_char_data \in OnlineEntry
BY DEF CharTypeOK, Entry, create_online_char_data, NoEntry, OnlineEntry

LEMMA CharSelectType ==
    ASSUME CharTypeOK, LinkTypes, NEW fd \in Clients \cup {NoOne}, set_char_charselect(fd)
    PROVE  online' \in OnlineEntry /\ online'.server = "none" /\ toLogin' \in Seq(ToLoginMsg)
<1>1. toLogin' \in Seq(ToLoginMsg)
    BY AccountMsgs, ToLoginType DEF set_char_charselect
<1> QED BY <1>1, EntryType DEF set_char_charselect, create_online_char_data, NoEntry, OnlineEntry

LEMMA OnlineType ==
    ASSUME CharTypeOK, LinkTypes, NEW server \in Servers, set_char_online(server)
    PROVE  online' \in OnlineEntry /\ online'.server = server /\ toLogin' \in Seq(ToLoginMsg)
<1>1. toLogin' \in Seq(ToLoginMsg)
    BY AccountMsgs, ToLoginType DEF set_char_online
<1> QED BY <1>1, EntryType DEF set_char_online, OnlineEntry, Servers

LEMMA OfflineType ==
    ASSUME CharTypeOK, LinkTypes, NEW entry \in OnlineEntry, NEW all, set_char_offline(entry, all)
    PROVE  /\ online' \in OnlineEntry /\ online'.server \in {"none", entry.server}
           /\ cached' \in {cached, NoVersion} /\ toLogin' \in Seq(ToLoginMsg)
<1>1. toLogin' \in Seq(ToLoginMsg)
  <2>1. PICK msgs \in Seq(ToLoginMsg) : ToLogin(msgs)
      BY AccountMsgs DEF set_char_offline
  <2> QED BY <2>1, ToLoginType
<1>2. /\ [entry EXCEPT !.char = FALSE, !.server = "none", !.timer = FALSE] \in OnlineEntry
      /\ [entry EXCEPT !.char = FALSE, !.server = "none", !.timer = FALSE].server = "none"
      /\ [entry EXCEPT !.timer = FALSE] \in OnlineEntry
      /\ [entry EXCEPT !.timer = FALSE].server = entry.server
    BY DEF OnlineEntry
<1>3. \/ online' = entry
      \/ online' = [entry EXCEPT !.char = FALSE, !.server = "none", !.timer = FALSE]
      \/ online' = [entry EXCEPT !.timer = FALSE]
    BY Zenon DEF set_char_offline
<1> QED BY <1>1, <1>2, <1>3 DEF set_char_offline

LEMMA KicksType ==
    ASSUME LinkTypes, NEW server, ToMaps(Kick(server)) \/ ToMaps(ConflictKick(server))
    PROVE  toMap' \in [Maps -> Seq(ToMapMsg)]
BY KickType, ToMapsType, MailType, EmptySeq DEF ConflictKick, NoMail

----------------------------------------------------------------------------
(* Clients choosing a character. *)

(* What char_auth_ok and the steps around it leave alone. *)
CharSideRest == UNCHANGED <<charNode, stored, cached, charHasMap, charHasLogin>>

LEMMA CharAuthOkInv ==
    ASSUME Inv, NEW c \in Clients, client[c] \in {Ticket, AtChar}, c \notin charEof, char_auth_ok(c)
    PROVE  /\ Elsewhere /\ SessionsAtChar'
           /\ online' \in OnlineEntry /\ (online'.server \in Maps => online'.server = online.server)
           /\ charSession' \in [Clients -> {"none", "pending", "authed"}]
           /\ charEof' \subseteq {d \in Clients : charSession'[d] # "none"}
           /\ toLogin' \in Seq(ToLoginMsg) /\ toMap' \in [Maps -> Seq(ToMapMsg)]
<1>1. CharTypeOK /\ LinkTypes /\ online \in OnlineEntry /\ client \in [Clients -> ClientPlace]
    BY DEF Inv, CharSide, CharTypeOK, OnlineEntry
<1>2. /\ charSession' \in [Clients -> {"none", "pending", "authed"}] /\ charSession'[c] # "none"
      /\ \A d \in Clients \ {c} : charSession'[d] = charSession[d]
      /\ charEof' \in {charEof, charEof \cup {c}}
      /\ charEof' \subseteq {d \in Clients : charSession'[d] # "none"}
    BY <1>1 DEF char_auth_ok, AlreadyOnMap, AlreadyChoosing, StartChoosing, RefuseChar, CharTypeOK
<1>3. /\ client' \in [Clients -> ClientPlace] /\ \A d \in Clients \ {c} : client'[d] = client[d]
      /\ client'[c] \in {AtChar, Gone} /\ (client'[c] = Gone <=> c \in charEof')
  <2>1. PICK place \in {AtChar, Gone} : client' = [client EXCEPT ![c] = place] /\ (place = Gone <=> c \in charEof')
      BY Places DEF char_auth_ok, AlreadyOnMap, AlreadyChoosing, StartChoosing, RefuseChar
  <2>2. place \in ClientPlace
      BY Places
  <2> QED BY <1>1, <2>1, <2>2
<1>4. Elsewhere
    BY <1>3 DEF Elsewhere, Ticket, AtChar, Gone
<1>5. SessionsAtChar'
    BY <1>2, <1>3, Places DEF SessionsAtChar, Inv, CharSide
<1>6. online' \in OnlineEntry /\ (online'.server \in Maps => online'.server = online.server) /\ toLogin' \in Seq(ToLoginMsg)
  <2>1. CASE AlreadyOnMap(c)
      BY <1>1, <2>1 DEF AlreadyOnMap, OnlineEntry, LinkTypes
  <2>2. CASE AlreadyChoosing(c)
      BY <1>1, <2>2 DEF AlreadyChoosing, LinkTypes
  <2>3. CASE StartChoosing(c)
      BY <1>1, <2>3, CharSelectType, ServerAssumption DEF StartChoosing
  <2> QED BY <2>1, <2>2, <2>3 DEF char_auth_ok
<1>7. toMap' \in [Maps -> Seq(ToMapMsg)]
    BY <1>1, KicksType DEF char_auth_ok, AlreadyOnMap, AlreadyChoosing, StartChoosing, LinkTypes
<1> QED BY <1>2, <1>4, <1>5, <1>6, <1>7

(* What is left to show of a step of the char server. *)
LEMMA CharStep ==
    ASSUME Inv, CharOnly, Elsewhere, LinkTypes', CharTypeOK', SessionsAtChar',
           online'.server \in Maps => charHasMap'[online'.server]
    PROVE  Elsewhere /\ Inv'
<1>1. MapSide'
    BY MapSideKept DEF CharOnly, Inv
<1> QED BY <1>1 DEF Inv, CharOnly, CharSide, Elsewhere, LoginTypeOK, loginVars, NobodyOnLostServer

LEMMA EnterCharInv ==
    ASSUME Inv, NEW c \in Clients, EnterChar(c), CharOnly
    PROVE  Elsewhere /\ Inv'
<1>1. c \notin charEof /\ client[c] = Ticket
    BY DEF EnterChar, Inv, CharSide, CharTypeOK
<1>2. CASE charNode' = NoNode /\ char_auth_ok(c)
  <2>1. CharTypeOK'
      BY <1>1, <1>2, CharAuthOkInv DEF EnterChar, Inv, CharSide, CharTypeOK, NoNode, OnlineEntry
  <2>2. LinkTypes'
      BY <1>1, <1>2, CharAuthOkInv DEF EnterChar, Inv, LinkTypes, wireVars
  <2>3. online'.server \in Maps => charHasMap'[online'.server]
      BY <1>1, <1>2, CharAuthOkInv DEF EnterChar, Inv, NobodyOnLostServer
  <2> QED BY <1>1, <1>2, <2>1, <2>2, <2>3, CharAuthOkInv, CharStep
<1>3. CASE /\ charSession' = [charSession EXCEPT ![c] = "pending"]
           /\ ToLogin(<<[t |-> "auth", c |-> c]>>)
           /\ IF charHasLogin
              THEN client' = [client EXCEPT ![c] = AtChar] /\ UNCHANGED charEof
              ELSE RefuseChar(c)
           /\ UNCHANGED <<charNode, online, toMap>>
  <2>1. toLogin' \in Seq(ToLoginMsg)
    <3>1. <<[t |-> "auth", c |-> c]>> \in Seq(ToLoginMsg)
        BY DEF ToLoginMsg
    <3> QED BY <1>3, <3>1, ToLoginType DEF Inv
  <2>2. /\ charSession' \in [Clients -> {"none", "pending", "authed"}] /\ charSession'[c] = "pending"
        /\ \A d \in Clients \ {c} : charSession'[d] = charSession[d]
        /\ charEof' \in {charEof, charEof \cup {c}}
        /\ charEof' \subseteq {d \in Clients : charSession'[d] # "none"}
      BY <1>3 DEF RefuseChar, Inv, CharSide, CharTypeOK
  <2>3. PICK place \in {AtChar, Gone} : client' = [client EXCEPT ![c] = place] /\ (place = Gone <=> c \in charEof')
      BY <1>1, <1>3, Places DEF RefuseChar
  <2>4. /\ client' \in [Clients -> ClientPlace] /\ client'[c] = place
        /\ \A d \in Clients \ {c} : client'[d] = client[d]
      BY <2>3, Places DEF Inv
  <2>5. Elsewhere
      BY <1>1, <2>4 DEF Elsewhere, Ticket, AtChar, Gone
  <2>6. SessionsAtChar'
      BY <2>2, <2>3, <2>4, Places DEF SessionsAtChar, Inv, CharSide
  <2>7. CharTypeOK' /\ LinkTypes'
      BY <1>3, <2>1, <2>2 DEF EnterChar, Inv, CharSide, CharTypeOK, LinkTypes, wireVars
  <2>8. online'.server \in Maps => charHasMap'[online'.server]
      BY <1>3 DEF EnterChar, Inv, NobodyOnLostServer
  <2> QED BY <2>5, <2>6, <2>7, <2>8, CharStep
<1> QED BY <1>2, <1>3, Zenon DEF EnterChar

LEMMA SelectCharInv ==
    ASSUME Inv, NEW c \in Clients, NEW m \in Maps, SelectChar(c, m), CharOnly
    PROVE  Elsewhere /\ Inv'
<1>1. client[c] = AtChar /\ charSession[c] = "authed"
    BY DEF SelectChar, Inv, CharSide, SessionsAtChar
<1>2. online' \in OnlineEntry /\ online'.server = "unknown" /\ toLogin' \in Seq(ToLoginMsg)
    BY OnlineType DEF SelectChar, Inv, CharSide, Servers
<1>3. CharTypeOK'
    BY <1>1, <1>2 DEF SelectChar, Inv, CharSide, CharTypeOK, OnlineEntry
<1>4. LinkTypes'
    BY <1>2, KicksType DEF SelectChar, Inv, LinkTypes, wireVars
<1>5. /\ client' \in [Clients -> ClientPlace] /\ client'[c] = ReadyFor(m)
      /\ \A d \in Clients \ {c} : client'[d] = client[d]
    BY Places DEF SelectChar, Inv
<1>6. Elsewhere /\ SessionsAtChar'
    BY <1>1, <1>5, Places DEF Elsewhere, AtChar, ReadyFor, SessionsAtChar, SelectChar, Inv, CharSide
<1>7. online'.server \notin Maps
    BY <1>2, ServerAssumption
<1> QED BY <1>3, <1>4, <1>6, <1>7, CharStep

LEMMA SelectNowhereInv ==
    ASSUME Inv, NEW c \in Clients, SelectNowhere(c), CharOnly
    PROVE  Elsewhere /\ Inv'
<1>1. CharTypeOK' /\ LinkTypes'
    BY DEF SelectNowhere, RefuseChar, Inv, CharSide, CharTypeOK, LinkTypes, queueVars, wireVars
<1>2. /\ client' \in [Clients -> ClientPlace] /\ client'[c] = Gone
      /\ \A d \in Clients \ {c} : client'[d] = client[d]
    BY Places DEF SelectNowhere, RefuseChar, Inv
<1>3. Elsewhere /\ SessionsAtChar'
    BY <1>2, Places DEF Elsewhere, SessionsAtChar, SelectNowhere, RefuseChar, Inv, CharSide
<1> QED BY <1>1, <1>3, CharStep DEF SelectNowhere, Inv, NobodyOnLostServer

LEMMA CharEofInv ==
    ASSUME Inv, NEW c \in Clients, parse_char_eof(c), CharOnly
    PROVE  Elsewhere /\ Inv'
<1>1. /\ charSession' \in [Clients -> {"none", "pending", "authed"}] /\ charSession'[c] = "none"
      /\ \A d \in Clients \ {c} : charSession'[d] = charSession[d]
      /\ charEof' = charEof \ {c} /\ client' = client
    BY DEF parse_char_eof, Inv, CharSide, CharTypeOK
<1>2. SessionsAtChar' /\ Elsewhere
    BY <1>1 DEF parse_char_eof, SessionsAtChar, Elsewhere, Inv, CharSide
<1>3. /\ online' \in OnlineEntry /\ online'.server \in {"none", online.server}
      /\ cached' \in {cached, NoVersion} /\ toLogin' \in Seq(ToLoginMsg)
  <2>1. PICK left : left = [online EXCEPT !.fd = IF @ = c THEN NoOne ELSE @]
      OBVIOUS
  <2>2. left \in OnlineEntry /\ left.server = online.server /\ online \in OnlineEntry
      BY <2>1 DEF Inv, CharSide, CharTypeOK, OnlineEntry
  <2>3. \/ set_char_offline(left, TRUE)
        \/ online' = left /\ UNCHANGED <<cached, toLogin>>
        \/ UNCHANGED <<online, cached, toLogin>>
      BY <2>1, Zenon DEF parse_char_eof
  <2> QED BY <2>2, <2>3, OfflineType DEF Inv, CharSide, LinkTypes
<1>4. CharTypeOK' /\ LinkTypes'
    BY <1>1, <1>3 DEF parse_char_eof, Inv, CharSide, CharTypeOK, OnlineEntry, LinkTypes, wireVars
<1>5. online'.server \in Maps => charHasMap'[online'.server]
    BY <1>3, ServerAssumption DEF parse_char_eof, Inv, NobodyOnLostServer
<1> QED BY <1>2, <1>4, <1>5, CharStep

----------------------------------------------------------------------------
(* The char server's packets and link to the login server. *)

(* A packet of the login server, msg, is read. *)
ReadsLogin == /\ fromLogin' \in Seq(FromLoginMsg)
              /\ UNCHANGED <<stored, charHasMap, charHasLogin, fromMap, wireVars>>

LEMMA AuthAckInv ==
    ASSUME Inv, NEW c \in Clients, NEW ok, OnAuthAck(c, ok), ReadsLogin, CharOnly
    PROVE  Elsewhere /\ Inv'
<1>1. CASE charSession[c] = "pending" /\ c \notin charEof /\ ok
  <2>1. client[c] = AtChar /\ char_auth_ok(c)
      BY <1>1 DEF OnAuthAck, Inv, CharSide, SessionsAtChar
  <2>2. CharTypeOK' /\ LinkTypes'
      BY <1>1, <2>1, CharAuthOkInv DEF OnAuthAck, ReadsLogin, Inv, CharSide, CharTypeOK, OnlineEntry, LinkTypes, wireVars
  <2>3. online'.server \in Maps => charHasMap'[online'.server]
      BY <1>1, <2>1, CharAuthOkInv DEF ReadsLogin, Inv, NobodyOnLostServer
  <2> QED BY <1>1, <2>1, <2>2, <2>3, CharAuthOkInv, CharStep
<1>2. CASE charSession[c] = "pending" /\ c \notin charEof /\ ~ok
  <2>1. RefuseChar(c) /\ UNCHANGED <<charNode, cached, charSession, online, toLogin, toMap>>
      BY <1>2 DEF OnAuthAck
  <2>2. CharTypeOK' /\ LinkTypes'
      BY <1>2, <2>1 DEF RefuseChar, ReadsLogin, Inv, CharSide, CharTypeOK, LinkTypes, wireVars
  <2>3. client' \in [Clients -> ClientPlace] /\ client'[c] = Gone /\ \A d \in Clients \ {c} : client'[d] = client[d]
      BY <2>1, Places DEF RefuseChar, Inv
  <2>4. Elsewhere /\ SessionsAtChar'
      BY <2>1, <2>3, Places DEF Elsewhere, SessionsAtChar, RefuseChar, Inv, CharSide
  <2> QED BY <2>1, <2>2, <2>4, CharStep DEF ReadsLogin, Inv, NobodyOnLostServer
<1>3. CASE ~(charSession[c] = "pending" /\ c \notin charEof)
  <2>1. UNCHANGED <<charVars, client, toLogin, toMap>>
      BY <1>3 DEF OnAuthAck, ReadsLogin, charVars
  <2>2. LinkTypes' /\ Elsewhere
      BY <2>1 DEF ReadsLogin, Inv, LinkTypes, wireVars, Elsewhere
  <2> QED BY <2>1, <2>2, CharSideKept, CharStep DEF Inv, CharSide, charVars, NobodyOnLostServer
<1> QED BY <1>1, <1>2, <1>3

LEMMA LoginKickInv ==
    ASSUME Inv, OnLoginKick, ReadsLogin, CharOnly
    PROVE  Elsewhere /\ Inv'
<1>1. online \in OnlineEntry /\ CharTypeOK /\ LinkTypes
    BY DEF Inv, CharSide, CharTypeOK, OnlineEntry
<1>2. CASE /\ online.server \in Maps
           /\ ToMaps(Kick(online.server))
           /\ online' = [online EXCEPT !.timer = TRUE]
           /\ UNCHANGED <<cached, toLogin, client, charEof>>
  <2>1. online' \in OnlineEntry /\ online'.server = online.server
      BY <1>1, <1>2 DEF OnlineEntry
  <2>2. CharTypeOK' /\ LinkTypes'
      BY <1>1, <1>2, <2>1, KicksType DEF OnLoginKick, ReadsLogin, CharTypeOK, OnlineEntry, LinkTypes, wireVars, NoNode
  <2>3. Elsewhere /\ SessionsAtChar'
      BY <1>2 DEF Elsewhere, SessionsAtChar, OnLoginKick, Inv, CharSide
  <2> QED BY <2>1, <2>2, <2>3, CharStep DEF ReadsLogin, Inv, NobodyOnLostServer
<1>3. CASE /\ \E c \in Clients :
                /\ charSession[c] # "none"
                /\ Refuse(c, AtChar)
                /\ charEof' = charEof \cup {c}
           /\ UNCHANGED <<online, cached, toLogin, toMap>>
  <2>1. PICK c \in Clients : charSession[c] # "none" /\ Refuse(c, AtChar) /\ charEof' = charEof \cup {c}
      BY <1>3
  <2>2. CharTypeOK' /\ LinkTypes'
      BY <1>1, <1>3, <2>1 DEF OnLoginKick, ReadsLogin, CharTypeOK, LinkTypes, wireVars, NoNode
  <2>3. /\ client' \in [Clients -> ClientPlace] /\ client'[c] \in {client[c], Gone} /\ client'[c] # AtChar
        /\ \A d \in Clients \ {c} : client'[d] = client[d]
      BY <2>1, Places DEF Refuse, Inv
  <2>4. Elsewhere /\ SessionsAtChar'
      BY <2>1, <2>3 DEF Elsewhere, SessionsAtChar, OnLoginKick, Inv, CharSide
  <2> QED BY <1>3, <2>2, <2>4, CharStep DEF ReadsLogin, Inv, NobodyOnLostServer
<1>4. CASE set_char_offline(online, TRUE) /\ UNCHANGED <<client, charEof, toMap>>
  <2>1. CharTypeOK' /\ LinkTypes'
      BY <1>1, <1>4, OfflineType DEF OnLoginKick, ReadsLogin, CharTypeOK, OnlineEntry, LinkTypes, wireVars, NoNode
  <2>2. Elsewhere /\ SessionsAtChar'
      BY <1>4 DEF Elsewhere, SessionsAtChar, OnLoginKick, Inv, CharSide
  <2>3. online'.server \in Maps => charHasMap'[online'.server]
      BY <1>1, <1>4, OfflineType, ServerAssumption DEF ReadsLogin, Inv, NobodyOnLostServer
  <2> QED BY <2>1, <2>2, <2>3, CharStep
<1>5. CASE UNCHANGED <<online, cached, toLogin, toMap, client, charEof>>
  <2>1. CharTypeOK' /\ LinkTypes'
      BY <1>1, <1>5 DEF OnLoginKick, ReadsLogin, CharTypeOK, LinkTypes, wireVars, NoNode
  <2>2. Elsewhere /\ SessionsAtChar'
      BY <1>5 DEF Elsewhere, SessionsAtChar, OnLoginKick, Inv, CharSide
  <2> QED BY <1>5, <2>1, <2>2, CharStep DEF ReadsLogin, Inv, NobodyOnLostServer
<1> QED BY <1>2, <1>3, <1>4, <1>5, Zenon DEF OnLoginKick

LEMMA ParseFromLoginInv ==
    ASSUME Inv, parse_fromlogin, CharOnly
    PROVE  Elsewhere /\ Inv'
<1>1. Head(fromLogin) \in FromLoginMsg /\ ReadsLogin
    BY FirstAndRest DEF Inv, LinkTypes, parse_fromlogin, ReadsLogin
<1>2. Head(fromLogin).t = "authAck" => Head(fromLogin).c \in Clients
    BY <1>1 DEF FromLoginMsg
<1> QED BY <1>1, <1>2, AuthAckInv, LoginKickInv DEF parse_fromlogin

LEMMA LoginLostInv ==
    ASSUME Inv, loginif_on_disconnect, CharOnly
    PROVE  Elsewhere /\ Inv'
<1>1. CharTypeOK' /\ LinkTypes'
    BY DEF loginif_on_disconnect, Inv, CharSide, CharTypeOK, LinkTypes, queueVars, wireVars
<1>2. client' \in [Clients -> ClientPlace] /\ \A c \in Clients : client'[c] \in {client[c], Gone} \ {AtChar}
    BY Places DEF loginif_on_disconnect, Inv
<1>3. Elsewhere /\ SessionsAtChar'
    BY <1>2 DEF Elsewhere, SessionsAtChar, loginif_on_disconnect, Inv, CharSide
<1> QED BY <1>1, <1>3, CharStep DEF loginif_on_disconnect, Inv, NobodyOnLostServer

LEMMA SendAccountsInv ==
    ASSUME Inv, send_accounts_tologin, CharOnly
    PROVE  Elsewhere /\ Inv'
<1>1. toLogin' \in Seq(ToLoginMsg)
  <2>1. <<AccountList>> \in Seq(ToLoginMsg)
      BY AccountListType
  <2> QED BY <2>1, ToLoginType DEF send_accounts_tologin, Inv
<1>2. LinkTypes' /\ Elsewhere
    BY <1>1 DEF send_accounts_tologin, Inv, LinkTypes, wireVars, Elsewhere
<1> QED BY <1>2, CharSideKept, CharStep DEF send_accounts_tologin, Inv, CharSide, charVars, NobodyOnLostServer

----------------------------------------------------------------------------
(* The char server's packets and link to a map server. *)

(* A packet of map server m is read. *)
ReadsMap(m) == /\ charHasMap[m] /\ fromMap' \in [Maps -> Seq(FromMapMsg)]
               /\ UNCHANGED <<charSession, charEof, charHasMap, charHasLogin, client, fromLogin, wireVars>>

LEMMA ReadStep ==
    ASSUME Inv, NEW m \in Maps, ReadsMap(m), CharOnly,
           charNode' \in [client : Clients \cup {NoOne}, char : BOOLEAN],
           online' \in OnlineEntry, online'.server \in Maps => charHasMap[online'.server],
           stored' \in Nat, cached' \in Nat \cup {NoVersion},
           toLogin' \in Seq(ToLoginMsg), toMap' \in [Maps -> Seq(ToMapMsg)]
    PROVE  Elsewhere /\ Inv'
<1>1. CharTypeOK' /\ LinkTypes'
    BY DEF ReadsMap, Inv, CharSide, CharTypeOK, OnlineEntry, LinkTypes, wireVars
<1>2. Elsewhere /\ SessionsAtChar'
    BY DEF ReadsMap, Elsewhere, SessionsAtChar, Inv, CharSide
<1> QED BY <1>1, <1>2, CharStep DEF ReadsMap

LEMMA InvTypes ==
    ASSUME Inv
    PROVE  /\ CharTypeOK /\ LinkTypes /\ online \in OnlineEntry
           /\ toLogin \in Seq(ToLoginMsg) /\ toMap \in [Maps -> Seq(ToMapMsg)] /\ stored \in Nat
           /\ cached \in Nat \cup {NoVersion} /\ charNode \in [client : Clients \cup {NoOne}, char : BOOLEAN]
           /\ (online.server \in Maps => charHasMap[online.server])
BY DEF Inv, CharSide, CharTypeOK, OnlineEntry, LinkTypes, NobodyOnLostServer

(* One message to one map server. *)
LEMMA ReplyType ==
    ASSUME LinkTypes, NEW m, NEW x \in ToMapMsg, ToMaps(MailTo(m, <<x>>))
    PROVE  toMap' \in [Maps -> Seq(ToMapMsg)]
<1>1. <<x>> \in Seq(ToMapMsg)
    OBVIOUS
<1> QED BY <1>1, MailType, ToMapsType

LEMMA OnSaveInv ==
    ASSUME Inv, NEW m \in Maps, NEW ver \in Nat, NEW final, OnSave(m, ver, final), ReadsMap(m), CharOnly
    PROVE  Elsewhere /\ Inv'
<1>1. stored' \in Nat /\ charNode' = charNode
    BY InvTypes DEF OnSave, mmo_char_tosql
<1>2. CASE set_char_offline(online, FALSE) /\ ToMaps(MailTo(m, <<[t |-> "saveAck"]>>))
  <2>1. toMap' \in [Maps -> Seq(ToMapMsg)]
    <3>1. [t |-> "saveAck"] \in ToMapMsg
        BY DEF ToMapMsg
    <3> QED BY <1>2, <3>1, ReplyType, InvTypes
  <2>2. /\ online' \in OnlineEntry /\ online'.server \in {"none", online.server}
        /\ cached' \in {cached, NoVersion} /\ toLogin' \in Seq(ToLoginMsg)
      BY <1>2, OfflineType, InvTypes
  <2> QED BY <1>1, <2>1, <2>2, InvTypes, ServerAssumption, ReadStep
<1>3. CASE cached' = ver /\ UNCHANGED <<online, toLogin, toMap>>
    BY <1>1, <1>3, InvTypes, ReadStep
<1>4. CASE set_char_online(m) /\ ToMaps(ConflictKick(m)) /\ UNCHANGED cached
    BY <1>1, <1>4, OnlineType, KicksType, InvTypes, ReadStep DEF Servers, ReadsMap
<1> QED BY <1>2, <1>3, <1>4, Zenon DEF OnSave

LEMMA OnCharSelectInv ==
    ASSUME Inv, NEW m \in Maps, NEW c \in Clients, OnCharSelect(m, c), ReadsMap(m), CharOnly
    PROVE  Elsewhere /\ Inv'
<1>1. Entry.fd \in Clients \cup {NoOne}
    BY InvTypes, EntryType DEF OnlineEntry
<1>2. online' \in OnlineEntry /\ online'.server = "none" /\ toLogin' \in Seq(ToLoginMsg)
    BY <1>1, InvTypes, CharSelectType DEF OnCharSelect
<1>3. toMap' \in [Maps -> Seq(ToMapMsg)]
  <2>1. [t |-> "selectOk"] \in ToMapMsg
      BY DEF ToMapMsg
  <2> QED BY <2>1, ReplyType, InvTypes DEF OnCharSelect
<1>4. charNode' \in [client : Clients \cup {NoOne}, char : BOOLEAN]
    BY DEF OnCharSelect
<1> QED BY <1>2, <1>3, <1>4, InvTypes, ServerAssumption, ReadStep DEF OnCharSelect

LEMMA OnChangeServerInv ==
    ASSUME Inv, NEW m \in Maps, NEW c \in Clients, NEW to \in Maps, OnChangeServer(m, c, to), ReadsMap(m), CharOnly
    PROVE  Elsewhere /\ Inv'
<1>1. toMap' \in [Maps -> Seq(ToMapMsg)]
  <2>1. [t |-> "changeAck", c |-> c, ok |-> charHasMap[to], to |-> to] \in ToMapMsg
      BY InvTypes DEF ToMapMsg, CharTypeOK
  <2> QED BY <2>1, ReplyType, InvTypes DEF OnChangeServer
<1>2. stored' = stored /\ toLogin' = toLogin /\ cached' \in {stored, cached}
    BY DEF OnChangeServer
<1>3. CASE charHasMap[to]
  <2>1. online' = [Entry EXCEPT !.char = TRUE, !.server = to] /\ charNode' = [client |-> c, char |-> TRUE]
      BY <1>3 DEF OnChangeServer
  <2>2. online' \in OnlineEntry /\ online'.server = to
      BY <2>1, InvTypes, EntryType DEF OnlineEntry
  <2> QED BY <1>1, <1>2, <1>3, <2>1, <2>2, InvTypes, ReadStep
<1>4. CASE ~charHasMap[to]
    BY <1>1, <1>2, <1>4, InvTypes, ReadStep DEF OnChangeServer
<1> QED BY <1>3, <1>4

LEMMA OnMapAuthInv ==
    ASSUME Inv, NEW m \in Maps, NEW c \in Clients, OnMapAuth(m, c), ReadsMap(m), CharOnly
    PROVE  Elsewhere /\ Inv'
<1>1. stored' = stored /\ cached' \in Nat
    BY InvTypes DEF OnMapAuth
<1>2. CASE /\ charNode' = NoNode
           /\ set_char_online(m)
           /\ ToMaps(Both(MailTo(m, <<[t |-> "authOk", c |-> c, ver |-> cached']>>), ConflictKick(m)))
  <2>1. <<[t |-> "authOk", c |-> c, ver |-> cached']>> \in Seq(ToMapMsg)
      BY <1>1 DEF ToMapMsg
  <2>2. ConflictKick(m) \in [Maps -> Seq(ToMapMsg)]
      BY KickType, EmptySeq DEF ConflictKick, NoMail
  <2>3. toMap' \in [Maps -> Seq(ToMapMsg)]
      BY <1>2, <2>1, <2>2, MailType, BothType, ToMapsType, InvTypes
  <2> QED BY <1>1, <1>2, <2>3, OnlineType, InvTypes, ReadStep DEF Servers, NoNode, ReadsMap
<1>3. CASE ToMaps(MailTo(m, <<[t |-> "authFail", c |-> c]>>)) /\ UNCHANGED <<charNode, online, toLogin>>
  <2>1. [t |-> "authFail", c |-> c] \in ToMapMsg
      BY DEF ToMapMsg
  <2> QED BY <1>1, <1>3, <2>1, ReplyType, InvTypes, ReadStep
<1> QED BY <1>2, <1>3, Zenon DEF OnMapAuth

LEMMA OnMapUsersInv ==
    ASSUME Inv, NEW m \in Maps, NEW playing, OnMapUsers(m, playing), ReadsMap(m), CharOnly
    PROVE  Elsewhere /\ Inv'
<1>1. CASE playing
  <2>1. online' = [Entry EXCEPT !.char = TRUE, !.server = m]
      BY <1>1 DEF OnMapUsers
  <2>2. online' \in OnlineEntry /\ online'.server = m
      BY <2>1, InvTypes, EntryType DEF OnlineEntry
  <2>3. toMap' \in [Maps -> Seq(ToMapMsg)]
    <3>1. PICK mail \in [Maps -> Seq(ToMapMsg)] : ToMaps(mail)
        BY <1>1, KickType, EmptySeq DEF OnMapUsers, NoMail
    <3> QED BY <3>1, ToMapsType, InvTypes
  <2> QED BY <2>2, <2>3, InvTypes, ReadStep DEF OnMapUsers, ReadsMap
<1>2. CASE ~playing
  <2>1. online' = [online EXCEPT !.server = IF @ = m THEN "unknown" ELSE @] /\ toMap' = toMap
      BY <1>2 DEF OnMapUsers
  <2>2. online' \in OnlineEntry /\ online'.server \in {"unknown", online.server}
      BY <2>1, InvTypes DEF OnlineEntry
  <2> QED BY <2>1, <2>2, InvTypes, ServerAssumption, ReadStep DEF OnMapUsers
<1> QED BY <1>1, <1>2

LEMMA ParseFromMapInv ==
    ASSUME Inv, NEW m \in Maps, parse_frommap(m), CharOnly
    PROVE  Elsewhere /\ Inv'
<1>1. PICK msg \in FromMapMsg : msg = Head(fromMap[m])
    BY FirstAndRest DEF parse_frommap, Inv, LinkTypes
<1>2. ReadsMap(m)
    BY FirstAndRest DEF parse_frommap, Inv, LinkTypes, ReadsMap
<1>3. /\ msg.t = "save" => msg.ver \in Nat
      /\ msg.t \in {"select", "auth", "change"} => msg.c \in Clients
      /\ msg.t = "change" => msg.to \in Maps
    BY DEF FromMapMsg
<1>4. CASE set_char_offline(online, FALSE) /\ UNCHANGED <<charNode, stored, toMap>>
    BY <1>2, <1>4, OfflineType, InvTypes, ServerAssumption, ReadStep
<1>5. CASE ToMaps(MailTo(m, <<[t |-> "regs"]>>)) /\ UNCHANGED <<charNode, online, stored, cached, toLogin>>
  <2>1. [t |-> "regs"] \in ToMapMsg
      BY DEF ToMapMsg
  <2> QED BY <1>2, <1>5, <2>1, ReplyType, InvTypes, ReadStep
<1>6. \/ msg.t = "save" /\ OnSave(m, msg.ver, msg.final)
      \/ msg.t = "select" /\ OnCharSelect(m, msg.c)
      \/ msg.t = "change" /\ OnChangeServer(m, msg.c, msg.to)
      \/ msg.t = "auth" /\ OnMapAuth(m, msg.c)
      \/ msg.t = "users" /\ OnMapUsers(m, msg.playing)
      \/ set_char_offline(online, FALSE) /\ UNCHANGED <<charNode, stored, toMap>>
      \/ ToMaps(MailTo(m, <<[t |-> "regs"]>>)) /\ UNCHANGED <<charNode, online, stored, cached, toLogin>>
    BY <1>1, Zenon DEF parse_frommap
<1> QED BY <1>2, <1>3, <1>4, <1>5, <1>6, OnSaveInv, OnCharSelectInv, OnChangeServerInv, OnMapAuthInv, OnMapUsersInv

LEMMA MapLostInv ==
    ASSUME Inv, NEW m \in Maps, mapif_on_disconnect(m), CharOnly
    PROVE  Elsewhere /\ Inv'
<1>1. online' = [online EXCEPT !.server = IF @ = m THEN "unknown" ELSE @]
    BY DEF mapif_on_disconnect, mapif_server_reset
<1>2. online' \in OnlineEntry /\ online'.server \in {"unknown", online.server} /\ online'.server # m
    BY <1>1, InvTypes, ServerAssumption DEF OnlineEntry
<1>3. CharTypeOK' /\ LinkTypes'
    BY <1>2 DEF mapif_on_disconnect, Inv, CharSide, CharTypeOK, OnlineEntry, LinkTypes, queueVars, wireVars
<1>4. Elsewhere /\ SessionsAtChar'
    BY DEF mapif_on_disconnect, Elsewhere, SessionsAtChar, Inv, CharSide
<1>5. online'.server \in Maps => charHasMap'[online'.server]
    BY <1>2, InvTypes, ServerAssumption DEF mapif_on_disconnect, CharTypeOK
<1> QED BY <1>3, <1>4, <1>5, CharStep

(* The two timers forget the account or take it offline. *)
LEMMA CharTimersInv ==
    ASSUME Inv, chardb_waiting_disconnect \/ char_online_data_cleanup, CharOnly
    PROVE  Elsewhere /\ Inv'
<1>1. /\ online' \in OnlineEntry /\ online'.server \in {"none", online.server}
      /\ cached' \in {cached, NoVersion} /\ toLogin' \in Seq(ToLoginMsg)
  <2>1. CASE chardb_waiting_disconnect
      BY <2>1, OfflineType, InvTypes DEF chardb_waiting_disconnect
  <2>2. CASE char_online_data_cleanup
    <3>1. online' = NoEntry /\ cached' \in {cached, NoVersion}
        BY <2>2 DEF char_online_data_cleanup
    <3>2. toLogin' \in Seq(ToLoginMsg)
        BY <2>2, AccountMsgs, ToLoginType, InvTypes DEF char_online_data_cleanup
    <3> QED BY <3>1, <3>2 DEF NoEntry, OnlineEntry
  <2> QED BY <2>1, <2>2
<1>2. UNCHANGED <<charNode, charSession, charEof, stored, charHasMap, charHasLogin,
                  client, fromLogin, fromMap, toMap, wireVars>>
    BY DEF chardb_waiting_disconnect, char_online_data_cleanup
<1>3. CharTypeOK' /\ LinkTypes'
    BY <1>1, <1>2 DEF Inv, CharSide, CharTypeOK, OnlineEntry, LinkTypes, wireVars
<1>4. Elsewhere /\ SessionsAtChar'
    BY <1>2 DEF Elsewhere, SessionsAtChar, Inv, CharSide
<1>5. online'.server \in Maps => charHasMap'[online'.server]
    BY <1>1, <1>2, InvTypes, ServerAssumption
<1> QED BY <1>3, <1>4, <1>5, CharStep

LEMMA CharNextInv == ASSUME Inv, CharNext PROVE Elsewhere /\ Inv'
BY EnterCharInv, SelectCharInv, SelectNowhereInv, CharEofInv, ParseFromLoginInv, LoginLostInv, SendAccountsInv,
   ParseFromMapInv, MapLostInv, CharTimersInv DEF CharNext

----------------------------------------------------------------------------
(* The map servers.  A step of one of them changes what it has of the account, and the places
   of its own clients. *)

SideOK(m) ==
    /\ player[m] \in Players \cup {NoPlayer} /\ authdb[m] \in Nodes \cup {NoNodeHere}
    /\ socket[m] \in [Clients -> {"none", "bare", "sd"}]
    /\ mapEof[m] \subseteq {c \in Clients : socket[m][c] # "none"}
    /\ Playing(m) => authdb[m] = NoNodeHere
    /\ Playing(m) /\ player[m].link = "on" => socket[m][player[m].client] = "sd"
    /\ authdb[m].state \in {"login", "loaded", "mapchange"} => socket[m][authdb[m].client] = "sd"
    /\ \A c \in Clients : client[c] = AtMap(m) => socket[m][c] # "none" /\ c \notin mapEof[m]
    /\ authdb[m].state \in {"loaded", "logout"} => authdb[m].ver \in Nat
    /\ authdb[m].state = "mapchange" => authdb[m].to \in Maps

OnlyAt(m) ==
    /\ player' = [player EXCEPT ![m] = player'[m]] /\ authdb' = [authdb EXCEPT ![m] = authdb'[m]]
    /\ socket' = [socket EXCEPT ![m] = socket'[m]] /\ mapEof' = [mapEof EXCEPT ![m] = mapEof'[m]]

OwnClients(m) ==
    /\ client' \in [Clients -> ClientPlace]
    /\ \A c \in Clients : \/ client'[c] = client[c]
                          \/ /\ client[c] \in {ReadyFor(m), AtMap(m)}
                             /\ client'[c] = AtMap(m) \/ client'[c].at \notin {"map", "char"}

LEMMA SideOf == ASSUME Inv, NEW m \in Maps PROVE SideOK(m)
BY DEF Inv, MapSide, MapTypeOK, SocketsOpen, NodesFilled, QuitFindsNoNode, SideOK

LEMMA OwnSide ==
    ASSUME Inv, NEW m \in Maps, OnlyAt(m), OwnClients(m), SideOK(m)',
           mapHasChar' \in [Maps -> BOOLEAN], tip' \in Nat
    PROVE  MapSide'
<1>1. ASSUME NEW k \in Maps, k # m
      PROVE  /\ player'[k] = player[k] /\ authdb'[k] = authdb[k] /\ socket'[k] = socket[k] /\ mapEof'[k] = mapEof[k]
             /\ \A c \in Clients : client'[c] = AtMap(k) => client[c] = AtMap(k)
  <2>1. player'[k] = player[k] /\ authdb'[k] = authdb[k] /\ socket'[k] = socket[k] /\ mapEof'[k] = mapEof[k]
      BY <1>1 DEF OnlyAt, Inv, MapSide, MapTypeOK
  <2>2. AtMap(k) # AtMap(m) /\ AtMap(k).at = "map"
      BY <1>1 DEF AtMap
  <2>3. \A c \in Clients : client'[c] = AtMap(k) => client[c] = AtMap(k)
      BY <2>2 DEF OwnClients
  <2> QED BY <2>1, <2>3
<1>2. \A k \in Maps : SideOK(k)'
    BY <1>1, SideOf DEF SideOK, Playing
<1>3. /\ player' \in [Maps -> Players \cup {NoPlayer}] /\ authdb' \in [Maps -> Nodes \cup {NoNodeHere}]
      /\ socket' \in [Maps -> [Clients -> {"none", "bare", "sd"}]] /\ mapEof' \in [Maps -> SUBSET Clients]
    BY <1>2 DEF OnlyAt, Inv, MapSide, MapTypeOK, SideOK
<1> QED BY <1>2, <1>3 DEF MapSide, MapTypeOK, SocketsOpen, NodesFilled, QuitFindsNoNode, SideOK

LEMMA MapStepInv ==
    ASSUME Inv, NEW m \in Maps, OnlyAt(m), OwnClients(m), SideOK(m)', MapOnly, LinkTypes',
           mapHasChar' \in [Maps -> BOOLEAN], tip' \in Nat
    PROVE  Inv'
<1>1. MapSide'
    BY OwnSide
<1>2. CharSide'
    BY CharSideKept DEF Inv, MapOnly, OwnClients, AtChar, ReadyFor, AtMap
<1> QED BY <1>1, <1>2 DEF Inv, MapOnly, OwnClients, LoginTypeOK, loginVars, charVars, NobodyOnLostServer

(* The tables as functions, which EXCEPT needs to know. *)
LEMMA MapTables ==
    ASSUME Inv
    PROVE  /\ client \in [Clients -> ClientPlace] /\ LinkTypes
           /\ player \in [Maps -> Players \cup {NoPlayer}] /\ authdb \in [Maps -> Nodes \cup {NoNodeHere}]
           /\ socket \in [Maps -> [Clients -> {"none", "bare", "sd"}]] /\ mapEof \in [Maps -> SUBSET Clients]
           /\ mapHasChar \in [Maps -> BOOLEAN] /\ tip \in Nat
BY DEF Inv, MapSide, MapTypeOK

LEMMA NodeKinds ==
    /\ NoNodeHere.state = "none"
    /\ \A n \in Nodes \cup {NoNodeHere} :
          /\ n # NoNodeHere <=> n.state \in {"login", "loaded", "logout", "mapchange"}
          /\ n # NoNodeHere => n.client \in Clients
BY DEF Nodes, NoNodeHere

LEMMA PlayerKinds ==
    ASSUME Inv, NEW m \in Maps
    PROVE  Playing(m) => player[m] \in Players /\ player[m].client \in Clients /\ player[m].ver \in Nat
BY MapTables DEF Playing, Players

LEMMA NoVersionPlayer == \A p \in Players : p # NoPlayer
BY NoVersionAssumption DEF Players, NoPlayer

(* chrif_auth_delete: the node goes, and its client's socket stays open. *)
LEMMA AuthDeleteSide ==
    ASSUME Inv, NEW m \in Maps, chrif_auth_delete(m)
    PROVE  /\ authdb' = [authdb EXCEPT ![m] = authdb'[m]] /\ authdb'[m] = NoNodeHere
           /\ socket' = [socket EXCEPT ![m] = socket'[m]] /\ socket'[m] \in [Clients -> {"none", "bare", "sd"}]
           /\ \A c \in Clients : socket'[m][c] = "none" <=> socket[m][c] = "none"
           /\ \A c \in Clients : c # authdb[m].client => socket'[m][c] = socket[m][c]
<1>1. socket' = [socket EXCEPT ![m] = [x \in Clients |-> IF x = authdb[m].client /\ @[x] = "sd" THEN "bare" ELSE @[x]]]
    BY DEF chrif_auth_delete, Unhooked
<1>2. socket'[m] = [x \in Clients |-> IF x = authdb[m].client /\ socket[m][x] = "sd" THEN "bare" ELSE socket[m][x]]
    BY <1>1, MapTables
<1> QED BY <1>1, <1>2, MapTables DEF chrif_auth_delete, WithoutNode

(* clif_authfail_fd: a client of m is refused, and its socket is marked. *)
LEMMA AuthFailSide ==
    ASSUME Inv, NEW m \in Maps, NEW c \in Clients, clif_authfail_fd(m, c)
    PROVE  /\ OwnClients(m) /\ client'[c] # AtMap(m) /\ \A d \in Clients \ {c} : client'[d] = client[d]
           /\ mapEof' = [mapEof EXCEPT ![m] = mapEof'[m]] /\ mapEof'[m] = mapEof[m] \cup {c}
<1>1. client' = [client EXCEPT ![c] = IF @ = AtMap(m) THEN Gone ELSE @]
    BY DEF clif_authfail_fd, Refuse
<1>2. /\ client' \in [Clients -> ClientPlace] /\ \A d \in Clients \ {c} : client'[d] = client[d]
      /\ client'[c] = IF client[c] = AtMap(m) THEN Gone ELSE client[c]
    BY <1>1, MapTables, Places
<1>3. OwnClients(m) /\ client'[c] # AtMap(m)
    BY <1>2 DEF OwnClients, AtMap, Gone
<1> QED BY <1>2, <1>3, MapTables DEF clif_authfail_fd, MarkEof

LEMMA SendType ==
    ASSUME Inv, NEW m \in Maps, NEW x \in FromMapMsg, ToCharFrom(m, <<x>>)
    PROVE  fromMap' \in [Maps -> Seq(FromMapMsg)]
<1>1. <<x>> \in Seq(FromMapMsg)
    OBVIOUS
<1> QED BY <1>1, ToCharFromType, MapTables

LEMMA MessageTypes ==
    /\ \A ver \in Nat, final \in BOOLEAN : SaveMsg(ver, final) \in FromMapMsg
    /\ \A c \in Clients : {[t |-> "auth", c |-> c], [t |-> "select", c |-> c]} \subseteq FromMapMsg
    /\ \A c \in Clients, to \in Maps : [t |-> "change", c |-> c, to |-> to] \in FromMapMsg
    /\ \A playing \in BOOLEAN : [t |-> "users", playing |-> playing] \in FromMapMsg
    /\ {[t |-> "offline"], [t |-> "regs"]} \subseteq FromMapMsg
BY DEF SaveMsg, FromMapMsg

----------------------------------------------------------------------------
(* The clients of a map server. *)

(* Only the place of c changes. *)
LEMMA OwnClient ==
    ASSUME Inv, NEW m \in Maps, NEW c \in Clients, NEW place \in ClientPlace, client' = [client EXCEPT ![c] = place],
           client[c] \in {ReadyFor(m), AtMap(m)}, place = AtMap(m) \/ place.at \notin {"map", "char"}
    PROVE  OwnClients(m) /\ client'[c] = place /\ \A d \in Clients \ {c} : client'[d] = client[d]
BY MapTables DEF OwnClients

LEMMA WantToConnectionInv ==
    ASSUME Inv, NEW m \in Maps, NEW c \in Clients, WantToConnection(m, c), MapOnly
    PROVE  Inv'
<1>1. client[c] = ReadyFor(m) /\ socket[m][c] = "none" /\ c \notin mapEof[m] /\ SideOK(m)
    BY SideOf DEF WantToConnection, SideOK
<1>2. ASSUME NEW kind \in {"bare", "sd"}, client' = [client EXCEPT ![c] = Gone], MarkEof(m, c),
             socket' = [socket EXCEPT ![m][c] = kind], UNCHANGED <<authdb, fromMap>>
      PROVE  Inv'
  <2>1. OwnClients(m) /\ client'[c] = Gone /\ \A d \in Clients \ {c} : client'[d] = client[d]
      BY <1>1, <1>2, OwnClient, Places DEF Gone
  <2>2. /\ socket' = [socket EXCEPT ![m] = socket'[m]] /\ socket'[m] = [socket[m] EXCEPT ![c] = kind]
        /\ mapEof' = [mapEof EXCEPT ![m] = mapEof'[m]] /\ mapEof'[m] = mapEof[m] \cup {c}
      BY <1>2, MapTables DEF MarkEof
  <2>3. player' = player /\ authdb' = authdb /\ OnlyAt(m)
      BY <1>2, <2>2, MapTables DEF WantToConnection, OnlyAt
  <2>4. SideOK(m)'
    <3>1. /\ socket'[m] \in [Clients -> {"none", "bare", "sd"}] /\ socket'[m][c] # "none"
          /\ \A d \in Clients \ {c} : socket'[m][d] = socket[m][d]
        BY <2>2, MapTables
    <3>2. mapEof'[m] \subseteq {d \in Clients : socket'[m][d] # "none"}
        BY <1>1, <2>2, <3>1 DEF SideOK
    <3>3. \A d \in Clients : client'[d] = AtMap(m) => socket'[m][d] # "none" /\ d \notin mapEof'[m]
        BY <1>1, <2>1, <2>2, <3>1 DEF SideOK, Gone, AtMap
    <3>4. /\ Playing(m) /\ player[m].link = "on" => player[m].client \in Clients \ {c}
          /\ authdb[m].state \in {"login", "loaded", "mapchange"} => authdb[m].client \in Clients \ {c}
        BY <1>1, PlayerKinds, NodeKinds DEF SideOK
    <3> QED BY <1>1, <2>3, <3>1, <3>2, <3>3, <3>4 DEF SideOK, Playing
  <2> QED BY <1>2, <2>1, <2>3, <2>4, MapStepInv, MapTables DEF WantToConnection, LinkTypes, wireVars
<1>3. ASSUME ~Playing(m), authdb[m] = NoNodeHere,
             client' = [client EXCEPT ![c] = AtMap(m)], socket' = [socket EXCEPT ![m][c] = "sd"],
             IF mapHasChar[m]
             THEN chrif_sd_to_auth(m, [NoNodeHere EXCEPT !.state = "login", !.client = c])
             ELSE UNCHANGED authdb,
             ToCharFrom(m, <<[t |-> "auth", c |-> c]>>), UNCHANGED mapEof
      PROVE  Inv'
  <2>1. OwnClients(m) /\ client'[c] = AtMap(m) /\ \A d \in Clients \ {c} : client'[d] = client[d]
      BY <1>1, <1>3, OwnClient, Places
  <2>2. /\ socket' = [socket EXCEPT ![m] = socket'[m]]
        /\ socket'[m] \in [Clients -> {"none", "bare", "sd"}] /\ socket'[m][c] = "sd"
        /\ \A d \in Clients \ {c} : socket'[m][d] = socket[m][d]
      BY <1>3, MapTables
  <2>3. PICK n \in Nodes \cup {NoNodeHere} :
            /\ authdb' = [authdb EXCEPT ![m] = n]
            /\ n # NoNodeHere => n.state = "login" /\ n.client = c
    <3>1. [NoNodeHere EXCEPT !.state = "login", !.client = c] \in Nodes
        BY DEF Nodes, NoNodeHere
    <3>2. [NoNodeHere EXCEPT !.state = "login", !.client = c].state = "login"
          /\ [NoNodeHere EXCEPT !.state = "login", !.client = c].client = c
        BY DEF NoNodeHere
    <3> QED BY <1>3, <3>1, <3>2, MapTables DEF chrif_sd_to_auth, SetNode
  <2>a. ~Playing(m) /\ UNCHANGED mapEof
      BY <1>3
  <2>b. UNCHANGED <<player, mapHasChar, tip, toLogin, fromLogin, toMap, wireVars>>
      BY DEF WantToConnection
  <2>4. authdb'[m] = n /\ player' = player /\ OnlyAt(m)
    <3>1. authdb'[m] = n /\ authdb' = [authdb EXCEPT ![m] = authdb'[m]]
        BY <2>3, MapTables
    <3>2. player' = [player EXCEPT ![m] = player'[m]] /\ mapEof' = [mapEof EXCEPT ![m] = mapEof'[m]]
        BY <2>a, <2>b, MapTables
    <3> QED BY <3>1, <3>2, <2>b, <2>2 DEF OnlyAt
  <2>5. SideOK(m)'
    <3>1. mapEof'[m] \subseteq {d \in Clients : socket'[m][d] # "none"}
        BY <1>1, <2>a, <2>2 DEF SideOK
    <3>2. \A d \in Clients : client'[d] = AtMap(m) => socket'[m][d] # "none" /\ d \notin mapEof'[m]
        BY <1>1, <2>a, <2>1, <2>2 DEF SideOK
    <3> QED BY <1>1, <2>a, <2>2, <2>3, <2>4, <3>1, <3>2, NodeKinds DEF SideOK, Playing
  <2>6. fromMap' \in [Maps -> Seq(FromMapMsg)]
      BY <1>3, SendType, MessageTypes
  <2> QED BY <2>b, <2>1, <2>4, <2>5, <2>6, MapStepInv, MapTables DEF LinkTypes, wireVars
<1> QED BY <1>2, <1>3, Zenon DEF WantToConnection, StillRecognized

(* A player who leaves the world gets the node that waits for the ack. *)
LEMMA QuitSide ==
    ASSUME Inv, NEW m \in Maps, Playing(m), map_quit_active(m)
    PROVE  /\ player' = [player EXCEPT ![m] = player'[m]] /\ player'[m] = NoPlayer
           /\ authdb' = [authdb EXCEPT ![m] = authdb'[m]] /\ authdb'[m] \in Nodes
           /\ authdb'[m].state = "logout" /\ authdb'[m].ver = player[m].ver /\ authdb'[m].ver \in Nat
           /\ fromMap' \in [Maps -> Seq(FromMapMsg)]
<1> DEFINE node == [state |-> "logout", client |-> player[m].client, ver |-> player[m].ver, to |-> NoOne]
<1>1. authdb[m] = NoNodeHere /\ player[m].client \in Clients /\ player[m].ver \in Nat
    BY SideOf, PlayerKinds DEF SideOK
<1>2. node \in Nodes /\ node.state = "logout" /\ node.ver = player[m].ver
    BY <1>1 DEF Nodes
<1>3. authdb' = [authdb EXCEPT ![m] = node] /\ player' = [player EXCEPT ![m] = NoPlayer]
    BY <1>1, Zenon DEF map_quit_active, chrif_sd_to_auth, SetNode, SetPlayer
<1>4. ToCharFrom(m, <<SaveMsg(player[m].ver, TRUE)>>)
    BY DEF map_quit_active
<1> HIDE DEF node
<1>5. fromMap' \in [Maps -> Seq(FromMapMsg)]
    BY <1>1, <1>4, SendType, MessageTypes
<1> QED BY <1>1, <1>2, <1>3, <1>5, MapTables

(* Nothing but the player leaves: the sockets stay. *)
LEMMA QuitInv ==
    ASSUME Inv, NEW m \in Maps, Playing(m), map_quit_active(m), MapOnly,
           UNCHANGED <<socket, mapEof, mapHasChar, tip, client, toLogin, fromLogin, loginWire, mapWire>>,
           toMap' \in [Maps -> Seq(ToMapMsg)]
    PROVE  Inv'
<1>1. OnlyAt(m) /\ OwnClients(m)
    BY QuitSide, MapTables DEF OnlyAt, OwnClients
<1>2. SideOK(m)'
    BY QuitSide, SideOf DEF SideOK, Playing
<1>3. LinkTypes'
    BY QuitSide, MapTables DEF LinkTypes
<1> QED BY <1>1, <1>2, <1>3, MapStepInv, MapTables

LEMMA DelayQuitInv == ASSUME Inv, NEW m \in Maps, clif_delayquit(m), MapOnly PROVE Inv'
BY QuitInv, MapTables DEF clif_delayquit, LinkTypes, wireVars

LEMMA ClifEofInv ==
    ASSUME Inv, NEW m \in Maps, NEW c \in Clients, clif_parse_eof(m, c), MapOnly
    PROVE  Inv'
<1> DEFINE mine == Playing(m) /\ player[m].client = c /\ player[m].link = "on"
<1>1. /\ mapEof' = [mapEof EXCEPT ![m] = mapEof'[m]] /\ mapEof'[m] = mapEof[m] \ {c}
      /\ c \in mapEof[m] /\ client[c] # AtMap(m) /\ client' = client
      /\ UNCHANGED <<mapHasChar, tip, toLogin, fromLogin, toMap, wireVars>> /\ SideOK(m)
    BY MapTables, SideOf DEF clif_parse_eof, SideOK
<1>2. OwnClients(m)
    BY <1>1, MapTables DEF OwnClients
<1>3. ASSUME socket' = [socket EXCEPT ![m][c] = "none"]
      PROVE  /\ socket' = [socket EXCEPT ![m] = socket'[m]]
             /\ socket'[m] \in [Clients -> {"none", "bare", "sd"}] /\ socket'[m][c] = "none"
             /\ \A d \in Clients \ {c} : socket'[m][d] = socket[m][d]
    BY <1>3, MapTables
<1>4. CASE socket' = [socket EXCEPT ![m][c] = "none"] /\ mine /\ map_quit_active(m)
  <2>1. OnlyAt(m)
      BY <1>1, <1>3, <1>4, QuitSide DEF OnlyAt
  <2>2. SideOK(m)'
      BY <1>1, <1>3, <1>4, QuitSide DEF SideOK, Playing
  <2> QED BY <1>1, <1>2, <1>4, <2>1, <2>2, QuitSide, MapStepInv, MapTables DEF LinkTypes, wireVars
<1>5. CASE /\ socket' = [socket EXCEPT ![m][c] = "none"] /\ mine
           /\ \E link \in {"delayed", "auto"} : SetPlayer(m, [player[m] EXCEPT !.link = link])
           /\ UNCHANGED <<authdb, fromMap>>
  <2>1. PICK link \in {"delayed", "auto"} : player' = [player EXCEPT ![m] = [player[m] EXCEPT !.link = link]]
      BY <1>5 DEF SetPlayer
  <2>2. [player[m] EXCEPT !.link = link] \in Players /\ [player[m] EXCEPT !.link = link].link = link
      BY <1>5, PlayerKinds DEF Players
  <2>3. /\ player' = [player EXCEPT ![m] = player'[m]] /\ player'[m] \in Players /\ player'[m].link = link
      BY <2>1, <2>2, MapTables
  <2>4. OnlyAt(m)
      BY <1>1, <1>3, <1>5, <2>3, MapTables DEF OnlyAt
  <2>5. SideOK(m)'
      BY <1>1, <1>3, <1>5, <2>3, NodeKinds DEF SideOK, Playing
  <2> QED BY <1>1, <1>2, <1>5, <2>4, <2>5, MapStepInv, MapTables DEF LinkTypes, wireVars
<1>6. CASE /\ ~mine /\ authdb[m].state \notin {"none", "logout"} /\ authdb' = WithoutNode(m)
           /\ socket' = [Unhooked(m) EXCEPT ![m][c] = "none"]
           /\ UNCHANGED <<player, fromMap>>
  <2>1. ~Playing(m)
      BY <1>1, <1>6, NodeKinds DEF SideOK
  <2>2. authdb' = [authdb EXCEPT ![m] = authdb'[m]] /\ authdb'[m] = NoNodeHere
      BY <1>6, MapTables DEF WithoutNode
  <2>3. PICK s : s = [x \in Clients |-> IF x = authdb[m].client /\ socket[m][x] = "sd" THEN "bare" ELSE socket[m][x]]
      OBVIOUS
  <2>4. Unhooked(m) = [socket EXCEPT ![m] = s] /\ s \in [Clients -> {"none", "bare", "sd"}]
      BY <2>3, MapTables DEF Unhooked
  <2>5. socket' = [socket EXCEPT ![m] = [s EXCEPT ![c] = "none"]]
      BY <1>6, <2>4, MapTables
  <2>6. /\ socket' = [socket EXCEPT ![m] = socket'[m]] /\ socket'[m] \in [Clients -> {"none", "bare", "sd"}]
        /\ \A d \in Clients \ {c} : socket'[m][d] = "none" <=> socket[m][d] = "none"
      BY <2>3, <2>4, <2>5, MapTables
  <2>7. OnlyAt(m)
      BY <1>1, <1>6, <2>2, <2>6, MapTables DEF OnlyAt
  <2>8. SideOK(m)'
      BY <1>1, <1>6, <2>1, <2>2, <2>6, NodeKinds DEF SideOK, Playing
  <2> QED BY <1>1, <1>2, <1>6, <2>7, <2>8, MapStepInv, MapTables DEF LinkTypes, wireVars
<1>7. CASE /\ socket[m][c] = "bare" \/ (~mine /\ authdb[m].state \in {"none", "logout"})
           /\ socket' = [socket EXCEPT ![m][c] = "none"]
           /\ UNCHANGED <<player, authdb, fromMap>>
  <2>1. OnlyAt(m)
      BY <1>1, <1>3, <1>7, MapTables DEF OnlyAt
  <2>2. /\ Playing(m) /\ player[m].link = "on" => player[m].client \in Clients \ {c}
        /\ authdb[m].state \in {"login", "loaded", "mapchange"} => authdb[m].client \in Clients \ {c}
      BY <1>1, <1>7, PlayerKinds, NodeKinds, MapTables DEF SideOK
  <2>3. SideOK(m)'
      BY <1>1, <1>3, <1>7, <2>2 DEF SideOK, Playing
  <2> QED BY <1>1, <1>2, <1>7, <2>1, <2>3, MapStepInv, MapTables DEF LinkTypes, wireVars
<1> HIDE DEF mine
<1> QED BY <1>4, <1>5, <1>6, <1>7, Zenon DEF clif_parse_eof, mine

----------------------------------------------------------------------------
(* Players. *)

LEMMA PlayInv == ASSUME Inv, NEW m \in Maps, Play(m), MapOnly PROVE Inv'
<1>1. player' = [player EXCEPT ![m] = [player[m] EXCEPT !.ver = tip + 1]] /\ tip + 1 \in Nat
    BY MapTables DEF Play, SetPlayer
<1>2. /\ [player[m] EXCEPT !.ver = tip + 1] \in Players
      /\ [player[m] EXCEPT !.ver = tip + 1].link = player[m].link
      /\ [player[m] EXCEPT !.ver = tip + 1].client = player[m].client
    BY <1>1, PlayerKinds DEF Play, Players
<1>3. /\ player' = [player EXCEPT ![m] = player'[m]] /\ player'[m] \in Players
      /\ player'[m].link = player[m].link /\ player'[m].client = player[m].client
    BY <1>1, <1>2, MapTables
<1>4. OnlyAt(m) /\ OwnClients(m)
    BY <1>3, MapTables DEF Play, OnlyAt, OwnClients
<1>5. SideOK(m)'
    BY <1>3, SideOf DEF Play, SideOK, Playing
<1> QED BY <1>1, <1>4, <1>5, MapStepInv, MapTables DEF Play, LinkTypes, queueVars, wireVars

(* Steps of m that only write to the char server. *)
LEMMA SendInv ==
    ASSUME Inv, NEW m \in Maps, NEW x \in FromMapMsg, ToCharFrom(m, <<x>>), MapOnly,
           UNCHANGED <<mapVars, client, toLogin, fromLogin, toMap, wireVars>>
    PROVE  Inv'
<1>1. OnlyAt(m) /\ OwnClients(m)
    BY MapTables DEF mapVars, OnlyAt, OwnClients
<1>2. SideOK(m)'
    BY SideOf DEF mapVars, SideOK, Playing
<1>3. LinkTypes'
    BY SendType, MapTables DEF LinkTypes, wireVars
<1> QED BY <1>1, <1>2, <1>3, MapStepInv, MapTables DEF mapVars

LEMMA AutosaveInv == ASSUME Inv, NEW m \in Maps, pc_autosave(m), MapOnly PROVE Inv'
BY SendInv, MessageTypes, PlayerKinds DEF pc_autosave

LEMMA SelectReqInv == ASSUME Inv, NEW m \in Maps, chrif_charselectreq(m), MapOnly PROVE Inv'
BY SendInv, MessageTypes, PlayerKinds DEF chrif_charselectreq

LEMMA SetPosInv ==
    ASSUME Inv, NEW m \in Maps, NEW to \in Maps, pc_setpos(m, to), MapOnly
    PROVE  Inv'
<1> DEFINE node == [state |-> "mapchange", client |-> player[m].client, ver |-> player[m].ver, to |-> to]
<1>1. /\ Playing(m) /\ SideOK(m) /\ authdb[m] = NoNodeHere
      /\ player[m].client \in Clients /\ player[m].ver \in Nat /\ socket[m][player[m].client] = "sd"
    BY SideOf, PlayerKinds DEF SideOK, pc_setpos
<1>2. node \in Nodes /\ node.state = "mapchange" /\ node.to = to /\ node.client = player[m].client
    BY <1>1 DEF Nodes
<1>3. authdb' = [authdb EXCEPT ![m] = node] /\ player' = [player EXCEPT ![m] = NoPlayer]
    BY <1>1, Zenon DEF pc_setpos, chrif_sd_to_auth, SetNode, SetPlayer
<1>4. fromMap' \in [Maps -> Seq(FromMapMsg)]
  <2>1. SaveMsg(player[m].ver, FALSE) \in FromMapMsg /\ [t |-> "change", c |-> player[m].client, to |-> to] \in FromMapMsg
      BY <1>1, MessageTypes
  <2>2. PICK x \in FromMapMsg, y \in FromMapMsg : ToCharFrom(m, <<x, y>>)
      BY <2>1 DEF pc_setpos
  <2>3. <<x, y>> \in Seq(FromMapMsg)
      OBVIOUS
  <2> QED BY <2>2, <2>3, ToCharFromType, MapTables
<1> HIDE DEF node
<1>5. /\ authdb' = [authdb EXCEPT ![m] = authdb'[m]] /\ authdb'[m] = node
      /\ player' = [player EXCEPT ![m] = player'[m]] /\ player'[m] = NoPlayer
      /\ UNCHANGED <<socket, mapEof, mapHasChar, tip, client, toLogin, fromLogin, toMap, wireVars>>
    BY <1>3, MapTables DEF pc_setpos
<1>6. OnlyAt(m) /\ OwnClients(m)
    BY <1>5, MapTables DEF OnlyAt, OwnClients
<1>7. SideOK(m)'
    BY <1>1, <1>2, <1>5 DEF SideOK, Playing
<1> QED BY <1>4, <1>5, <1>6, <1>7, MapStepInv, MapTables DEF LinkTypes, wireVars

----------------------------------------------------------------------------
(* The packets and the link of the char server, and the cleanup of nodes. *)

(* A login or a change of map server ends without a player; its client may be told. *)
LEMMA DeleteSide ==
    ASSUME Inv, NEW m \in Maps, ~Playing(m), chrif_auth_delete(m), UNCHANGED player, OwnClients(m),
           mapEof' = [mapEof EXCEPT ![m] = mapEof'[m]],
           \/ mapEof'[m] = mapEof[m]
           \/ socket[m][authdb[m].client] = "sd" /\ mapEof'[m] = mapEof[m] \cup {authdb[m].client},
           authdb[m].client \in Clients,
           \A c \in Clients : client'[c] = AtMap(m) => client[c] = AtMap(m) /\ c \notin mapEof'[m]
    PROVE  OnlyAt(m) /\ SideOK(m)'
<1>1. OnlyAt(m)
    BY AuthDeleteSide, MapTables DEF OnlyAt
<1>2. mapEof'[m] \subseteq {c \in Clients : socket'[m][c] # "none"}
    BY AuthDeleteSide, SideOf DEF SideOK
<1>3. SideOK(m)'
    BY <1>2, AuthDeleteSide, SideOf, NodeKinds DEF SideOK, Playing
<1> QED BY <1>1, <1>3

(* ... and it is told. *)
LEMMA DeleteToldSide ==
    ASSUME Inv, NEW m \in Maps, ~Playing(m), authdb[m].state \in {"login", "loaded"}, UNCHANGED player,
           clif_authfail_fd(m, authdb[m].client), chrif_auth_delete(m)
    PROVE  OnlyAt(m) /\ OwnClients(m) /\ SideOK(m)'
<1>1. authdb[m].client \in Clients /\ socket[m][authdb[m].client] = "sd"
    BY SideOf, NodeKinds DEF SideOK
<1>2. \A c \in Clients : client'[c] = AtMap(m) => client[c] = AtMap(m) /\ c \notin mapEof'[m]
    BY <1>1, AuthFailSide, SideOf DEF SideOK
<1> QED BY <1>1, <1>2, AuthFailSide, DeleteSide

(* ... or it is not. *)
LEMMA DeleteUntoldSide ==
    ASSUME Inv, NEW m \in Maps, ~Playing(m), authdb[m] # NoNodeHere, UNCHANGED <<player, client, mapEof>>,
           chrif_auth_delete(m)
    PROVE  OnlyAt(m) /\ OwnClients(m) /\ SideOK(m)'
<1>1. OwnClients(m) /\ authdb[m].client \in Clients /\ mapEof' = [mapEof EXCEPT ![m] = mapEof'[m]]
    BY MapTables, NodeKinds DEF OwnClients
<1>2. \A c \in Clients : client'[c] = AtMap(m) => client[c] = AtMap(m) /\ c \notin mapEof'[m]
    BY SideOf DEF SideOK
<1> QED BY <1>1, <1>2, DeleteSide

LEMMA NodePlaysNot == ASSUME Inv, NEW m \in Maps, authdb[m] # NoNodeHere PROVE ~Playing(m)
BY SideOf DEF SideOK

LEMMA CleanupInv == ASSUME Inv, NEW m \in Maps, auth_db_cleanup(m), MapOnly PROVE Inv'
<1>1. CASE /\ authdb[m].state = "logout" /\ ToCharFrom(m, <<SaveMsg(authdb[m].ver, TRUE)>>)
           /\ UNCHANGED <<authdb, socket>>
  <2>1. SaveMsg(authdb[m].ver, TRUE) \in FromMapMsg
      BY <1>1, SideOf, MessageTypes DEF SideOK
  <2>2. UNCHANGED <<mapVars, client, toLogin, fromLogin, toMap, wireVars>>
      BY <1>1 DEF auth_db_cleanup, mapVars
  <2> QED BY <1>1, <2>1, <2>2, SendInv, Zenon
<1>2. CASE /\ authdb[m].state \in ST_LOGIN \cup {"mapchange"} /\ ToCharFrom(m, <<[t |-> "offline"]>>)
           /\ chrif_auth_delete(m)
  <2>1. authdb[m] # NoNodeHere
      BY <1>2 DEF NoNodeHere, ST_LOGIN
  <2>2. OnlyAt(m) /\ OwnClients(m) /\ SideOK(m)'
      BY <1>2, <2>1, NodePlaysNot, DeleteUntoldSide DEF auth_db_cleanup
  <2>3. fromMap' \in [Maps -> Seq(FromMapMsg)]
      BY <1>2, SendType, MessageTypes
  <2> QED BY <2>2, <2>3, MapStepInv, MapTables DEF auth_db_cleanup, LinkTypes, wireVars
<1> QED BY <1>1, <1>2 DEF auth_db_cleanup

LEMMA CharLostInv == ASSUME Inv, NEW m \in Maps, chrif_on_disconnect(m), MapOnly PROVE Inv'
<1>1. OnlyAt(m) /\ OwnClients(m)
    BY MapTables DEF chrif_on_disconnect, OnlyAt, OwnClients
<1>2. SideOK(m)'
    BY SideOf DEF chrif_on_disconnect, SideOK, Playing
<1> QED BY <1>1, <1>2, MapStepInv, MapTables DEF chrif_on_disconnect, LinkTypes, queueVars, wireVars

(* A packet of the char server is read by m. *)
ReadsChar(m) == /\ toMap' \in [Maps -> Seq(ToMapMsg)]
                /\ UNCHANGED <<mapHasChar, tip, toLogin, fromLogin, wireVars>>

LEMMA ReadsCharStep ==
    ASSUME Inv, NEW m \in Maps, OnlyAt(m), OwnClients(m), SideOK(m)', MapOnly, ReadsChar(m),
           fromMap' \in [Maps -> Seq(FromMapMsg)]
    PROVE  Inv'
BY MapStepInv, MapTables DEF ReadsChar, LinkTypes, wireVars

(* A packet that finds nothing to do. *)
LEMMA ReadsNothing ==
    ASSUME Inv, NEW m \in Maps, MapOnly, ReadsChar(m), UNCHANGED <<player, authdb, socket, mapEof, client, fromMap>>
    PROVE  Inv'
<1>1. OnlyAt(m) /\ OwnClients(m)
    BY MapTables DEF OnlyAt, OwnClients
<1>2. SideOK(m)'
    BY SideOf DEF SideOK, Playing
<1> QED BY <1>1, <1>2, ReadsCharStep, MapTables DEF LinkTypes

LEMMA AuthOkInv ==
    ASSUME Inv, NEW m \in Maps, NEW c \in Clients, NEW ver \in Nat, chrif_authok(m, c, ver), UNCHANGED player,
           ReadsChar(m), MapOnly
    PROVE  Inv'
<1>1. CASE /\ ~Playing(m) /\ authdb[m].state \in ST_LOGIN /\ authdb[m].client = c
           /\ SetNode(m, [authdb[m] EXCEPT !.state = "loaded", !.ver = ver])
           /\ ToCharFrom(m, <<[t |-> "regs"]>>)
           /\ UNCHANGED <<client, socket, mapEof>>
  <2>1. authdb[m] \in Nodes /\ socket[m][authdb[m].client] = "sd" /\ SideOK(m)
      BY <1>1, SideOf, MapTables DEF SideOK, ST_LOGIN, NoNodeHere
  <2>2. PICK n : n = [authdb[m] EXCEPT !.state = "loaded", !.ver = ver]
      OBVIOUS
  <2>3. n \in Nodes /\ n.state = "loaded" /\ n.ver = ver /\ n.client = authdb[m].client
      BY <2>1, <2>2 DEF Nodes
  <2>4. authdb' = [authdb EXCEPT ![m] = authdb'[m]] /\ authdb'[m] = n
      BY <1>1, <2>2, MapTables DEF SetNode
  <2>5. OnlyAt(m) /\ OwnClients(m)
      BY <1>1, <2>4, MapTables DEF OnlyAt, OwnClients
  <2>6. SideOK(m)'
      BY <1>1, <2>1, <2>3, <2>4 DEF SideOK, Playing
  <2>7. fromMap' \in [Maps -> Seq(FromMapMsg)]
      BY <1>1, SendType, MessageTypes
  <2> QED BY <2>5, <2>6, <2>7, ReadsCharStep
<1>2. CASE /\ ~Playing(m) /\ authdb[m].state \in ST_LOGIN
           /\ clif_authfail_fd(m, authdb[m].client)
           /\ ToCharFrom(m, <<[t |-> "offline"]>>)
           /\ chrif_auth_delete(m)
  <2>1. fromMap' \in [Maps -> Seq(FromMapMsg)]
      BY <1>2, SendType, MessageTypes
  <2> QED BY <1>2, <2>1, DeleteToldSide, ReadsCharStep DEF ST_LOGIN
<1>3. CASE UNCHANGED <<authdb, client, socket, mapEof, fromMap>>
    BY <1>3, ReadsNothing
<1> QED BY <1>1, <1>2, <1>3, Zenon DEF chrif_authok

LEMMA AuthFailInv ==
    ASSUME Inv, NEW m \in Maps, NEW c \in Clients, chrif_authfail(m, c), UNCHANGED <<player, fromMap>>,
           ReadsChar(m), MapOnly
    PROVE  Inv'
<1>1. CASE /\ authdb[m].state \in ST_LOGIN /\ authdb[m].client = c
           /\ clif_authfail_fd(m, c) /\ chrif_auth_delete(m)
  <2>1. authdb[m] # NoNodeHere
      BY <1>1 DEF NoNodeHere, ST_LOGIN
  <2> QED BY <1>1, <2>1, NodePlaysNot, DeleteToldSide, ReadsCharStep, MapTables DEF ST_LOGIN, LinkTypes
<1>2. CASE UNCHANGED <<authdb, client, socket, mapEof>>
    BY <1>2, ReadsNothing
<1> QED BY <1>1, <1>2 DEF chrif_authfail

LEMMA RegReceivedInv ==
    ASSUME Inv, NEW m \in Maps, pc_reg_received(m), UNCHANGED <<client, socket, mapEof, fromMap>>, ReadsChar(m), MapOnly
    PROVE  Inv'
<1>1. CASE /\ authdb[m].state = "loaded"
           /\ SetPlayer(m, [client |-> authdb[m].client, ver |-> authdb[m].ver, link |-> "on"])
           /\ SetNode(m, NoNodeHere)
  <2>1. /\ authdb[m].client \in Clients /\ authdb[m].ver \in Nat
        /\ socket[m][authdb[m].client] = "sd" /\ SideOK(m)
      BY <1>1, SideOf, NodeKinds DEF SideOK
  <2>2. PICK p : p = [client |-> authdb[m].client, ver |-> authdb[m].ver, link |-> "on"]
      OBVIOUS
  <2>3. p \in Players /\ p.client = authdb[m].client
      BY <2>1, <2>2 DEF Players
  <2>4. /\ player' = [player EXCEPT ![m] = player'[m]] /\ player'[m] = p
        /\ authdb' = [authdb EXCEPT ![m] = authdb'[m]] /\ authdb'[m] = NoNodeHere
      BY <1>1, <2>2, MapTables DEF SetNode, SetPlayer
  <2>5. OnlyAt(m) /\ OwnClients(m)
      BY <2>4, MapTables DEF OnlyAt, OwnClients
  <2>6. SideOK(m)'
      BY <2>1, <2>3, <2>4, NodeKinds DEF SideOK, Playing
  <2> QED BY <2>5, <2>6, ReadsCharStep, MapTables DEF LinkTypes
<1>2. CASE UNCHANGED <<player, authdb>>
    BY <1>2, ReadsNothing
<1> QED BY <1>1, <1>2 DEF pc_reg_received

LEMMA CharSelectOkInv ==
    ASSUME Inv, NEW m \in Maps, clif_charselectok(m), UNCHANGED <<player, authdb, socket, fromMap>>, ReadsChar(m), MapOnly
    PROVE  Inv'
<1> DEFINE c == player[m].client
<1>1. CASE /\ Playing(m) /\ player[m].link = "on" /\ client[c] = AtMap(m)
           /\ client' = [client EXCEPT ![c] = Ticket] /\ MarkEof(m, c)
  <2>1. c \in Clients /\ socket[m][c] = "sd" /\ SideOK(m)
      BY <1>1, SideOf, PlayerKinds DEF SideOK
  <2>2. OwnClients(m) /\ client'[c] = Ticket /\ \A d \in Clients \ {c} : client'[d] = client[d]
      BY <1>1, <2>1, OwnClient, Places DEF Ticket
  <2>3. mapEof' = [mapEof EXCEPT ![m] = mapEof'[m]] /\ mapEof'[m] = mapEof[m] \cup {c}
      BY <1>1, MapTables DEF MarkEof
  <2>4. OnlyAt(m)
      BY <2>3, MapTables DEF OnlyAt
  <2>5. SideOK(m)'
      BY <2>1, <2>2, <2>3 DEF SideOK, Playing, Ticket, AtMap
  <2> QED BY <2>2, <2>4, <2>5, ReadsCharStep, MapTables DEF LinkTypes
<1>2. CASE UNCHANGED <<client, mapEof>>
    BY <1>2, ReadsNothing
<1> QED BY <1>1, <1>2, Zenon DEF clif_charselectok

LEMMA ChangeAckInv ==
    ASSUME Inv, NEW m \in Maps, NEW ok, NEW to \in Maps, chrif_changemapserverack(m, ok, to), UNCHANGED <<player, fromMap>>,
           ReadsChar(m), MapOnly
    PROVE  Inv'
<1> DEFINE c == authdb[m].client
<1>1. CASE /\ authdb[m].state = "mapchange"
           /\ client' = [client EXCEPT ![c] = IF @ # AtMap(m) THEN @
                                              ELSE IF ok THEN ReadyFor(to) ELSE Gone]
           /\ MarkEof(m, c)
           /\ chrif_auth_delete(m)
  <2>1. c \in Clients /\ socket[m][c] = "sd" /\ SideOK(m) /\ ~Playing(m)
      BY <1>1, SideOf, NodeKinds, NodePlaysNot DEF SideOK
  <2>2. PICK place \in {client[c], ReadyFor(to), Gone} :
            client' = [client EXCEPT ![c] = place] /\ (client[c] = AtMap(m) <=> place # client[c])
    <3>1. AtMap(m) \notin {ReadyFor(to), Gone}
        BY DEF AtMap, ReadyFor, Gone
    <3>2. CASE client[c] # AtMap(m)
        BY <1>1, <2>1, <3>2, MapTables
    <3>3. CASE client[c] = AtMap(m)
        BY <1>1, <2>1, <3>1, <3>3, MapTables
    <3> QED BY <3>2, <3>3
  <2>3. OwnClients(m) /\ client'[c] # AtMap(m) /\ \A d \in Clients \ {c} : client'[d] = client[d]
    <3>1. /\ client' \in [Clients -> ClientPlace] /\ client'[c] = place
          /\ \A d \in Clients \ {c} : client'[d] = client[d]
        BY <2>1, <2>2, MapTables, Places
    <3>2. client'[c] = client[c] \/ (client[c] = AtMap(m) /\ client'[c].at \notin {"map", "char"})
        BY <2>2, <3>1 DEF AtMap, ReadyFor, Gone
    <3> QED BY <2>2, <3>1, <3>2 DEF OwnClients, AtMap
  <2>4. mapEof' = [mapEof EXCEPT ![m] = mapEof'[m]] /\ mapEof'[m] = mapEof[m] \cup {c}
      BY <1>1, MapTables DEF MarkEof
  <2>5. \A d \in Clients : client'[d] = AtMap(m) => client[d] = AtMap(m) /\ d \notin mapEof'[m]
      BY <2>1, <2>3, <2>4 DEF SideOK
  <2>6. OnlyAt(m) /\ SideOK(m)'
      BY <1>1, <2>1, <2>3, <2>4, <2>5, DeleteSide
  <2> QED BY <2>3, <2>6, ReadsCharStep, MapTables DEF LinkTypes
<1>2. CASE UNCHANGED <<client, authdb, socket, mapEof>>
    BY <1>2, ReadsNothing
<1> QED BY <1>1, <1>2, Zenon DEF chrif_changemapserverack

LEMMA DisconnectInv ==
    ASSUME Inv, NEW m \in Maps, chrif_disconnectplayer(m), ReadsChar(m), MapOnly
    PROVE  Inv'
<1>1. CASE ~Playing(m) /\ authdb[m].state \in ST_LOGIN /\ chrif_auth_delete(m)
           /\ UNCHANGED <<player, client, mapEof, fromMap>>
  <2>1. authdb[m] # NoNodeHere
      BY <1>1 DEF NoNodeHere, ST_LOGIN
  <2> QED BY <1>1, <2>1, DeleteUntoldSide, ReadsCharStep, MapTables DEF LinkTypes
<1>2. CASE /\ Playing(m) /\ player[m].link = "on" /\ clif_authfail_fd(m, player[m].client)
           /\ UNCHANGED <<player, authdb, socket, fromMap>>
  <2>1. player[m].client \in Clients /\ socket[m][player[m].client] = "sd" /\ SideOK(m)
      BY <1>2, SideOf, PlayerKinds DEF SideOK
  <2>2. OnlyAt(m) /\ OwnClients(m)
      BY <1>2, <2>1, AuthFailSide, MapTables DEF OnlyAt
  <2>3. SideOK(m)'
      BY <1>2, <2>1, AuthFailSide DEF SideOK, Playing
  <2> QED BY <1>2, <2>2, <2>3, ReadsCharStep, MapTables DEF LinkTypes
<1>3. CASE Playing(m) /\ map_quit_active(m) /\ UNCHANGED <<client, socket, mapEof>>
    BY <1>3, QuitInv DEF ReadsChar, wireVars
<1>4. CASE UNCHANGED <<player, authdb, client, socket, mapEof, fromMap>>
    BY <1>4, ReadsNothing
<1> QED BY <1>1, <1>2, <1>3, <1>4 DEF chrif_disconnectplayer

LEMMA SaveAckInv ==
    ASSUME Inv, NEW m \in Maps, chrif_save_ack(m), UNCHANGED <<player, client, socket, mapEof, fromMap>>, ReadsChar(m), MapOnly
    PROVE  Inv'
<1>1. CASE authdb[m].state = "logout" /\ SetNode(m, NoNodeHere)
  <2>1. authdb' = [authdb EXCEPT ![m] = authdb'[m]] /\ authdb'[m] = NoNodeHere
      BY <1>1, MapTables DEF SetNode
  <2>2. OnlyAt(m) /\ OwnClients(m)
      BY <2>1, MapTables DEF OnlyAt, OwnClients
  <2>3. SideOK(m)'
      BY <2>1, SideOf, NodeKinds DEF SideOK, Playing
  <2> QED BY <2>2, <2>3, ReadsCharStep, MapTables DEF LinkTypes
<1>2. CASE UNCHANGED authdb
    BY <1>2, ReadsNothing
<1> QED BY <1>1, <1>2 DEF chrif_save_ack

LEMMA ChrifParseInv ==
    ASSUME Inv, NEW m \in Maps, chrif_parse(m), MapOnly
    PROVE  Inv'
<1>1. PICK msg \in ToMapMsg : msg = Head(toMap[m])
    BY FirstAndRest, MapTables DEF chrif_parse, LinkTypes
<1>2. ReadsChar(m)
    BY FirstAndRest, MapTables DEF chrif_parse, LinkTypes, ReadsChar
<1>3. /\ msg.t = "authOk" => msg.c \in Clients /\ msg.ver \in Nat
      /\ msg.t = "authFail" => msg.c \in Clients
      /\ msg.t = "changeAck" => msg.to \in Maps
    BY DEF ToMapMsg
<1>4. \/ msg.t = "authOk" /\ chrif_authok(m, msg.c, msg.ver) /\ UNCHANGED player
      \/ msg.t = "authFail" /\ chrif_authfail(m, msg.c) /\ UNCHANGED <<player, fromMap>>
      \/ pc_reg_received(m) /\ UNCHANGED <<client, socket, mapEof, fromMap>>
      \/ clif_charselectok(m) /\ UNCHANGED <<player, authdb, socket, fromMap>>
      \/ msg.t = "changeAck" /\ chrif_changemapserverack(m, msg.ok, msg.to) /\ UNCHANGED <<player, fromMap>>
      \/ chrif_disconnectplayer(m)
      \/ chrif_save_ack(m) /\ UNCHANGED <<player, client, socket, mapEof, fromMap>>
    BY <1>1, Zenon DEF chrif_parse
<1> QED BY <1>2, <1>3, <1>4, AuthOkInv, AuthFailInv, RegReceivedInv, CharSelectOkInv, ChangeAckInv, DisconnectInv, SaveAckInv

LEMMA MapNextInv == ASSUME Inv, MapNext PROVE Inv'
<1>1. PICK m \in Maps : MapStep(m) /\ MapOnly
    BY DEF MapNext
<1> QED BY <1>1, WantToConnectionInv, ClifEofInv, DelayQuitInv, PlayInv, AutosaveInv, SelectReqInv, SetPosInv,
           ChrifParseInv, CleanupInv, CharLostInv DEF MapStep

----------------------------------------------------------------------------
(* Clients that leave, and the links. *)

LEMMA ClientDropInv == ASSUME Inv, NEW c \in Clients, ClientDrop(c) PROVE Inv'
<1>1. /\ client' \in [Clients -> ClientPlace] /\ client'[c] = Gone
      /\ \A d \in Clients \ {c} : client'[d] = client[d]
    BY Places, MapTables DEF ClientDrop
<1>2. CharSide'
  <2>1. charEof' = (IF client[c] = AtChar THEN charEof \cup {c} ELSE charEof)
      BY DEF ClientDrop
  <2>2. SessionsAtChar'
      BY <1>1, <2>1, Places DEF ClientDrop, Inv, CharSide, SessionsAtChar
  <2>3. charEof' \subseteq {d \in Clients : charSession[d] # "none"}
      BY <2>1 DEF Inv, CharSide, CharTypeOK, SessionsAtChar
  <2> QED BY <2>2, <2>3 DEF ClientDrop, Inv, CharSide, CharTypeOK
<1>3. \A m \in Maps : mapEof'[m] = IF client[c] = AtMap(m) THEN mapEof[m] \cup {c} ELSE mapEof[m]
    BY DEF ClientDrop
<1>4. MapSide'
  <2>1. SocketsOpen'
      BY <1>1, <1>3 DEF ClientDrop, Inv, MapSide, SocketsOpen, Playing, Gone, AtMap
  <2>2. MapTypeOK'
      BY <1>3 DEF ClientDrop, Inv, MapSide, MapTypeOK, SocketsOpen
  <2> QED BY <2>1, <2>2 DEF ClientDrop, Inv, MapSide, NodesFilled, QuitFindsNoNode, Playing
<1> QED BY <1>1, <1>2, <1>4 DEF ClientDrop, Inv, LinkTypes, queueVars, wireVars, LoginTypeOK, loginVars, NobodyOnLostServer

LEMMA CutInv == ASSUME Inv, Cut PROVE Inv'
<1>1. UNCHANGED <<client, loginVars, charVars, mapVars>>
    BY DEF Cut, CutLoginWire, CutMapWire
<1>2. LinkTypes'
  <2>1. CASE CutLoginWire
      BY <2>1, EmptySeq, MapTables DEF CutLoginWire, LinkTypes
  <2>2. ASSUME NEW m \in Maps, CutMapWire(m) PROVE LinkTypes'
      BY <2>2, EmptySeq, MapTables DEF CutMapWire, LinkTypes
  <2> QED BY <2>1, <2>2 DEF Cut
<1>3. cuts' \in [login : 0 .. MaxLoginCuts, map : 0 .. MaxMapCuts]
    BY BoundsAssumption DEF Cut, Inv
<1>4. Elsewhere
    BY <1>1, MapTables DEF Elsewhere
<1>5. CharSide' /\ MapSide'
    BY <1>1, <1>4, CharSideKept, MapSideKept DEF Inv
<1> QED BY <1>1, <1>2, <1>3, <1>5 DEF Inv, loginVars, charVars, LoginTypeOK, NobodyOnLostServer

LEMMA ReconnectLoginInv == ASSUME Inv, ReconnectLogin PROVE Inv'
<1>1. <<AccountList>> \in Seq(ToLoginMsg)
    BY AccountListType
<1>2. LinkTypes' /\ LoginTypeOK'
    BY <1>1 DEF ReconnectLogin, Inv, LinkTypes, LoginTypeOK
<1>3. CharSide' /\ Elsewhere
    BY DEF ReconnectLogin, Inv, CharSide, CharTypeOK, SessionsAtChar, Elsewhere
<1>4. MapSide'
    BY <1>3, MapSideKept DEF ReconnectLogin, Inv
<1> QED BY <1>2, <1>3, <1>4 DEF ReconnectLogin, Inv, NobodyOnLostServer

LEMMA ReconnectMapInv == ASSUME Inv, NEW m \in Maps, ReconnectMap(m) PROVE Inv'
<1>1. /\ mapWire' = [mapWire EXCEPT ![m] = TRUE] /\ charHasMap' = [charHasMap EXCEPT ![m] = TRUE]
      /\ mapHasChar' = [mapHasChar EXCEPT ![m] = TRUE]
      /\ UNCHANGED <<loginVars, charNode, online, charSession, charEof, stored, cached, charHasLogin,
                     player, tip, toLogin, fromLogin, toMap, loginWire, cuts>>
    BY DEF ReconnectMap
<1>2. toMap'[m] = toMap[m] /\ fromMap' = [fromMap EXCEPT ![m] = fromMap'[m]] /\ fromMap'[m] \in Seq(FromMapMsg)
  <2>1. PICK users \in FromMapMsg : users = [t |-> "users", playing |-> Playing(m)]
      BY MessageTypes DEF Playing
  <2>2. \/ OnReady(m, <<users>>)
        \/ \E x \in FromMapMsg : OnReady(m, <<users, x>>)
    <3>1. CASE OnReady(m, <<users, [t |-> "offline"]>>)
        BY <3>1, MessageTypes
    <3>2. CASE authdb[m].state = "logout" /\ OnReady(m, <<users, SaveMsg(authdb[m].ver, TRUE)>>)
        BY <3>2, SideOf, MessageTypes DEF SideOK
    <3>3. CASE authdb[m].state = "mapchange" /\ OnReady(m, <<users, [t |-> "change", c |-> authdb[m].client, to |-> authdb[m].to]>>)
        BY <3>3, SideOf, NodeKinds, MessageTypes DEF SideOK
    <3> QED BY <2>1, <3>1, <3>2, <3>3, Zenon DEF ReconnectMap, chrif_on_ready
  <2>3. CASE OnReady(m, <<users>>)
      BY <1>1, <2>3, MapTables DEF OnReady, LinkTypes
  <2>4. ASSUME NEW x \in FromMapMsg, OnReady(m, <<users, x>>)
        PROVE  fromMap' = [fromMap EXCEPT ![m] = fromMap'[m]] /\ fromMap'[m] \in Seq(FromMapMsg)
    <3>1. <<users, x>> \in Seq(FromMapMsg)
        OBVIOUS
    <3> QED BY <2>4, <3>1, MapTables DEF OnReady, LinkTypes
  <2> QED BY <1>1, <2>2, <2>3, <2>4
<1>3. LinkTypes'
    BY <1>1, <1>2, MapTables DEF LinkTypes
<1>4. OnlyAt(m) /\ OwnClients(m) /\ SideOK(m)'
  <2>1. CASE UNCHANGED <<authdb, client, socket, mapEof>>
    <3>1. OnlyAt(m) /\ OwnClients(m)
        BY <1>1, <2>1, MapTables DEF OnlyAt, OwnClients
    <3> QED BY <1>1, <2>1, <3>1, SideOf DEF SideOK, Playing
  <2>2. CASE authdb[m].state \in ST_LOGIN /\ clif_authfail_fd(m, authdb[m].client) /\ chrif_auth_delete(m)
    <3>1. ~Playing(m)
        BY <2>2, NodePlaysNot DEF NoNodeHere, ST_LOGIN
    <3> QED BY <1>1, <2>2, <3>1, DeleteToldSide DEF ST_LOGIN
  <2>3. CASE authdb[m].state = "mapchange" /\ clif_authfail_fd(m, authdb[m].client) /\ UNCHANGED <<authdb, socket>>
    <3>1. authdb[m].client \in Clients /\ socket[m][authdb[m].client] = "sd" /\ SideOK(m) /\ ~Playing(m)
        BY <2>3, SideOf, NodeKinds, NodePlaysNot DEF SideOK
    <3>2. OnlyAt(m)
        BY <1>1, <2>3, <3>1, AuthFailSide, MapTables DEF OnlyAt
    <3>3. SideOK(m)'
        BY <1>1, <2>3, <3>1, AuthFailSide DEF SideOK, Playing
    <3> QED BY <2>3, <3>1, <3>2, <3>3, AuthFailSide
  <2> QED BY <2>1, <2>2, <2>3, Zenon DEF ReconnectMap, chrif_on_ready
<1>5. MapSide'
    BY <1>1, <1>4, OwnSide, MapTables
<1>6. CharSide'
    BY <1>1, <1>4, Places DEF OwnClients, Inv, CharSide, CharTypeOK, SessionsAtChar, AtChar
<1> QED BY <1>1, <1>3, <1>4, <1>5, <1>6 DEF Inv, OwnClients, loginVars, LoginTypeOK, NobodyOnLostServer, CharSide, CharTypeOK

----------------------------------------------------------------------------
LEMMA InitInv == Init => Inv
<1> SUFFICES ASSUME Init PROVE Inv
    OBVIOUS
<1>1. LinkTypes
    BY EmptySeq DEF Init, ServersInit, LinksInit, LinkTypes, NoMail
<1>2. LoginTypeOK /\ CharTypeOK
    BY DEF Init, ServersInit, LoginInit, CharInit, LoginTypeOK, CharTypeOK, NoNode, NoEntry
<1>3. MapSide
    BY Places DEF Init, ServersInit, MapInit, MapSide, MapTypeOK, SocketsOpen, NodesFilled, QuitFindsNoNode, Playing,
                  NoPlayer, NoNodeHere, Home, AtMap
<1>4. SessionsAtChar
    BY Places DEF Init, ServersInit, CharInit, SessionsAtChar
<1>5. client \in [Clients -> ClientPlace] /\ cuts \in [login : 0 .. MaxLoginCuts, map : 0 .. MaxMapCuts]
    BY Places, BoundsAssumption DEF Init
<1>6. NobodyOnLostServer
    BY ServerAssumption DEF Init, ServersInit, LoginInit, CharInit, NoEntry, NobodyOnLostServer
<1> QED BY <1>1, <1>2, <1>3, <1>4, <1>5, <1>6 DEF Inv, CharSide

LEMMA NextInv == Inv /\ [Next]_vars => Inv'
<1> SUFFICES ASSUME Inv, [Next]_vars PROVE Inv'
    OBVIOUS
<1>1. CASE Next
    BY <1>1, LoginNextInv, CharNextInv, MapNextInv, ClientDropInv, CutInv, ReconnectLoginInv, ReconnectMapInv DEF Next
<1>2. CASE UNCHANGED vars
  <2>1. Elsewhere /\ UNCHANGED <<loginVars, charVars, mapVars, client, queueVars, wireVars, cuts>>
      BY <1>2, MapTables DEF vars, Elsewhere
  <2>2. CharSide' /\ MapSide'
      BY <2>1, CharSideKept, MapSideKept DEF Inv
  <2> QED BY <2>1, <2>2 DEF Inv, LinkTypes, queueVars, wireVars, loginVars, charVars, LoginTypeOK, NobodyOnLostServer
<1> QED BY <1>1, <1>2

(* The inductive invariant: the messages on the links, what each program has of the account,
   and the sockets of the clients that are connected or on the way. *)
THEOREM HandoffInvariant == Spec => []Inv
BY InitInv, NextInv, PTL DEF Spec

(* Type correctness, for any number of map servers. *)
THEOREM HandoffTypes == Spec => []TypeOK
<1>1. Inv => TypeOK
    BY DEF Inv, TypeOK, CharSide, MapSide
<1> QED BY <1>1, HandoffInvariant, PTL

(* A player who leaves the world finds no node of the account: chrif_save can set the player up
   for quitting. *)
THEOREM QuittingFindsNoNode == Spec => []QuitFindsNoNode
<1>1. Inv => QuitFindsNoNode
    BY DEF Inv, MapSide
<1> QED BY <1>1, HandoffInvariant, PTL

(* The char server and the login server believe nobody to be on a server that they lost. *)
THEOREM LostServersAreEmpty == Spec => []NobodyOnLostServer
<1>1. Inv => NobodyOnLostServer
    BY DEF Inv
<1> QED BY <1>1, HandoffInvariant, PTL


----------------------------------------------------------------------------
(* One map server: the three programs keep the ledger of the character.  Nothing that was played is
   lost, and every player enters the world with the newest version. *)

(* The saves and the acknowledgements that are on the way. *)
NoSave(s) == \A i \in 1 .. Len(s) : s[i].t # "save"
NoFinal(s) == \A i \in 1 .. Len(s) : ~(s[i].t = "save" /\ s[i].final)
NoAck(s) == \A i \in 1 .. Len(s) : s[i].t # "saveAck"
FinalsAre(s, ver) == \A i \in 1 .. Len(s) : s[i].t = "save" /\ s[i].final => s[i].ver = ver
SavesAscend(s, low, high) ==
    \A i \in 1 .. Len(s) : s[i].t = "save" =>
        /\ low <= s[i].ver /\ s[i].ver <= high
        /\ \A j \in 1 .. i : s[j].t = "save" => s[j].ver <= s[i].ver

(* The question of client c to the char server, and the answer: there is one of the two at
   most; no save follows the question, and no acknowledgement the answer. *)
Asks(s, i, c) == s[i].t = "auth" /\ s[i].c = c
Asked(s, c) == \E i \in 1 .. Len(s) : Asks(s, i, c)
AskedOnce(s, c) == \A i, j \in 1 .. Len(s) : Asks(s, i, c) /\ Asks(s, j, c) => i = j
AskedLast(s, c) == \A i \in 1 .. Len(s) : Asks(s, i, c) => \A j \in i .. Len(s) : s[j].t # "save"
Answers(s, i, c) == s[i].t = "authOk" /\ s[i].c = c
Answered(s, c) == \E i \in 1 .. Len(s) : Answers(s, i, c)
AnsweredOnce(s, c) == \A i, j \in 1 .. Len(s) : Answers(s, i, c) /\ Answers(s, j, c) => i = j
AnsweredLast(s, c, ver) ==
    \A i \in 1 .. Len(s) : Answers(s, i, c) => s[i].ver = ver /\ \A j \in i .. Len(s) : s[j].t # "saveAck"

CopiesAgree == cached \in {NoVersion, stored} /\ stored <= tip

PlayerIsNewest(m) == Playing(m) => player[m].ver = tip /\ NoFinal(fromMap[m]) /\ NoAck(toMap[m])

NodeIsNewest(m) ==
    authdb[m].state = "logout" =>
        authdb[m].ver = tip /\ FinalsAre(fromMap[m], tip) /\ (NoAck(toMap[m]) \/ stored = tip)

SqlIsNewest(m) == ~Playing(m) /\ authdb[m].state # "logout" => stored = tip

LoadedIsNewest(m) == authdb[m].state = "loaded" => authdb[m].ver = tip /\ NoSave(fromMap[m]) /\ NoAck(toMap[m])

LoginReadsNewest(m) ==
    LET c == authdb[m].client IN
    authdb[m].state = "login" =>
        /\ AskedLast(fromMap[m], c)
        /\ AnsweredLast(toMap[m], c, tip)
        /\ Answered(toMap[m], c) => NoSave(fromMap[m])

OneQuestion(m) ==
    \A c \in Clients :
        /\ AskedOnce(fromMap[m], c) /\ AnsweredOnce(toMap[m], c)
        /\ ~(Asked(fromMap[m], c) /\ Answered(toMap[m], c))
        /\ Asked(fromMap[m], c) \/ Answered(toMap[m], c) =>
              /\ client[c] \in {AtMap(m), Gone}
              /\ ~(Playing(m) /\ player[m].client = c)
              /\ ~(authdb[m].state = "loaded" /\ authdb[m].client = c)

CutIsEmpty(m) == ~mapWire[m] => fromMap[m] = <<>> /\ toMap[m] = <<>>

Newest(m) ==
    /\ CopiesAgree /\ SavesAscend(fromMap[m], stored, tip)
    /\ PlayerIsNewest(m) /\ NodeIsNewest(m) /\ SqlIsNewest(m) /\ LoadedIsNewest(m)
    /\ LoginReadsNewest(m) /\ OneQuestion(m) /\ authdb[m].state # "mapchange" /\ CutIsEmpty(m)

----------------------------------------------------------------------------
(* A link on which messages were read or lost, and messages of no kind in loud were added. *)
Thins(s, t, loud) ==
    \E d \in 0 .. Len(s) :
        /\ Len(t) >= Len(s) - d
        /\ \A i \in 1 .. Len(t) : IF i <= Len(s) - d THEN t[i] = s[i + d] ELSE t[i].t \notin loud
FromLoud == {"save", "auth"}
ToLoud == {"saveAck", "authOk"}

LEMMA ThinsSame == ASSUME NEW S, NEW s \in Seq(S), NEW loud PROVE Thins(s, s, loud)
<1>1. 0 \in 0 .. Len(s) /\ Len(s) >= Len(s) - 0 /\ \A i \in 1 .. Len(s) : i <= Len(s) - 0 /\ s[i] = s[i + 0]
    OBVIOUS
<1> QED BY <1>1 DEF Thins

LEMMA ThinsTail == ASSUME NEW S, NEW s \in Seq(S), s # <<>>, NEW loud PROVE Thins(s, Tail(s), loud)
<1>1. Len(s) >= 1 /\ Len(Tail(s)) = Len(s) - 1 /\ \A i \in 1 .. Len(Tail(s)) : Tail(s)[i] = s[i + 1]
    OBVIOUS
<1> QED BY <1>1 DEF Thins

LEMMA ThinsCut == ASSUME NEW S, NEW s \in Seq(S), NEW loud PROVE Thins(s, <<>>, loud)
<1>1. Len(s) \in 0 .. Len(s) /\ Len(<<>>) = 0
    OBVIOUS
<1> QED BY <1>1 DEF Thins

LEMMA ThinsSend ==
    ASSUME NEW S, NEW s \in Seq(S), NEW x \in S, NEW loud, x.t \notin loud
    PROVE  Thins(s, s \o <<x>>, loud)
<1> DEFINE t == s \o <<x>>
<1>1. Len(t) = Len(s) + 1 /\ \A i \in 1 .. Len(t) : t[i] = IF i <= Len(s) THEN s[i] ELSE x
    OBVIOUS
<1> HIDE DEF t
<1>2. 0 \in 0 .. Len(s) /\ Len(t) >= Len(s) - 0
    BY <1>1
<1>3. \A i \in 1 .. Len(t) : IF i <= Len(s) - 0 THEN t[i] = s[i + 0] ELSE t[i].t \notin loud
    BY <1>1
<1>4. Thins(s, t, loud)
    BY <1>2, <1>3 DEF Thins
<1> QED BY <1>4 DEF t

LEMMA ThinsFrom ==
    ASSUME NEW s \in Seq(FromMapMsg), NEW t \in Seq(FromMapMsg), Thins(s, t, FromLoud)
    PROVE  /\ NoSave(s) => NoSave(t)
           /\ NoFinal(s) => NoFinal(t)
           /\ \A ver \in Nat : FinalsAre(s, ver) => FinalsAre(t, ver)
           /\ \A low, high \in Nat : SavesAscend(s, low, high) => SavesAscend(t, low, high)
           /\ \A c \in Clients : /\ Asked(t, c) => Asked(s, c)
                                 /\ AskedOnce(s, c) => AskedOnce(t, c)
                                 /\ AskedLast(s, c) => AskedLast(t, c)
<1>1. PICK d \in 0 .. Len(s) :
          /\ Len(t) >= Len(s) - d
          /\ \A i \in 1 .. Len(t) : IF i <= Len(s) - d THEN t[i] = s[i + d] ELSE t[i].t \notin FromLoud
    BY DEF Thins
<1>2. \A i \in 1 .. Len(t) : t[i].t \in FromLoud => i + d \in 1 .. Len(s) /\ t[i] = s[i + d]
    BY <1>1
<1>3. \A i \in 1 .. Len(t) : t[i].t = "save" => i + d \in 1 .. Len(s) /\ t[i] = s[i + d]
    BY <1>2 DEF FromLoud
<1>4. \A i \in 1 .. Len(t) : t[i].t = "auth" => i + d \in 1 .. Len(s) /\ t[i] = s[i + d]
    BY <1>2 DEF FromLoud
<1>5. (NoSave(s) => NoSave(t)) /\ (NoFinal(s) => NoFinal(t)) /\ \A ver \in Nat : FinalsAre(s, ver) => FinalsAre(t, ver)
    BY <1>3 DEF NoSave, NoFinal, FinalsAre
<1>6. ASSUME NEW low \in Nat, NEW high \in Nat, SavesAscend(s, low, high) PROVE SavesAscend(t, low, high)
  <2>1. ASSUME NEW i \in 1 .. Len(t), t[i].t = "save"
        PROVE  /\ low <= t[i].ver /\ t[i].ver <= high
               /\ \A j \in 1 .. i : t[j].t = "save" => t[j].ver <= t[i].ver
    <3>1. i + d \in 1 .. Len(s) /\ t[i] = s[i + d]
        BY <1>3, <2>1
    <3>2. ASSUME NEW j \in 1 .. i, t[j].t = "save" PROVE j + d \in 1 .. i + d /\ t[j] = s[j + d]
        BY <1>3, <3>2
    <3> QED BY <1>6, <2>1, <3>1, <3>2 DEF SavesAscend
  <2> QED BY <2>1 DEF SavesAscend
<1>7. ASSUME NEW c \in Clients
      PROVE  /\ Asked(t, c) => Asked(s, c)
             /\ AskedOnce(s, c) => AskedOnce(t, c)
             /\ AskedLast(s, c) => AskedLast(t, c)
  <2>1. \A i \in 1 .. Len(t) : Asks(t, i, c) => i + d \in 1 .. Len(s) /\ Asks(s, i + d, c)
      BY <1>4 DEF Asks
  <2>2. Asked(t, c) => Asked(s, c)
      BY <2>1 DEF Asked
  <2>3. \A i, j \in 1 .. Len(t) : i + d = j + d => i = j
      OBVIOUS
  <2>4. AskedOnce(s, c) => AskedOnce(t, c)
      BY <2>1, <2>3 DEF AskedOnce
  <2>5. ASSUME AskedLast(s, c), NEW i \in 1 .. Len(t), Asks(t, i, c), NEW j \in i .. Len(t)
        PROVE  t[j].t # "save"
    <3>1. i + d \in 1 .. Len(s) /\ Asks(s, i + d, c)
        BY <1>4, <2>5 DEF Asks
    <3>2. t[j].t = "save" => j + d \in i + d .. Len(s) /\ t[j] = s[j + d]
        BY <1>3
    <3> QED BY <2>5, <3>1, <3>2 DEF AskedLast
  <2> QED BY <2>2, <2>4, <2>5 DEF AskedLast
<1> QED BY <1>5, <1>6, <1>7

LEMMA ThinsTo ==
    ASSUME NEW s \in Seq(ToMapMsg), NEW t \in Seq(ToMapMsg), Thins(s, t, ToLoud)
    PROVE  /\ NoAck(s) => NoAck(t)
           /\ \A c \in Clients : /\ Answered(t, c) => Answered(s, c)
                                 /\ AnsweredOnce(s, c) => AnsweredOnce(t, c)
                                 /\ \A ver \in Nat : AnsweredLast(s, c, ver) => AnsweredLast(t, c, ver)
<1>1. PICK d \in 0 .. Len(s) :
          /\ Len(t) >= Len(s) - d
          /\ \A i \in 1 .. Len(t) : IF i <= Len(s) - d THEN t[i] = s[i + d] ELSE t[i].t \notin ToLoud
    BY DEF Thins
<1>2. \A i \in 1 .. Len(t) : t[i].t \in ToLoud => i + d \in 1 .. Len(s) /\ t[i] = s[i + d]
    BY <1>1
<1>3. \A i \in 1 .. Len(t) : t[i].t = "saveAck" => i + d \in 1 .. Len(s) /\ t[i] = s[i + d]
    BY <1>2 DEF ToLoud
<1>4. \A i \in 1 .. Len(t) : t[i].t = "authOk" => i + d \in 1 .. Len(s) /\ t[i] = s[i + d]
    BY <1>2 DEF ToLoud
<1>5. NoAck(s) => NoAck(t)
    BY <1>3 DEF NoAck
<1>6. ASSUME NEW c \in Clients
      PROVE  /\ Answered(t, c) => Answered(s, c)
             /\ AnsweredOnce(s, c) => AnsweredOnce(t, c)
             /\ \A ver \in Nat : AnsweredLast(s, c, ver) => AnsweredLast(t, c, ver)
  <2>1. \A i \in 1 .. Len(t) : Answers(t, i, c) => i + d \in 1 .. Len(s) /\ Answers(s, i + d, c)
      BY <1>4 DEF Answers
  <2>2. Answered(t, c) => Answered(s, c)
      BY <2>1 DEF Answered
  <2>3. \A i, j \in 1 .. Len(t) : i + d = j + d => i = j
      OBVIOUS
  <2>4. AnsweredOnce(s, c) => AnsweredOnce(t, c)
      BY <2>1, <2>3 DEF AnsweredOnce
  <2>5. ASSUME NEW ver \in Nat, AnsweredLast(s, c, ver), NEW i \in 1 .. Len(t), Answers(t, i, c)
        PROVE  t[i].ver = ver /\ \A j \in i .. Len(t) : t[j].t # "saveAck"
    <3>1. i + d \in 1 .. Len(s) /\ Answers(s, i + d, c) /\ t[i] = s[i + d]
        BY <1>4, <2>5 DEF Answers
    <3>2. ASSUME NEW j \in i .. Len(t) PROVE t[j].t = "saveAck" => j + d \in i + d .. Len(s) /\ t[j] = s[j + d]
        BY <1>3, <3>2
    <3> QED BY <2>5, <3>1, <3>2 DEF AnsweredLast
  <2> QED BY <2>2, <2>4, <2>5 DEF AnsweredLast
<1> QED BY <1>5, <1>6

----------------------------------------------------------------------------
(* Most steps are calm: no save, question, acknowledgement or answer is written, and the
   character stays where it is, or a login under way is given up. *)
SameAccount(m) ==
    \/ player'[m] = player[m] /\ authdb'[m] = authdb[m]
    \/ /\ Playing(m) /\ Playing(m)' /\ authdb'[m] = authdb[m]
       /\ player'[m].client = player[m].client /\ player'[m].ver = player[m].ver
    \/ ~Playing(m) /\ player'[m] = player[m] /\ authdb[m].state \in ST_LOGIN /\ authdb'[m] = NoNodeHere

KeepsQuestions(m) ==
    \A c \in Clients : Asked(fromMap[m], c) \/ Answered(toMap[m], c) => client'[c] \in {AtMap(m), Gone}

SameCopies == stored' = stored /\ tip' = tip /\ cached' \in {cached, NoVersion, stored}

ThinnerLinks(m) ==
    /\ Thins(fromMap[m], fromMap'[m], FromLoud) /\ Thins(toMap[m], toMap'[m], ToLoud)
    /\ CutIsEmpty(m)'

LEMMA LinksOf ==
    ASSUME Inv, NEW m \in Maps
    PROVE  fromMap[m] \in Seq(FromMapMsg) /\ toMap[m] \in Seq(ToMapMsg) /\ stored \in Nat /\ tip \in Nat
           /\ cached \in Nat \cup {NoVersion} /\ SideOK(m)
BY SideOf, MapTables, InvTypes DEF LinkTypes

LEMMA LinksAfter ==
    ASSUME Inv', NEW m \in Maps
    PROVE  fromMap'[m] \in Seq(FromMapMsg) /\ toMap'[m] \in Seq(ToMapMsg) /\ stored' \in Nat /\ tip' \in Nat
           /\ SideOK(m)'
BY DEF Inv, LinkTypes, CharSide, CharTypeOK, MapSide, MapTypeOK, SideOK, SocketsOpen, NodesFilled, QuitFindsNoNode

LEMMA CalmStep ==
    ASSUME Inv, Inv', NEW m \in Maps, Newest(m), SameCopies, ThinnerLinks(m), SameAccount(m), KeepsQuestions(m)
    PROVE  Newest(m)'
<1>1. /\ fromMap[m] \in Seq(FromMapMsg) /\ toMap[m] \in Seq(ToMapMsg) /\ stored \in Nat /\ tip \in Nat
      /\ fromMap'[m] \in Seq(FromMapMsg) /\ toMap'[m] \in Seq(ToMapMsg)
    BY LinksOf, LinksAfter
<1>2. CopiesAgree' /\ SavesAscend(fromMap[m], stored, tip)'
    BY <1>1, ThinsFrom DEF Newest, CopiesAgree, SameCopies, ThinnerLinks
<1>3. NoNodeHere.state = "none" /\ ST_LOGIN = {"login", "loaded"}
    BY DEF NoNodeHere, ST_LOGIN
<1>4. PlayerIsNewest(m)' /\ NodeIsNewest(m)' /\ SqlIsNewest(m)' /\ LoadedIsNewest(m)' /\ authdb'[m].state # "mapchange"
    BY <1>1, <1>3, ThinsFrom, ThinsTo
    DEF Newest, SameCopies, ThinnerLinks, SameAccount, Playing, PlayerIsNewest, NodeIsNewest, SqlIsNewest, LoadedIsNewest
<1>5. LoginReadsNewest(m)'
  <2>1. SUFFICES ASSUME authdb'[m].state = "login" PROVE LoginReadsNewest(m)'
      BY DEF LoginReadsNewest
  <2>2. authdb'[m] = authdb[m] /\ authdb[m].client \in Clients
      BY <1>3, <2>1, LinksOf, NodeKinds DEF SameAccount, SideOK
  <2> QED BY <1>1, <2>1, <2>2, ThinsFrom, ThinsTo DEF Newest, LoginReadsNewest, ThinnerLinks, SameCopies
<1>6. OneQuestion(m)'
  <2>1. ASSUME NEW c \in Clients
        PROVE  /\ AskedOnce(fromMap'[m], c) /\ AnsweredOnce(toMap'[m], c)
               /\ ~(Asked(fromMap'[m], c) /\ Answered(toMap'[m], c))
               /\ Asked(fromMap'[m], c) \/ Answered(toMap'[m], c) => Asked(fromMap[m], c) \/ Answered(toMap[m], c)
      BY <1>1, ThinsFrom, ThinsTo DEF Newest, OneQuestion, ThinnerLinks
  <2>2. ASSUME NEW c \in Clients, Asked(fromMap[m], c) \/ Answered(toMap[m], c)
        PROVE  /\ client'[c] \in {AtMap(m), Gone}
               /\ ~(Playing(m)' /\ player'[m].client = c)
               /\ ~(authdb'[m].state = "loaded" /\ authdb'[m].client = c)
      BY <1>3, <2>2 DEF Newest, OneQuestion, SameAccount, Playing, KeepsQuestions
  <2> QED BY <2>1, <2>2 DEF OneQuestion
<1> QED BY <1>2, <1>4, <1>5, <1>6 DEF Newest, ThinnerLinks

(* Who asks the char server, or has its answer coming, is at the map server or has left it. *)
LEMMA QuestionsKept ==
    ASSUME NEW m \in Maps, Newest(m),
           \A c \in Clients : client[c] \in {AtMap(m), Gone} => client'[c] \in {AtMap(m), Gone}
    PROVE  KeepsQuestions(m)
BY DEF KeepsQuestions, Newest, OneQuestion

----------------------------------------------------------------------------
(* What the steps write to the links. *)

LEMMA LinksKept ==
    ASSUME Inv, NEW m \in Maps, CutIsEmpty(m), fromMap'[m] = fromMap[m], toMap'[m] = toMap[m], mapWire'[m] = mapWire[m]
    PROVE  ThinnerLinks(m)
BY ThinsSame, LinksOf DEF ThinnerLinks, CutIsEmpty

LEMMA SendThins ==
    ASSUME Inv, NEW m \in Maps, NEW x \in FromMapMsg, x.t \notin FromLoud, ToCharFrom(m, <<x>>)
    PROVE  Thins(fromMap[m], fromMap'[m], FromLoud) /\ (~mapWire[m] => fromMap'[m] = fromMap[m])
<1>1. fromMap'[m] = IF mapHasChar[m] /\ mapWire[m] THEN fromMap[m] \o <<x>> ELSE fromMap[m]
    BY MapTables DEF ToCharFrom, LinkTypes
<1> QED BY <1>1, ThinsSame, ThinsSend, LinksOf

LEMMA MailThins ==
    ASSUME Inv, NEW m \in Maps, NEW mail \in [Maps -> Seq(ToMapMsg)], ToMaps(mail),
           mail[m] = <<>> \/ \E x \in ToMapMsg : x.t \notin ToLoud /\ mail[m] = <<x>>
    PROVE  Thins(toMap[m], toMap'[m], ToLoud) /\ (~mapWire[m] => toMap'[m] = toMap[m])
<1>1. toMap'[m] = IF charHasMap[m] /\ mapWire[m] THEN toMap[m] \o mail[m] ELSE toMap[m]
    BY DEF ToMaps
<1>2. CASE toMap'[m] = toMap[m]
    BY <1>2, ThinsSame, LinksOf
<1>3. CASE mail[m] = <<>>
  <2>1. toMap[m] \o <<>> = toMap[m]
      BY LinksOf
  <2> QED BY <1>1, <1>2, <1>3, <2>1
<1>4. ASSUME NEW x \in ToMapMsg, x.t \notin ToLoud, mail[m] = <<x>>
      PROVE  Thins(toMap[m], toMap'[m], ToLoud) /\ (~mapWire[m] => toMap'[m] = toMap[m])
  <2>1. Thins(toMap[m], toMap[m] \o <<x>>, ToLoud)
      BY <1>4, ThinsSend, LinksOf
  <2> QED BY <1>1, <1>2, <1>4, <2>1
<1> QED BY <1>3, <1>4

LEMMA KickThins ==
    ASSUME Inv, NEW m \in Maps, NEW server,
           ToMaps(Kick(server)) \/ ToMaps(ConflictKick(server)) \/ ToMaps(NoMail) \/ UNCHANGED toMap
    PROVE  Thins(toMap[m], toMap'[m], ToLoud) /\ (~mapWire[m] => toMap'[m] = toMap[m])
<1>1. NoMail \in [Maps -> Seq(ToMapMsg)] /\ NoMail[m] = <<>>
    BY EmptySeq DEF NoMail
<1>2. [t |-> "kick"] \in ToMapMsg /\ [t |-> "kick"].t \notin ToLoud
    BY DEF ToMapMsg, ToLoud
<1>3. \A k : Kick(k)[m] \in {<<>>, <<[t |-> "kick"]>>}
    BY <1>1 DEF Kick, MailTo, NoMail
<1>4. CASE UNCHANGED toMap
    BY <1>4, ThinsSame, LinksOf
<1>5. CASE \E k : ToMaps(Kick(k))
    BY <1>2, <1>3, <1>5, KickType, MailThins
<1>6. CASE ToMaps(NoMail)
    BY <1>1, <1>6, MailThins
<1> QED BY <1>4, <1>5, <1>6 DEF ConflictKick

----------------------------------------------------------------------------
(* The login server, and the clients at the char server. *)

LEMMA LoginNextNewest == ASSUME Inv, LoginNext, NEW m \in Maps, Newest(m) PROVE Newest(m)'
<1>1. UNCHANGED <<charVars, mapVars, fromMap, toMap, wireVars>>
    BY DEF LoginNext, LoginOnly, login_auth_ok, RefuseLogin, AcceptLogin, parse_fromchar, OnAuthRequest, OnAccountList,
           add_online_user, remove_online_user, login_chrif_on_disconnect, waiting_disconnect_timer,
           login_online_data_cleanup, queueVars
<1>2. \A c \in Clients : client[c] \in {AtMap(m), Gone} => client'[c] = client[c]
  <2>1. CASE client' = client
      BY <2>1
  <2>2. ASSUME NEW c \in Clients, login_auth_ok(c)
        PROVE  client[c] = Home /\ \A d \in Clients \ {c} : client'[d] = client[d]
      BY <2>2, MapTables DEF login_auth_ok, RefuseLogin, AcceptLogin
  <2>3. CASE \E c \in Clients : login_auth_ok(c)
      BY <2>2, <2>3 DEF Home, AtMap, Gone
  <2> QED BY <2>1, <2>3 DEF LoginNext, parse_fromchar, login_chrif_on_disconnect, waiting_disconnect_timer,
           login_online_data_cleanup
<1>3. ThinnerLinks(m)
    BY <1>1, LinksKept DEF wireVars, Newest
<1>4. Inv' /\ KeepsQuestions(m)
    BY <1>2, LoginNextInv, QuestionsKept
<1> QED BY <1>1, <1>3, <1>4, CalmStep DEF charVars, mapVars, SameCopies, SameAccount

LEMMA ElsewhereKeeps ==
    ASSUME NEW m \in Maps, Elsewhere, Newest(m)
    PROVE  KeepsQuestions(m)
BY QuestionsKept DEF Elsewhere, AtMap, Gone

(* The steps of the char server that do not read from a map server. *)
CharCalm(m) ==
    /\ UNCHANGED <<stored, fromMap, wireVars>> /\ cached' \in {cached, NoVersion, stored}
    /\ Thins(toMap[m], toMap'[m], ToLoud) /\ (~mapWire[m] => toMap'[m] = toMap[m])

LEMMA CharCalmNewest ==
    ASSUME Inv, Inv', CharOnly, Elsewhere, NEW m \in Maps, Newest(m), CharCalm(m)
    PROVE  Newest(m)'
<1>1. ThinnerLinks(m)
    BY ThinsSame, LinksOf DEF ThinnerLinks, CharCalm, CutIsEmpty, Newest, wireVars
<1> QED BY <1>1, ElsewhereKeeps, CalmStep DEF CharCalm, CharOnly, mapVars, SameCopies, SameAccount

LEMMA CharAuthOkCalm ==
    ASSUME Inv, NEW c, char_auth_ok(c), NEW m \in Maps
    PROVE  Thins(toMap[m], toMap'[m], ToLoud) /\ (~mapWire[m] => toMap'[m] = toMap[m])
BY KickThins DEF char_auth_ok, AlreadyOnMap, AlreadyChoosing, StartChoosing

LEMMA CharClientsCalm ==
    ASSUME Inv, NEW m \in Maps,
           \/ \E c \in Clients : EnterChar(c) \/ SelectNowhere(c) \/ parse_char_eof(c)
           \/ \E c \in Clients, to \in Maps : SelectChar(c, to)
    PROVE  CharCalm(m)
<1>1. ASSUME NEW c \in Clients, EnterChar(c) PROVE CharCalm(m)
    BY <1>1, KickThins, CharAuthOkCalm DEF EnterChar, CharCalm
<1>2. ASSUME NEW c \in Clients, SelectNowhere(c) PROVE CharCalm(m)
    BY <1>2, KickThins DEF SelectNowhere, CharCalm, queueVars
<1>3. ASSUME NEW c \in Clients, parse_char_eof(c) PROVE CharCalm(m)
    BY <1>3, KickThins DEF parse_char_eof, set_char_offline, CharCalm
<1>4. ASSUME NEW c \in Clients, NEW to \in Maps, SelectChar(c, to) PROVE CharCalm(m)
    BY <1>4, KickThins DEF SelectChar, CharCalm
<1> QED BY <1>1, <1>2, <1>3, <1>4

LEMMA CharLinksCalm ==
    ASSUME Inv, NEW m \in Maps,
           \/ parse_fromlogin \/ loginif_on_disconnect \/ send_accounts_tologin
           \/ \E k \in Maps : mapif_on_disconnect(k)
           \/ chardb_waiting_disconnect \/ char_online_data_cleanup
    PROVE  CharCalm(m)
<1>1. CASE parse_fromlogin
  <2>1. UNCHANGED <<stored, fromMap, wireVars>> /\ cached' \in {cached, NoVersion}
      BY <1>1 DEF parse_fromlogin, OnAuthAck, OnLoginKick, set_char_offline
  <2>2. (\E c : char_auth_ok(c)) \/ ToMaps(Kick(online.server)) \/ UNCHANGED toMap
      BY <1>1, Zenon DEF parse_fromlogin, OnAuthAck, OnLoginKick
  <2> QED BY <2>1, <2>2, KickThins, CharAuthOkCalm DEF CharCalm
<1>2. CASE loginif_on_disconnect \/ send_accounts_tologin \/ \E k \in Maps : mapif_on_disconnect(k)
    BY <1>2, KickThins DEF loginif_on_disconnect, send_accounts_tologin, mapif_on_disconnect, charVars, queueVars, CharCalm
<1>3. CASE chardb_waiting_disconnect \/ char_online_data_cleanup
    BY <1>3, KickThins DEF chardb_waiting_disconnect, char_online_data_cleanup, set_char_offline, CharCalm
<1> QED BY <1>1, <1>2, <1>3

----------------------------------------------------------------------------
(* The char server reads what the map server wrote. *)

(* What every packet has in common. *)
ReadsHead(m) ==
    /\ fromMap[m] # <<>> /\ fromMap'[m] = Tail(fromMap[m])
    /\ UNCHANGED <<charSession, charEof, charHasMap, charHasLogin, client, fromLogin, wireVars>>

LEMMA HeadOf ==
    ASSUME Inv, NEW m \in Maps, ReadsHead(m)
    PROVE  /\ Head(fromMap[m]) = fromMap[m][1] /\ Len(fromMap[m]) >= 1
           /\ Thins(fromMap[m], fromMap'[m], FromLoud)
           /\ Len(fromMap'[m]) = Len(fromMap[m]) - 1
           /\ \A i \in 1 .. Len(fromMap'[m]) : fromMap'[m][i] = fromMap[m][i + 1]
BY ThinsTail, LinksOf DEF ReadsHead

(* A packet that leaves SQL as it is and is answered with no more than a kick or the like. *)
LEMMA ReadCalm ==
    ASSUME Inv, Inv', CharOnly, NEW m \in Maps, Newest(m), ReadsHead(m), stored' = stored,
           cached' \in {cached, NoVersion, stored},
           Thins(toMap[m], toMap'[m], ToLoud), ~mapWire[m] => toMap'[m] = toMap[m]
    PROVE  Newest(m)'
<1>1. ThinnerLinks(m)
    BY HeadOf DEF ThinnerLinks, CutIsEmpty, Newest, ReadsHead, wireVars
<1>2. KeepsQuestions(m)
    BY QuestionsKept DEF ReadsHead
<1> QED BY <1>1, <1>2, CalmStep DEF CharOnly, mapVars, SameCopies, SameAccount

(* A save that is stored. *)
LEMMA StoreNewest ==
    ASSUME Inv, Inv', CharOnly, NEW m \in Maps, Newest(m), ReadsHead(m),
           NEW ver \in Nat, Head(fromMap[m]).t = "save", Head(fromMap[m]).ver = ver,
           stored' = ver, cached' \in {NoVersion, ver},
           \/ Thins(toMap[m], toMap'[m], ToLoud) /\ (~mapWire[m] => toMap'[m] = toMap[m])
           \/ /\ Head(fromMap[m]).final
              /\ toMap'[m] \in {toMap[m], toMap[m] \o <<[t |-> "saveAck"]>>}
              /\ ~mapWire[m] => toMap'[m] = toMap[m]
    PROVE  Newest(m)'
<1> DEFINE s == fromMap[m]
           s1 == fromMap'[m]
           t == toMap[m]
           t1 == toMap'[m]
<1>1. /\ s \in Seq(FromMapMsg) /\ s1 \in Seq(FromMapMsg) /\ t \in Seq(ToMapMsg) /\ t1 \in Seq(ToMapMsg)
      /\ stored \in Nat /\ tip \in Nat /\ tip' = tip /\ UNCHANGED <<player, authdb, client>>
    BY LinksOf, LinksAfter DEF CharOnly, mapVars, ReadsHead
<1>2. /\ Len(s) \in Nat /\ Len(s1) \in Nat /\ Len(s) >= 1 /\ s[1].t = "save" /\ s[1].ver = ver /\ Thins(s, s1, FromLoud)
      /\ Len(s1) = Len(s) - 1 /\ \A i \in 1 .. Len(s1) : s1[i] = s[i + 1]
    BY <1>1, HeadOf
<1> HIDE DEF s, s1, t, t1
<1>3. stored <= ver /\ ver <= tip
    BY <1>1, <1>2 DEF Newest, SavesAscend, s
<1>4. ~NoSave(s)
    BY <1>1, <1>2 DEF NoSave
<1>5. SavesAscend(s1, ver, tip)
  <2>1. ASSUME NEW i \in 1 .. Len(s1), s1[i].t = "save"
        PROVE  /\ ver <= s1[i].ver /\ s1[i].ver <= tip
               /\ \A j \in 1 .. i : s1[j].t = "save" => s1[j].ver <= s1[i].ver
    <3>1. i + 1 \in 1 .. Len(s) /\ s1[i] = s[i + 1] /\ 1 \in 1 .. i + 1
        BY <1>2
    <3>2. \A j \in 1 .. i : j + 1 \in 1 .. i + 1 /\ s1[j] = s[j + 1]
        BY <1>2
    <3>3. SavesAscend(s, stored, tip)
        BY DEF Newest, s
    <3> QED BY <1>1, <1>2, <2>1, <3>1, <3>2, <3>3 DEF SavesAscend
  <2> QED BY <2>1 DEF SavesAscend
<1>6. CopiesAgree' /\ SavesAscend(fromMap[m], stored, tip)'
    BY <1>1, <1>3, <1>5 DEF CopiesAgree, s1
<1>7. stored = tip => stored' = tip
    BY <1>1, <1>3
<1>8. s[1].final => ~Playing(m)
    BY <1>1, <1>2 DEF Newest, PlayerIsNewest, NoFinal, s
<1>9. s[1].final /\ authdb[m].state = "logout" => stored' = tip
  <2>1. authdb[m].state = "logout" => FinalsAre(s, tip)
      BY DEF Newest, NodeIsNewest, s
  <2>2. 1 \in 1 .. Len(s)
      BY <1>2
  <2> QED BY <1>2, <2>1, <2>2 DEF FinalsAre
<1>10. /\ NoAck(t) /\ ~s[1].final => NoAck(t1)
       /\ \A c \in Clients : (Answered(t1, c) => Answered(t, c)) /\ (AnsweredOnce(t, c) => AnsweredOnce(t1, c))
  <2>1. CASE Thins(t, t1, ToLoud)
      BY <1>1, <2>1, ThinsTo
  <2>2. CASE t1 = t \o <<[t |-> "saveAck"]>> /\ s[1].final
    <3>1. Len(t1) = Len(t) + 1 /\ \A i \in 1 .. Len(t1) : (i <= Len(t) /\ t1[i] = t[i]) \/ t1[i] = [t |-> "saveAck"]
        BY <1>1, <2>2
    <3>2. \A i \in 1 .. Len(t1) : t1[i].t = "authOk" => i \in 1 .. Len(t) /\ t1[i] = t[i]
        BY <1>1, <3>1
    <3> QED BY <2>2, <3>2 DEF Answered, AnsweredOnce, Answers
  <2>3. CASE t1 = t
      BY <2>3
  <2> QED BY <1>2, <2>1, <2>2, <2>3, HeadOf DEF s, t, t1
<1>11. PlayerIsNewest(m)' /\ NodeIsNewest(m)' /\ SqlIsNewest(m)' /\ LoadedIsNewest(m)' /\ authdb'[m].state # "mapchange"
  <2>1. PlayerIsNewest(m)' /\ SqlIsNewest(m)'
      BY <1>1, <1>2, <1>7, <1>8, <1>10, ThinsFrom DEF Newest, PlayerIsNewest, SqlIsNewest, Playing, s, s1, t, t1
  <2>2. NodeIsNewest(m)'
      BY <1>1, <1>2, <1>7, <1>9, <1>10, ThinsFrom DEF Newest, NodeIsNewest, s, s1, t, t1
  <2>3. LoadedIsNewest(m)' /\ authdb'[m].state # "mapchange"
      BY <1>1, <1>4 DEF Newest, LoadedIsNewest, s
  <2> QED BY <2>1, <2>2, <2>3
<1>12. LoginReadsNewest(m)'
  <2>1. SUFFICES ASSUME authdb'[m].state = "login" PROVE LoginReadsNewest(m)'
      BY DEF LoginReadsNewest
  <2>2. authdb'[m] = authdb[m] /\ authdb[m].client \in Clients
      BY <1>1, <2>1, LinksOf, NodeKinds DEF SideOK
  <2>3. ~Answered(t, authdb[m].client)
      BY <1>4, <2>1, <2>2 DEF Newest, LoginReadsNewest, s, t
  <2>4. ~Answered(t1, authdb[m].client) /\ AnsweredLast(t1, authdb[m].client, tip)
      BY <1>10, <2>2, <2>3 DEF AnsweredLast, Answered
  <2> QED BY <1>1, <1>2, <2>1, <2>2, <2>4, ThinsFrom DEF Newest, LoginReadsNewest, s, s1, t, t1
<1>13. OneQuestion(m)'
    BY <1>1, <1>2, <1>10, ThinsFrom DEF Newest, OneQuestion, Playing, s, s1, t, t1
<1>14. CutIsEmpty(m)'
    BY <1>2 DEF Newest, CutIsEmpty, ReadsHead, wireVars, s, t, t1
<1> QED BY <1>6, <1>11, <1>12, <1>13, <1>14 DEF Newest

(* A question that is answered: the node of a login waits for it, and until the answer is
   read nothing but this login can bring the character into the world. *)
LEMMA AnswerNewest ==
    ASSUME Inv, Inv', CharOnly, NEW m \in Maps, Newest(m), ReadsHead(m),
           NEW c \in Clients, Head(fromMap[m]).t = "auth", Head(fromMap[m]).c = c,
           stored' = stored, cached' = stored, mapWire[m],
           toMap'[m] = toMap[m] \o <<[t |-> "authOk", c |-> c, ver |-> stored]>>
    PROVE  Newest(m)'
<1> DEFINE s == fromMap[m]
           s1 == fromMap'[m]
           t == toMap[m]
           t1 == toMap'[m]
           a == [t |-> "authOk", c |-> c, ver |-> stored]
<1>1. /\ s \in Seq(FromMapMsg) /\ s1 \in Seq(FromMapMsg) /\ t \in Seq(ToMapMsg) /\ t1 \in Seq(ToMapMsg)
      /\ stored \in Nat /\ tip \in Nat /\ tip' = tip /\ UNCHANGED <<player, authdb, client>>
    BY LinksOf, LinksAfter DEF CharOnly, mapVars, ReadsHead
<1>2. /\ Len(s) \in Nat /\ Len(s1) \in Nat /\ Len(s) >= 1 /\ Asks(s, 1, c) /\ Thins(s, s1, FromLoud)
      /\ Len(s1) = Len(s) - 1 /\ \A i \in 1 .. Len(s1) : s1[i] = s[i + 1]
    BY <1>1, HeadOf DEF Asks
<1>3. Len(t) \in Nat /\ Len(t1) = Len(t) + 1 /\ (\A i \in 1 .. Len(t) : t1[i] = t[i]) /\ t1[Len(t) + 1] = a
    BY <1>1
<1>4. a.t = "authOk" /\ a.c = c /\ a.ver = stored
    OBVIOUS
<1> HIDE DEF s, s1, t, t1, a
<1>5. AskedOnce(s, c) /\ AnsweredOnce(t, c) /\ ~(Asked(s, c) /\ Answered(t, c))
    BY DEF Newest, OneQuestion, s, t
<1>6. Asked(s, c) /\ ~Answered(t, c)
    BY <1>2, <1>5 DEF Asked
<1>7. ~Asked(s1, c)
  <2>1. ASSUME NEW i \in 1 .. Len(s1) PROVE ~Asks(s1, i, c)
    <3>1. 1 \in 1 .. Len(s) /\ i + 1 \in 1 .. Len(s) /\ i + 1 # 1 /\ s1[i] = s[i + 1]
        BY <1>2
    <3> QED BY <1>2, <1>5, <3>1 DEF AskedOnce, Asks
  <2> QED BY <2>1 DEF Asked
<1>8. AnsweredOnce(t1, c) /\ Answered(t1, c)
  <2>1. \A i \in 1 .. Len(t1) : Answers(t1, i, c) => i = Len(t) + 1
      BY <1>3, <1>6 DEF Answered, Answers
  <2>2. Answers(t1, Len(t) + 1, c) /\ Len(t) + 1 \in 1 .. Len(t1)
      BY <1>3, <1>4 DEF Answers
  <2> QED BY <2>1, <2>2 DEF AnsweredOnce, Answered
<1>9. \A i \in 1 .. Len(t1) : (i \in 1 .. Len(t) /\ t1[i] = t[i]) \/ t1[i] = a
    BY <1>3
<1>10. NoAck(t) => NoAck(t1)
    BY <1>4, <1>9 DEF NoAck
<1>11. ASSUME NEW d \in Clients \ {c}
       PROVE  /\ Answered(t1, d) => Answered(t, d)
              /\ AnsweredOnce(t, d) => AnsweredOnce(t1, d)
              /\ AnsweredLast(t, d, tip) => AnsweredLast(t1, d, tip)
  <2>1. \A i \in 1 .. Len(t1) : Answers(t1, i, d) => i \in 1 .. Len(t) /\ t1[i] = t[i] /\ Answers(t, i, d)
      BY <1>4, <1>9 DEF Answers
  <2>2. (Answered(t1, d) => Answered(t, d)) /\ (AnsweredOnce(t, d) => AnsweredOnce(t1, d))
      BY <2>1 DEF Answered, AnsweredOnce
  <2>3. ASSUME AnsweredLast(t, d, tip), NEW i \in 1 .. Len(t1), Answers(t1, i, d)
        PROVE  t1[i].ver = tip /\ \A j \in i .. Len(t1) : t1[j].t # "saveAck"
    <3>1. i \in 1 .. Len(t) /\ t1[i] = t[i] /\ Answers(t, i, d)
        BY <2>1, <2>3
    <3>2. \A j \in i .. Len(t1) : (j \in i .. Len(t) /\ t1[j] = t[j]) \/ t1[j] = a
        BY <1>3, <3>1
    <3> QED BY <1>4, <2>3, <3>1, <3>2 DEF AnsweredLast
  <2> QED BY <2>2, <2>3 DEF AnsweredLast
<1>12. CopiesAgree' /\ SavesAscend(fromMap[m], stored, tip)'
    BY <1>1, <1>2, ThinsFrom DEF Newest, CopiesAgree, s, s1
<1>13. PlayerIsNewest(m)' /\ NodeIsNewest(m)' /\ SqlIsNewest(m)' /\ LoadedIsNewest(m)' /\ authdb'[m].state # "mapchange"
    BY <1>1, <1>2, <1>10, ThinsFrom DEF Newest, PlayerIsNewest, NodeIsNewest, SqlIsNewest, LoadedIsNewest, Playing, s, s1, t, t1
<1>14. LoginReadsNewest(m)'
  <2>1. SUFFICES ASSUME authdb'[m].state = "login" PROVE LoginReadsNewest(m)'
      BY DEF LoginReadsNewest
  <2>2. authdb'[m] = authdb[m] /\ authdb[m].state = "login" /\ authdb[m].client \in Clients /\ stored = tip
      BY <1>1, <2>1, LinksOf, NodeKinds, NodePlaysNot DEF SideOK, Newest, SqlIsNewest
  <2>3. CASE authdb[m].client = c
    <3>1. AskedLast(s, c)
        BY <2>2, <2>3 DEF Newest, LoginReadsNewest, s
    <3>2. NoSave(s)
        BY <1>2, <3>1 DEF AskedLast, NoSave
    <3>3. NoSave(s1) /\ AskedLast(s1, c)
        BY <1>1, <1>2, <3>1, <3>2, ThinsFrom
    <3>4. AnsweredLast(t1, c, tip)
      <4>1. \A i \in 1 .. Len(t1) : Answers(t1, i, c) => i = Len(t) + 1
          BY <1>3, <1>6 DEF Answered, Answers
      <4>2. \A j \in Len(t) + 1 .. Len(t1) : t1[j] = a
          BY <1>3
      <4> QED BY <1>3, <1>4, <2>2, <4>1, <4>2 DEF AnsweredLast
    <3> QED BY <1>1, <2>2, <2>3, <3>3, <3>4 DEF LoginReadsNewest, s1, t1
  <2>4. CASE authdb[m].client # c
    <3> DEFINE d == authdb[m].client
    <3>1. AskedLast(s, d) /\ AnsweredLast(t, d, tip) /\ (Answered(t, d) => NoSave(s))
        BY <2>2 DEF Newest, LoginReadsNewest, s, t
    <3>2. AskedLast(s1, d) /\ AnsweredLast(t1, d, tip) /\ (Answered(t1, d) => NoSave(s1))
        BY <1>1, <1>2, <1>11, <2>2, <2>4, <3>1, ThinsFrom
    <3> QED BY <1>1, <2>2, <3>2 DEF LoginReadsNewest, s1, t1
  <2> QED BY <2>3, <2>4
<1>15. OneQuestion(m)'
  <2>1. ASSUME NEW d \in Clients
        PROVE  /\ AskedOnce(s1, d) /\ AnsweredOnce(t1, d) /\ ~(Asked(s1, d) /\ Answered(t1, d))
               /\ Asked(s1, d) \/ Answered(t1, d) => Asked(s, d) \/ Answered(t, d)
      BY <1>1, <1>2, <1>6, <1>7, <1>8, <1>11, ThinsFrom DEF Newest, OneQuestion, s, t
  <2> QED BY <1>1, <2>1 DEF Newest, OneQuestion, Playing, s, s1, t, t1
<1>16. CutIsEmpty(m)'
    BY DEF CutIsEmpty, ReadsHead, wireVars
<1> QED BY <1>12, <1>13, <1>14, <1>15, <1>16 DEF Newest

LEMMA OnSaveNewest ==
    ASSUME Inv, Inv', CharOnly, NEW m \in Maps, Newest(m), ReadsHead(m),
           NEW ver \in Nat, NEW final \in BOOLEAN, Head(fromMap[m]) = SaveMsg(ver, final), OnSave(m, ver, final)
    PROVE  Newest(m)'
<1>1. Head(fromMap[m]).t = "save" /\ Head(fromMap[m]).ver = ver /\ Head(fromMap[m]).final = final
    BY DEF SaveMsg
<1>2. CASE final
  <2>1. stored' = ver /\ cached' = NoVersion /\ ToMaps(MailTo(m, <<[t |-> "saveAck"]>>))
      BY <1>2 DEF OnSave, Stores, mmo_char_tosql, set_char_offline
  <2>2. MailTo(m, <<[t |-> "saveAck"]>>)[m] = <<[t |-> "saveAck"]>>
      BY DEF MailTo, NoMail
  <2>3. /\ toMap'[m] \in {toMap[m], toMap[m] \o <<[t |-> "saveAck"]>>}
        /\ ~mapWire[m] => toMap'[m] = toMap[m]
      BY <2>1, <2>2 DEF ToMaps
  <2> QED BY <1>1, <1>2, <2>1, <2>3, StoreNewest
<1>3. CASE ~final /\ online.known /\ online.char
  <2>1. stored' = ver /\ cached' = ver /\ UNCHANGED toMap
      BY <1>3 DEF OnSave, Stores, mmo_char_tosql
  <2> QED BY <1>1, <2>1, KickThins, StoreNewest
<1>4. CASE ~final /\ ~(online.known /\ online.char)
  <2>1. stored' = stored /\ cached' = cached /\ ToMaps(ConflictKick(m))
      BY <1>4 DEF OnSave, Stores
  <2> QED BY <2>1, KickThins, ReadCalm
<1> QED BY <1>2, <1>3, <1>4

LEMMA OnMapAuthNewest ==
    ASSUME Inv, Inv', CharOnly, NEW m \in Maps, Newest(m), ReadsHead(m), NEW c \in Clients,
           Head(fromMap[m]).t = "auth", Head(fromMap[m]).c = c, OnMapAuth(m, c)
    PROVE  Newest(m)'
<1>1. stored' = stored /\ cached' = stored
    BY DEF OnMapAuth, Newest, CopiesAgree
<1>2. CASE ToMaps(Both(MailTo(m, <<[t |-> "authOk", c |-> c, ver |-> cached']>>), ConflictKick(m)))
  <2>1. ConflictKick(m)[m] = <<>>
      BY DEF ConflictKick, Kick, MailTo, NoMail
  <2>2. MailTo(m, <<[t |-> "authOk", c |-> c, ver |-> stored]>>)[m] = <<[t |-> "authOk", c |-> c, ver |-> stored]>>
      BY DEF MailTo, NoMail
  <2>3. toMap'[m] = IF charHasMap[m] /\ mapWire[m]
                    THEN toMap[m] \o (<<[t |-> "authOk", c |-> c, ver |-> stored]>> \o <<>>) ELSE toMap[m]
      BY <1>1, <1>2, <2>1, <2>2 DEF ToMaps, Both
  <2>4. <<[t |-> "authOk", c |-> c, ver |-> stored]>> \o <<>> = <<[t |-> "authOk", c |-> c, ver |-> stored]>>
      OBVIOUS
  <2>5. CASE toMap'[m] = toMap[m]
      BY <1>1, <2>5, ThinsSame, LinksOf, ReadCalm
  <2>6. CASE mapWire[m] /\ toMap'[m] = toMap[m] \o <<[t |-> "authOk", c |-> c, ver |-> stored]>>
      BY <1>1, <2>6, AnswerNewest
  <2> QED BY <2>3, <2>4, <2>5, <2>6
<1>3. CASE ToMaps(MailTo(m, <<[t |-> "authFail", c |-> c]>>))
  <2>1. [t |-> "authFail", c |-> c] \in ToMapMsg /\ [t |-> "authFail", c |-> c].t \notin ToLoud
      BY DEF ToMapMsg, ToLoud
  <2>2. PICK x \in ToMapMsg : x = [t |-> "authFail", c |-> c] /\ x.t \notin ToLoud
      BY <2>1
  <2>3. MailTo(m, <<x>>) \in [Maps -> Seq(ToMapMsg)] /\ MailTo(m, <<x>>)[m] = <<x>>
    <3>1. <<x>> \in Seq(ToMapMsg)
        OBVIOUS
    <3> QED BY <3>1, MailType DEF MailTo, NoMail
  <2> QED BY <1>1, <1>3, <2>2, <2>3, MailThins, ReadCalm
<1> QED BY <1>2, <1>3 DEF OnMapAuth

(* The other packets, and every step of the char server. *)
LEMMA ReplyCalm ==
    ASSUME Inv, Inv', CharOnly, NEW m \in Maps, Newest(m), ReadsHead(m), stored' = stored, cached' \in {cached, NoVersion, stored},
           NEW x \in ToMapMsg, x.t \notin ToLoud, ToMaps(MailTo(m, <<x>>))
    PROVE  Newest(m)'
<1>1. MailTo(m, <<x>>) \in [Maps -> Seq(ToMapMsg)] /\ MailTo(m, <<x>>)[m] = <<x>>
  <2>1. <<x>> \in Seq(ToMapMsg)
      OBVIOUS
  <2> QED BY <2>1, MailType DEF MailTo, NoMail
<1> QED BY <1>1, MailThins, ReadCalm

LEMMA ReplyKinds ==
    /\ {[t |-> "selectOk"], [t |-> "regs"]} \subseteq {x \in ToMapMsg : x.t \notin ToLoud}
    /\ \A c \in Clients, to \in Maps, ok \in BOOLEAN :
          [t |-> "changeAck", c |-> c, ok |-> ok, to |-> to] \in {x \in ToMapMsg : x.t \notin ToLoud}
BY DEF ToMapMsg, ToLoud

LEMMA ParseFromMapNewest ==
    ASSUME Inv, Inv', CharOnly, NEW m \in Maps, Newest(m), parse_frommap(m)
    PROVE  Newest(m)'
<1>1. PICK msg \in FromMapMsg : msg = Head(fromMap[m])
    BY FirstAndRest, LinksOf DEF parse_frommap
<1>2. ReadsHead(m)
    BY MapTables DEF parse_frommap, ReadsHead, LinkTypes
<1>3. /\ msg.t = "save" => msg.ver \in Nat /\ msg.final \in BOOLEAN /\ msg = SaveMsg(msg.ver, msg.final)
      /\ msg.t \in {"select", "auth", "change"} => msg.c \in Clients
      /\ msg.t = "change" => msg.to \in Maps
    BY DEF FromMapMsg, SaveMsg
<1>4. CASE msg.t = "save" /\ OnSave(m, msg.ver, msg.final)
    BY <1>1, <1>2, <1>3, <1>4, OnSaveNewest
<1>5. CASE msg.t = "auth" /\ OnMapAuth(m, msg.c)
    BY <1>1, <1>2, <1>3, <1>5, OnMapAuthNewest
<1>6. CASE msg.t = "select" /\ OnCharSelect(m, msg.c)
    BY <1>2, <1>6, ReplyKinds, ReplyCalm DEF OnCharSelect
<1>7. CASE msg.t = "change" /\ OnChangeServer(m, msg.c, msg.to)
  <2>1. charHasMap[msg.to] \in BOOLEAN
      BY <1>3, <1>7, InvTypes DEF CharTypeOK
  <2>2. PICK x \in ToMapMsg : x.t \notin ToLoud /\ ToMaps(MailTo(m, <<x>>))
      BY <1>3, <1>7, <2>1, ReplyKinds DEF OnChangeServer
  <2> QED BY <1>2, <1>7, <2>2, ReplyCalm DEF OnChangeServer
<1>8. CASE OnMapUsers(m, msg.playing)
    BY <1>2, <1>8, KickThins, ReadCalm DEF OnMapUsers
<1>9. CASE set_char_offline(online, FALSE) /\ UNCHANGED <<charNode, stored, toMap>>
    BY <1>2, <1>9, KickThins, ReadCalm DEF set_char_offline
<1>10. CASE ToMaps(MailTo(m, <<[t |-> "regs"]>>)) /\ UNCHANGED <<charNode, online, stored, cached, toLogin>>
    BY <1>2, <1>10, ReplyKinds, ReplyCalm
<1> QED BY <1>1, <1>4, <1>5, <1>6, <1>7, <1>8, <1>9, <1>10, Zenon DEF parse_frommap

LEMMA CharNextNewest ==
    ASSUME Inv, CharNext, NEW m, Maps = {m}, Newest(m)
    PROVE  Newest(m)'
<1>1. m \in Maps /\ CharOnly /\ Elsewhere /\ Inv'
    BY CharNextInv DEF CharNext
<1>2. CASE \E k \in Maps : parse_frommap(k)
    BY <1>1, <1>2, ParseFromMapNewest
<1>3. CASE CharCalm(m)
    BY <1>1, <1>3, CharCalmNewest
<1> QED BY <1>1, <1>2, <1>3, CharClientsCalm, CharLinksCalm DEF CharNext

----------------------------------------------------------------------------
(* Connections that fail, and clients that leave. *)

LEMMA CutNewest == ASSUME Inv, Cut, NEW m, Maps = {m}, Newest(m) PROVE Newest(m)'
<1>1. Inv' /\ UNCHANGED <<client, charVars, mapVars>>
    BY CutInv DEF Cut, CutLoginWire, CutMapWire
<1>2. ThinnerLinks(m)
  <2>1. CASE UNCHANGED <<fromMap, toMap, mapWire>>
      BY <2>1, LinksKept DEF Newest
  <2>2. CASE CutMapWire(m)
      BY <2>2, ThinsCut, LinksOf, MapTables DEF CutMapWire, ThinnerLinks, CutIsEmpty, LinkTypes
  <2> QED BY <2>1, <2>2 DEF Cut, CutLoginWire
<1> QED BY <1>1, <1>2, QuestionsKept, CalmStep DEF charVars, mapVars, SameCopies, SameAccount

LEMMA ClientDropNewest == ASSUME Inv, NEW c \in Clients, ClientDrop(c), NEW m \in Maps, Newest(m) PROVE Newest(m)'
<1>1. \A d \in Clients : client'[d] \in {client[d], Gone}
    BY MapTables DEF ClientDrop
<1>2. ThinnerLinks(m) /\ Inv' /\ KeepsQuestions(m)
    BY <1>1, ClientDropInv, QuestionsKept, LinksKept DEF ClientDrop, queueVars, wireVars, Newest
<1> QED BY <1>2, CalmStep DEF ClientDrop, SameCopies, SameAccount

LEMMA ReconnectLoginNewest == ASSUME Inv, ReconnectLogin, NEW m \in Maps, Newest(m) PROVE Newest(m)'
<1>1. ThinnerLinks(m) /\ Inv' /\ KeepsQuestions(m)
    BY ReconnectLoginInv, QuestionsKept, LinksKept DEF ReconnectLogin, Newest
<1> QED BY <1>1, CalmStep DEF ReconnectLogin, mapVars, SameCopies, SameAccount

----------------------------------------------------------------------------
(* The map server writes a save of the newest version, or a question. *)

LEMMA NewSave ==
    ASSUME NEW s \in Seq(FromMapMsg), NEW ver \in Nat, NEW final \in BOOLEAN, NEW low \in Nat, low <= ver,
           SavesAscend(s, low, ver), NEW t, t = s \o <<SaveMsg(ver, final)>>
    PROVE  /\ SavesAscend(t, low, ver)
           /\ NoFinal(s) /\ ~final => NoFinal(t)
           /\ FinalsAre(s, ver) => FinalsAre(t, ver)
           /\ \A c \in Clients : (Asked(t, c) => Asked(s, c)) /\ (AskedOnce(s, c) => AskedOnce(t, c))
<1> DEFINE x == SaveMsg(ver, final)
<1>1. x.t = "save" /\ x.ver = ver /\ x.final = final /\ x \in FromMapMsg
    BY DEF SaveMsg, FromMapMsg
<1>2. Len(s) \in Nat /\ Len(t) = Len(s) + 1 /\ (\A i \in 1 .. Len(s) : t[i] = s[i]) /\ t[Len(s) + 1] = x
    BY <1>1
<1> HIDE DEF x
<1>3. \A i \in 1 .. Len(t) : (i \in 1 .. Len(s) /\ t[i] = s[i]) \/ t[i] = x
    BY <1>2
<1>4. SavesAscend(t, low, ver)
  <2>1. ASSUME NEW i \in 1 .. Len(t), t[i].t = "save"
        PROVE  /\ low <= t[i].ver /\ t[i].ver <= ver
               /\ \A j \in 1 .. i : t[j].t = "save" => t[j].ver <= t[i].ver
    <3>1. \A j \in 1 .. i : j \in 1 .. Len(t)
        BY <1>2
    <3>2. \A j \in 1 .. Len(s) : t[j].t = "save" => low <= t[j].ver /\ t[j].ver <= ver
        BY <1>2 DEF SavesAscend
    <3>3. CASE t[i] = x
        BY <1>1, <1>3, <3>1, <3>2, <3>3
    <3>4. CASE i \in 1 .. Len(s)
      <4>1. \A j \in 1 .. i : j \in 1 .. Len(s) /\ t[j] = s[j]
          BY <1>2, <3>4
      <4> QED BY <1>2, <2>1, <3>2, <3>4, <4>1 DEF SavesAscend
    <3> QED BY <1>3, <3>3, <3>4
  <2> QED BY <2>1 DEF SavesAscend
<1>5. (NoFinal(s) /\ ~final => NoFinal(t)) /\ (FinalsAre(s, ver) => FinalsAre(t, ver))
    BY <1>1, <1>3 DEF NoFinal, FinalsAre
<1>6. \A i \in 1 .. Len(t) : t[i].t = "auth" => i \in 1 .. Len(s) /\ t[i] = s[i]
    BY <1>1, <1>3
<1>7. \A c \in Clients : (Asked(t, c) => Asked(s, c)) /\ (AskedOnce(s, c) => AskedOnce(t, c))
    BY <1>6 DEF Asked, AskedOnce, Asks
<1> QED BY <1>4, <1>5, <1>7

(* A save is written by a player who stays or quits, or again by the node of one who quit. *)
LEMMA SaveStep ==
    ASSUME Inv, Inv', NEW m \in Maps, Newest(m), SameCopies, NEW final \in BOOLEAN,
           fromMap'[m] \in {fromMap[m], fromMap[m] \o <<SaveMsg(tip, final)>>},
           Thins(toMap[m], toMap'[m], ToLoud), CutIsEmpty(m)', KeepsQuestions(m),
           \/ Playing(m) /\ ~final /\ player'[m] = player[m] /\ authdb'[m] = authdb[m]
           \/ Playing(m) /\ player'[m] = NoPlayer /\ authdb'[m].state = "logout" /\ authdb'[m].ver = tip
           \/ authdb[m].state = "logout" /\ player'[m] = player[m] /\ authdb'[m] = authdb[m]
    PROVE  Newest(m)'
<1> DEFINE s == fromMap[m]
           s1 == fromMap'[m]
           t == toMap[m]
           t1 == toMap'[m]
<1>1. /\ s \in Seq(FromMapMsg) /\ s1 \in Seq(FromMapMsg) /\ t \in Seq(ToMapMsg) /\ t1 \in Seq(ToMapMsg)
      /\ stored \in Nat /\ tip \in Nat /\ tip' = tip /\ stored' = stored
    BY LinksOf, LinksAfter DEF SameCopies
<1>2. stored <= tip /\ SavesAscend(s, stored, tip)
    BY DEF Newest, CopiesAgree
<1>3. /\ SavesAscend(s1, stored, tip)
      /\ NoFinal(s) /\ ~final => NoFinal(s1)
      /\ FinalsAre(s, tip) => FinalsAre(s1, tip)
      /\ \A c \in Clients : (Asked(s1, c) => Asked(s, c)) /\ (AskedOnce(s, c) => AskedOnce(s1, c))
  <2>1. CASE s1 = s
      BY <1>2, <2>1
  <2>2. CASE s1 = s \o <<SaveMsg(tip, final)>>
      BY <1>1, <1>2, <2>2, NewSave
  <2> QED BY <2>1, <2>2
<1>4. NoFinal(s) => FinalsAre(s, tip)
    BY DEF NoFinal, FinalsAre
<1>5. NoAck(t) => NoAck(t1)
    BY <1>1, ThinsTo
<1>6. Playing(m) => authdb[m] = NoNodeHere /\ authdb[m].state = "none"
    BY LinksOf DEF SideOK, NoNodeHere
<1>7. authdb'[m].state \in {"none", "logout"}
    BY <1>6
<1>8. CopiesAgree' /\ LoadedIsNewest(m)' /\ LoginReadsNewest(m)' /\ authdb'[m].state # "mapchange"
    BY <1>1, <1>7 DEF Newest, CopiesAgree, SameCopies, LoadedIsNewest, LoginReadsNewest
<1>9. authdb[m].state = "logout" => ~Playing(m)
    BY <1>6
<1> HIDE DEF s, s1, t, t1
<1>10. PlayerIsNewest(m)'
    BY <1>1, <1>3, <1>5, <1>9 DEF Newest, PlayerIsNewest, Playing, s, s1, t, t1
<1>11. NodeIsNewest(m)'
    BY <1>1, <1>3, <1>4, <1>5, <1>6 DEF Newest, PlayerIsNewest, NodeIsNewest, s, s1, t, t1
<1>12. SqlIsNewest(m)'
    BY <1>1, <1>6 DEF SqlIsNewest, Playing
<1>13. OneQuestion(m)'
  <2>1. \A c \in Clients : (Answered(t1, c) => Answered(t, c)) /\ (AnsweredOnce(t, c) => AnsweredOnce(t1, c))
      BY <1>1, ThinsTo DEF t, t1
  <2>2. Playing(m)' => Playing(m) /\ player'[m] = player[m]
      BY <1>9 DEF Playing
  <2> QED BY <1>3, <1>7, <2>1, <2>2 DEF Newest, OneQuestion, KeepsQuestions, s, s1, t, t1
<1> QED BY <1>1, <1>3, <1>8, <1>10, <1>11, <1>12, <1>13 DEF Newest, s1

(* What a step of a map server leaves alone. *)
LEMMA SendsOne ==
    ASSUME Inv, NEW m \in Maps, NEW x, ToCharFrom(m, <<x>>)
    PROVE  fromMap'[m] \in {fromMap[m], fromMap[m] \o <<x>>} /\ (~mapWire[m] => fromMap'[m] = fromMap[m])
BY MapTables DEF ToCharFrom, LinkTypes

LEMMA QuitNewest ==
    ASSUME Inv, Inv', NEW m \in Maps, Newest(m), MapOnly, UNCHANGED <<tip, client, wireVars>>, Playing(m), map_quit_active(m),
           Thins(toMap[m], toMap'[m], ToLoud), ~mapWire[m] => toMap'[m] = <<>>
    PROVE  Newest(m)'
<1>1. player[m].ver = tip /\ ToCharFrom(m, <<SaveMsg(player[m].ver, TRUE)>>)
    BY DEF Newest, PlayerIsNewest, map_quit_active
<1>2. fromMap'[m] \in {fromMap[m], fromMap[m] \o <<SaveMsg(tip, TRUE)>>} /\ (~mapWire[m] => fromMap'[m] = fromMap[m])
    BY <1>1, SendsOne
<1>3. CutIsEmpty(m)'
    BY <1>2 DEF Newest, CutIsEmpty, wireVars
<1>4. SameCopies /\ KeepsQuestions(m)
    BY QuestionsKept DEF SameCopies, MapOnly, charVars
<1> QED BY <1>1, <1>2, <1>3, <1>4, QuitSide, SaveStep

LEMMA AskNewest ==
    ASSUME Inv, Inv', NEW m \in Maps, Newest(m), SameCopies, NEW c \in Clients,
           client[c] = ReadyFor(m), client'[c] = AtMap(m), \A d \in Clients \ {c} : client'[d] = client[d],
           fromMap'[m] \in {fromMap[m], fromMap[m] \o <<[t |-> "auth", c |-> c]>>},
           toMap'[m] = toMap[m], CutIsEmpty(m)',
           ~Playing(m), authdb[m] = NoNodeHere, player'[m] = player[m],
           authdb'[m] = NoNodeHere \/ (authdb'[m].state = "login" /\ authdb'[m].client = c)
    PROVE  Newest(m)'
<1> DEFINE s == fromMap[m]
           s1 == fromMap'[m]
           x == [t |-> "auth", c |-> c]
<1>1. /\ s \in Seq(FromMapMsg) /\ s1 \in Seq(FromMapMsg) /\ stored \in Nat /\ tip \in Nat /\ tip' = tip /\ stored' = stored
    BY LinksOf, LinksAfter DEF SameCopies
<1>2. ~Asked(s, c) /\ ~Answered(toMap[m], c)
    BY DEF Newest, OneQuestion, ReadyFor, AtMap, Gone
<1>3. Len(s) \in Nat /\ Len(s1) \in Nat /\ \A i \in 1 .. Len(s1) : (i \in 1 .. Len(s) /\ s1[i] = s[i]) \/ (i = Len(s) + 1 /\ i = Len(s1) /\ s1[i] = x)
    BY <1>1
<1>4. x.t = "auth" /\ x.c = c
    OBVIOUS
<1> HIDE DEF s, s1, x
<1>5. NoSave(s) => NoSave(s1)
    BY <1>3, <1>4 DEF NoSave
<1>6. SavesAscend(s1, stored, tip)
  <2>1. SavesAscend(s, stored, tip)
      BY DEF Newest, s
  <2>2. ASSUME NEW i \in 1 .. Len(s1), s1[i].t = "save"
        PROVE  /\ stored <= s1[i].ver /\ s1[i].ver <= tip
               /\ \A j \in 1 .. i : s1[j].t = "save" => s1[j].ver <= s1[i].ver
    <3>1. i \in 1 .. Len(s) /\ s1[i] = s[i]
        BY <1>3, <1>4, <2>2
    <3>2. \A j \in 1 .. i : j \in 1 .. Len(s1) /\ (s1[j].t = "save" => s1[j] = s[j])
        BY <1>3, <1>4
    <3> QED BY <2>1, <2>2, <3>1, <3>2 DEF SavesAscend
  <2> QED BY <2>2 DEF SavesAscend
<1>7. AskedOnce(s1, c) /\ AskedLast(s1, c)
  <2>1. \A i \in 1 .. Len(s1) : Asks(s1, i, c) => i = Len(s) + 1 /\ i = Len(s1) /\ s1[i] = x
      BY <1>2, <1>3 DEF Asked, Asks
  <2>2. ASSUME NEW i \in 1 .. Len(s1), Asks(s1, i, c), NEW j \in i .. Len(s1) PROVE s1[j].t # "save"
      BY <1>3, <1>4, <2>1, <2>2
  <2> QED BY <2>1, <2>2 DEF AskedOnce, AskedLast
<1>8. ASSUME NEW d \in Clients \ {c} PROVE (Asked(s1, d) => Asked(s, d)) /\ (AskedOnce(s, d) => AskedOnce(s1, d))
  <2>1. \A i \in 1 .. Len(s1) : Asks(s1, i, d) => i \in 1 .. Len(s) /\ Asks(s, i, d)
      BY <1>3, <1>4 DEF Asks
  <2> QED BY <2>1 DEF Asked, AskedOnce
<1>9. CopiesAgree' /\ PlayerIsNewest(m)' /\ SqlIsNewest(m)'
    BY <1>1 DEF Newest, CopiesAgree, SameCopies, PlayerIsNewest, SqlIsNewest, Playing, NoNodeHere
<1>10. NodeIsNewest(m)' /\ LoadedIsNewest(m)' /\ authdb'[m].state # "mapchange"
    BY DEF NodeIsNewest, LoadedIsNewest, NoNodeHere
<1>11. LoginReadsNewest(m)'
  <2>1. ~Answered(toMap'[m], c) /\ AnsweredLast(toMap'[m], c, tip')
      BY <1>2 DEF Answered, AnsweredLast
  <2> QED BY <1>7, <2>1 DEF LoginReadsNewest, NoNodeHere, s1
<1>12. OneQuestion(m)'
  <2>1. ASSUME NEW d \in Clients
        PROVE  /\ AskedOnce(s1, d) /\ AnsweredOnce(toMap'[m], d) /\ ~(Asked(s1, d) /\ Answered(toMap'[m], d))
               /\ Asked(s1, d) \/ Answered(toMap'[m], d) => client'[d] \in {AtMap(m), Gone}
      BY <1>2, <1>7, <1>8 DEF Newest, OneQuestion, s
  <2>2. ~Playing(m)' /\ authdb'[m].state # "loaded"
      BY DEF Playing, NoNodeHere
  <2> QED BY <2>1, <2>2 DEF OneQuestion, s1
<1> QED BY <1>1, <1>6, <1>9, <1>10, <1>11, <1>12 DEF Newest, s1

----------------------------------------------------------------------------
(* The clients' side of the map server. *)

LEMMA MapCopies == ASSUME MapOnly, tip' = tip PROVE SameCopies
BY DEF MapOnly, charVars, SameCopies

LEMMA WantToConnectionNewest ==
    ASSUME Inv, Inv', NEW m \in Maps, Newest(m), MapOnly, NEW c \in Clients, WantToConnection(m, c)
    PROVE  Newest(m)'
<1>1. SameCopies /\ UNCHANGED <<player, toMap, wireVars>> /\ client[c] = ReadyFor(m)
    BY MapCopies DEF WantToConnection
<1>2. CASE client' = [client EXCEPT ![c] = Gone] /\ UNCHANGED <<authdb, fromMap>>
  <2>1. KeepsQuestions(m)
      BY <1>2, MapTables, QuestionsKept
  <2> QED BY <1>1, <1>2, <2>1, LinksKept, CalmStep DEF Newest, wireVars, SameAccount
<1>3. CASE /\ ~Playing(m) /\ authdb[m] = NoNodeHere
           /\ client' = [client EXCEPT ![c] = AtMap(m)]
           /\ IF mapHasChar[m]
              THEN chrif_sd_to_auth(m, [NoNodeHere EXCEPT !.state = "login", !.client = c])
              ELSE UNCHANGED authdb
           /\ ToCharFrom(m, <<[t |-> "auth", c |-> c]>>)
  <2>1. client'[c] = AtMap(m) /\ \A d \in Clients \ {c} : client'[d] = client[d]
      BY <1>3, MapTables
  <2>2. fromMap'[m] \in {fromMap[m], fromMap[m] \o <<[t |-> "auth", c |-> c]>>} /\ (~mapWire[m] => fromMap'[m] = fromMap[m])
      BY <1>3, SendsOne
  <2>3. authdb'[m] = NoNodeHere \/ (authdb'[m].state = "login" /\ authdb'[m].client = c)
    <3>1. PICK n : n = [NoNodeHere EXCEPT !.state = "login", !.client = c]
        OBVIOUS
    <3>2. n.state = "login" /\ n.client = c
        BY <3>1 DEF NoNodeHere
    <3> QED BY <1>3, <3>1, <3>2, MapTables DEF chrif_sd_to_auth, SetNode
  <2>4. CutIsEmpty(m)'
      BY <1>1, <2>2 DEF Newest, CutIsEmpty, wireVars
  <2> QED BY <1>1, <1>3, <2>1, <2>2, <2>3, <2>4, AskNewest
<1> QED BY <1>2, <1>3, Zenon DEF WantToConnection, StillRecognized

LEMMA ClifEofNewest ==
    ASSUME Inv, Inv', NEW m \in Maps, Newest(m), MapOnly, NEW c \in Clients, clif_parse_eof(m, c)
    PROVE  Newest(m)'
<1> DEFINE mine == Playing(m) /\ player[m].client = c /\ player[m].link = "on"
<1>1. SameCopies /\ UNCHANGED <<tip, toMap, client, wireVars>> /\ KeepsQuestions(m)
    BY MapCopies, QuestionsKept DEF clif_parse_eof
<1>2. CASE Playing(m) /\ map_quit_active(m)
    BY <1>1, <1>2, ThinsSame, LinksOf, QuitNewest DEF Newest, CutIsEmpty
<1>3. CASE /\ Playing(m) /\ \E link \in {"delayed", "auto"} : SetPlayer(m, [player[m] EXCEPT !.link = link])
           /\ UNCHANGED <<authdb, fromMap>>
  <2>1. PICK p : /\ player' = [player EXCEPT ![m] = p]
                 /\ \E link \in {"delayed", "auto"} : p = [player[m] EXCEPT !.link = link]
      BY <1>3 DEF SetPlayer
  <2>2. player[m] \in Players
      BY <1>3, PlayerKinds
  <2>3. player'[m] = p /\ p \in Players /\ p.client = player[m].client /\ p.ver = player[m].ver
      BY <2>1, <2>2, MapTables DEF Players
  <2>4. Playing(m)'
      BY <2>3, NoVersionPlayer DEF Playing
  <2> QED BY <1>1, <1>3, <2>3, <2>4, LinksKept, CalmStep DEF Newest, wireVars, SameAccount
<1>4. CASE /\ ~mine /\ authdb[m].state \notin {"none", "logout"} /\ authdb' = WithoutNode(m)
           /\ UNCHANGED <<player, fromMap>>
  <2>1. authdb[m] # NoNodeHere /\ authdb[m].state \in ST_LOGIN
      BY <1>4, LinksOf, NodeKinds DEF Newest, SideOK, ST_LOGIN, NoNodeHere
  <2>2. ~Playing(m) /\ authdb'[m] = NoNodeHere
      BY <1>4, <2>1, NodePlaysNot, MapTables DEF WithoutNode
  <2> QED BY <1>1, <1>4, <2>1, <2>2, LinksKept, CalmStep DEF Newest, wireVars, SameAccount
<1>5. CASE UNCHANGED <<player, authdb, fromMap>>
    BY <1>1, <1>5, LinksKept, CalmStep DEF Newest, wireVars, SameAccount
<1> QED BY <1>2, <1>3, <1>4, <1>5 DEF clif_parse_eof

LEMMA DelayQuitNewest ==
    ASSUME Inv, Inv', NEW m \in Maps, Newest(m), MapOnly, clif_delayquit(m)
    PROVE  Newest(m)'
BY ThinsSame, LinksOf, QuitNewest DEF clif_delayquit, Newest, CutIsEmpty

LEMMA PlayNewest ==
    ASSUME Inv, Inv', NEW m \in Maps, Newest(m), MapOnly, Play(m)
    PROVE  Newest(m)'
<1>1. /\ Playing(m) /\ player[m] \in Players /\ tip' = tip + 1 /\ tip \in Nat /\ stored \in Nat
      /\ UNCHANGED <<stored, cached, authdb, client, queueVars, wireVars>>
      /\ fromMap[m] \in Seq(FromMapMsg) /\ authdb[m] = NoNodeHere
    BY LinksOf, PlayerKinds DEF Play, MapOnly, charVars, SideOK
<1>2. PICK p : p = [player[m] EXCEPT !.ver = tip + 1] /\ player' = [player EXCEPT ![m] = p]
    BY DEF Play, SetPlayer
<1>3. player'[m] = p /\ p \in Players /\ p.client = player[m].client /\ p.ver = tip'
    BY <1>1, <1>2, MapTables DEF Players
<1>4. Playing(m)'
    BY <1>3, NoVersionPlayer DEF Playing
<1>5. CopiesAgree' /\ SavesAscend(fromMap[m], stored, tip)'
  <2>1. \A i \in 1 .. Len(fromMap[m]) : fromMap[m][i].t = "save" => fromMap[m][i].ver \in Nat
      BY <1>1 DEF FromMapMsg
  <2> QED BY <1>1, <2>1 DEF Newest, CopiesAgree, SavesAscend, queueVars
<1>6. PlayerIsNewest(m)' /\ NodeIsNewest(m)' /\ SqlIsNewest(m)' /\ LoadedIsNewest(m)' /\ LoginReadsNewest(m)'
      /\ authdb'[m].state # "mapchange"
    BY <1>1, <1>3, <1>4 DEF Newest, PlayerIsNewest, NodeIsNewest, SqlIsNewest, LoadedIsNewest, LoginReadsNewest, NoNodeHere, queueVars
<1>7. OneQuestion(m)' /\ CutIsEmpty(m)'
    BY <1>1, <1>3 DEF Newest, OneQuestion, CutIsEmpty, queueVars, wireVars, NoNodeHere
<1> QED BY <1>5, <1>6, <1>7 DEF Newest

LEMMA AutosaveNewest ==
    ASSUME Inv, Inv', NEW m \in Maps, Newest(m), MapOnly, pc_autosave(m)
    PROVE  Newest(m)'
<1>1. /\ Playing(m) /\ player[m].ver = tip /\ ToCharFrom(m, <<SaveMsg(tip, FALSE)>>)
      /\ UNCHANGED <<mapVars, client, toMap, wireVars>>
    BY DEF pc_autosave, Newest, PlayerIsNewest
<1>2. fromMap'[m] \in {fromMap[m], fromMap[m] \o <<SaveMsg(tip, FALSE)>>} /\ (~mapWire[m] => fromMap'[m] = fromMap[m])
    BY <1>1, SendsOne
<1>3. CutIsEmpty(m)'
    BY <1>1, <1>2 DEF Newest, CutIsEmpty, wireVars
<1>4. SameCopies /\ KeepsQuestions(m) /\ player'[m] = player[m] /\ authdb'[m] = authdb[m]
    BY <1>1, MapCopies, QuestionsKept DEF mapVars
<1>5. Thins(toMap[m], toMap'[m], ToLoud)
    BY <1>1, ThinsSame, LinksOf
<1> QED BY <1>1, <1>2, <1>3, <1>4, <1>5, SaveStep

(* Steps that write one message of no such kind. *)
LEMMA SendCalm ==
    ASSUME Inv, Inv', NEW m \in Maps, Newest(m), MapOnly, UNCHANGED <<tip, mapWire>>, SameAccount(m), KeepsQuestions(m),
           NEW x \in FromMapMsg, x.t \notin FromLoud, ToCharFrom(m, <<x>>),
           Thins(toMap[m], toMap'[m], ToLoud), ~mapWire[m] => toMap'[m] = toMap[m]
    PROVE  Newest(m)'
<1>1. ThinnerLinks(m)
    BY SendThins DEF ThinnerLinks, CutIsEmpty, Newest
<1> QED BY <1>1, MapCopies, CalmStep

LEMMA QuietKinds ==
    /\ {[t |-> "offline"], [t |-> "regs"]} \subseteq {x \in FromMapMsg : x.t \notin FromLoud}
    /\ \A c \in Clients : [t |-> "select", c |-> c] \in {x \in FromMapMsg : x.t \notin FromLoud}
BY DEF FromMapMsg, FromLoud

LEMMA SelectReqNewest ==
    ASSUME Inv, Inv', NEW m \in Maps, Newest(m), MapOnly, chrif_charselectreq(m)
    PROVE  Newest(m)'
<1>1. /\ Playing(m) /\ player[m].client \in Clients /\ ToCharFrom(m, <<[t |-> "select", c |-> player[m].client]>>)
      /\ UNCHANGED <<mapVars, client, toMap, wireVars>>
    BY PlayerKinds DEF chrif_charselectreq
<1>2. PICK x \in FromMapMsg : x.t \notin FromLoud /\ ToCharFrom(m, <<x>>)
    BY <1>1, QuietKinds
<1>3. KeepsQuestions(m) /\ SameAccount(m) /\ Thins(toMap[m], toMap'[m], ToLoud)
    BY <1>1, QuestionsKept, ThinsSame, LinksOf DEF mapVars, SameAccount
<1> QED BY <1>1, <1>2, <1>3, SendCalm DEF mapVars, wireVars

----------------------------------------------------------------------------
(* What the map server reads from the char server. *)

(* A login under way is given up, whether its client is told or not. *)
LEMMA GiveUp ==
    ASSUME Inv, NEW m \in Maps, authdb[m].state \in ST_LOGIN, chrif_auth_delete(m), UNCHANGED player
    PROVE  SameAccount(m)
<1>1. authdb[m] # NoNodeHere
    BY DEF ST_LOGIN, NoNodeHere
<1> QED BY <1>1, NodePlaysNot, AuthDeleteSide DEF SameAccount

LEMMA ToldKeeps ==
    ASSUME Inv, NEW m \in Maps, Newest(m), NEW c \in Clients, clif_authfail_fd(m, c)
    PROVE  KeepsQuestions(m)
<1>1. \A d \in Clients : client'[d] \in {client[d], Gone}
    BY MapTables DEF clif_authfail_fd, Refuse
<1> QED BY <1>1, QuestionsKept

ReadsReply(m) == toMap[m] # <<>> /\ toMap'[m] = Tail(toMap[m]) /\ UNCHANGED <<tip, wireVars>>

LEMMA ReplyOf ==
    ASSUME Inv, NEW m \in Maps, Newest(m), ReadsReply(m)
    PROVE  /\ Head(toMap[m]) = toMap[m][1] /\ Len(toMap[m]) >= 1
           /\ Thins(toMap[m], toMap'[m], ToLoud)
           /\ Len(toMap'[m]) = Len(toMap[m]) - 1
           /\ \A i \in 1 .. Len(toMap'[m]) : toMap'[m][i] = toMap[m][i + 1]
           /\ mapWire[m] /\ CutIsEmpty(m)'
<1>1. mapWire[m] /\ mapWire'[m] = mapWire[m]
    BY DEF ReadsReply, Newest, CutIsEmpty, wireVars
<1> QED BY <1>1, ThinsTail, LinksOf DEF ReadsReply, CutIsEmpty

LEMMA ReplyNothing ==
    ASSUME Inv, Inv', NEW m \in Maps, Newest(m), MapOnly, ReadsReply(m), SameAccount(m), KeepsQuestions(m), UNCHANGED fromMap
    PROVE  Newest(m)'
BY ReplyOf, ThinsSame, LinksOf, MapCopies, CalmStep DEF ThinnerLinks, ReadsReply

LEMMA AuthOkNewest ==
    ASSUME Inv, Inv', NEW m \in Maps, Newest(m), MapOnly, ReadsReply(m), UNCHANGED player,
           NEW c \in Clients, NEW ver \in Nat, Head(toMap[m]) = [t |-> "authOk", c |-> c, ver |-> ver], chrif_authok(m, c, ver)
    PROVE  Newest(m)'
<1>1. Answers(toMap[m], 1, c) /\ toMap[m][1].ver = ver
    BY ReplyOf DEF Answers
<1>2. CASE /\ ~Playing(m) /\ authdb[m].state \in ST_LOGIN /\ authdb[m].client = c
           /\ SetNode(m, [authdb[m] EXCEPT !.state = "loaded", !.ver = ver])
           /\ ToCharFrom(m, <<[t |-> "regs"]>>)
           /\ UNCHANGED client
  <2> DEFINE s == fromMap[m]
             s1 == fromMap'[m]
             t == toMap[m]
             t1 == toMap'[m]
  <2>1. /\ s \in Seq(FromMapMsg) /\ s1 \in Seq(FromMapMsg) /\ t \in Seq(ToMapMsg) /\ t1 \in Seq(ToMapMsg)
        /\ stored \in Nat /\ tip \in Nat /\ tip' = tip /\ UNCHANGED <<stored, cached, player>>
      BY LinksOf, LinksAfter DEF ReadsReply, MapOnly, charVars
  <2>2. /\ Len(t) \in Nat /\ Len(t1) \in Nat /\ Len(t) >= 1 /\ Len(t1) = Len(t) - 1 /\ CutIsEmpty(m)'
        /\ Thins(t, t1, ToLoud) /\ \A i \in 1 .. Len(t1) : t1[i] = t[i + 1]
    <3>1. Len(t) \in Nat /\ Len(t1) \in Nat
        BY <2>1
    <3> QED BY <3>1, ReplyOf
  <2>3. Thins(s, s1, FromLoud)
      BY <1>2, SendThins, QuietKinds
  <2> HIDE DEF s, s1, t, t1
  <2>4. Answered(t, c) /\ 1 \in 1 .. Len(t) /\ Answers(t, 1, c) /\ t[1].ver = ver
      BY <1>1, <2>2 DEF Answered, t
  <2>5. authdb[m].state = "login"
      BY <1>2, <2>4 DEF Newest, OneQuestion, ST_LOGIN, t
  <2>6. ver = tip /\ NoSave(s) /\ NoAck(t)
    <3>1. AnsweredLast(t, c, tip) /\ NoSave(s)
        BY <1>2, <2>4, <2>5 DEF Newest, LoginReadsNewest, s, t
    <3> QED BY <2>4, <3>1 DEF AnsweredLast, NoAck
  <2>7. PICK n : n = [authdb[m] EXCEPT !.state = "loaded", !.ver = ver]
      OBVIOUS
  <2>8. authdb'[m] = n /\ n.state = "loaded" /\ n.ver = tip /\ n.client = c
    <3>1. authdb[m] \in Nodes
        BY <2>5, LinksOf, NodeKinds DEF SideOK
    <3> QED BY <1>2, <2>6, <2>7, <3>1, MapTables DEF SetNode, Nodes
  <2>9. NoSave(s1) /\ NoAck(t1) /\ SavesAscend(s1, stored, tip)
      BY <2>1, <2>2, <2>3, <2>6, ThinsFrom, ThinsTo DEF Newest, s
  <2>10. CopiesAgree' /\ PlayerIsNewest(m)' /\ NodeIsNewest(m)' /\ SqlIsNewest(m)' /\ LoadedIsNewest(m)' /\ LoginReadsNewest(m)'
      BY <1>2, <2>1, <2>5, <2>8, <2>9 DEF Newest, CopiesAgree, PlayerIsNewest, NodeIsNewest, SqlIsNewest, LoadedIsNewest,
                                          LoginReadsNewest, Playing, s1, t1
  <2>11. OneQuestion(m)'
    <3>1. ASSUME NEW d \in Clients
          PROVE  /\ AskedOnce(s1, d) /\ AnsweredOnce(t1, d) /\ ~(Asked(s1, d) /\ Answered(t1, d))
                 /\ Asked(s1, d) \/ Answered(t1, d) => (Asked(s, d) \/ Answered(t, d))
        BY <2>1, <2>2, <2>3, ThinsFrom, ThinsTo DEF Newest, OneQuestion, s, t
    <3>2. ~Asked(s, c) /\ AnsweredOnce(t, c)
        BY <2>4 DEF Newest, OneQuestion, s, t
    <3>3. ~Answered(t1, c)
      <4>1. ASSUME NEW i \in 1 .. Len(t1) PROVE ~Answers(t1, i, c)
        <5>1. i + 1 \in 1 .. Len(t) /\ i + 1 # 1 /\ t1[i] = t[i + 1]
            BY <2>2
        <5> QED BY <2>4, <3>2, <5>1 DEF AnsweredOnce, Answers
      <4> QED BY <4>1 DEF Answered
    <3>4. ~Asked(s1, c)
        BY <2>1, <2>3, <3>2, ThinsFrom
    <3> QED BY <1>2, <2>1, <2>8, <3>1, <3>3, <3>4 DEF Newest, OneQuestion, Playing, s, s1, t, t1
  <2> QED BY <2>1, <2>2, <2>8, <2>9, <2>10, <2>11 DEF Newest, s1
<1>3. CASE /\ authdb[m].state \in ST_LOGIN
           /\ clif_authfail_fd(m, authdb[m].client)
           /\ ToCharFrom(m, <<[t |-> "offline"]>>)
           /\ chrif_auth_delete(m)
  <2>1. authdb[m].client \in Clients
      BY <1>3, LinksOf, NodeKinds DEF SideOK, ST_LOGIN
  <2> QED BY <1>3, <2>1, GiveUp, ToldKeeps, QuietKinds, ReplyOf, SendCalm DEF ReadsReply, wireVars
<1>4. CASE UNCHANGED <<authdb, client, fromMap>>
    BY <1>4, QuestionsKept, ReplyNothing DEF SameAccount
<1> QED BY <1>2, <1>3, <1>4, Zenon DEF chrif_authok

LEMMA RegReceivedNewest ==
    ASSUME Inv, Inv', NEW m \in Maps, Newest(m), MapOnly, ReadsReply(m), pc_reg_received(m), UNCHANGED <<client, fromMap>>
    PROVE  Newest(m)'
<1>1. CASE /\ authdb[m].state = "loaded"
           /\ SetPlayer(m, [client |-> authdb[m].client, ver |-> authdb[m].ver, link |-> "on"])
           /\ SetNode(m, NoNodeHere)
  <2>1. authdb[m].ver = tip /\ NoSave(fromMap[m]) /\ NoAck(toMap[m]) /\ authdb[m].client \in Clients /\ authdb[m].ver \in Nat
      BY <1>1, LinksOf, NodeKinds DEF Newest, LoadedIsNewest, SideOK
  <2>2. PICK p : p = [client |-> authdb[m].client, ver |-> authdb[m].ver, link |-> "on"]
      OBVIOUS
  <2>3. p \in Players /\ p.client = authdb[m].client /\ p.ver = tip
      BY <2>1, <2>2 DEF Players
  <2>4. player'[m] = p /\ authdb'[m] = NoNodeHere
      BY <1>1, <2>2, MapTables DEF SetPlayer, SetNode
  <2>5. NoAck(toMap'[m]) /\ CutIsEmpty(m)' /\ fromMap'[m] = fromMap[m]
        /\ stored \in Nat /\ tip \in Nat /\ tip' = tip /\ UNCHANGED <<stored, cached>>
      BY <2>1, ReplyOf, ThinsTo, LinksOf, LinksAfter DEF ReadsReply, MapOnly, charVars
  <2>6. NoFinal(fromMap[m])
      BY <2>1 DEF NoSave, NoFinal
  <2>7. Playing(m)'
      BY <2>3, <2>4, NoVersionPlayer DEF Playing
  <2>8. /\ CopiesAgree' /\ PlayerIsNewest(m)' /\ NodeIsNewest(m)' /\ SqlIsNewest(m)' /\ LoadedIsNewest(m)' /\ LoginReadsNewest(m)'
        /\ SavesAscend(fromMap[m], stored, tip)' /\ authdb'[m].state # "mapchange"
      BY <2>3, <2>4, <2>5, <2>6, <2>7 DEF Newest, CopiesAgree, PlayerIsNewest, NodeIsNewest, SqlIsNewest, LoadedIsNewest,
                                          LoginReadsNewest, NoNodeHere
  <2>9. OneQuestion(m)'
    <3>1. ASSUME NEW d \in Clients
          PROVE  (Answered(toMap'[m], d) => Answered(toMap[m], d)) /\ (AnsweredOnce(toMap[m], d) => AnsweredOnce(toMap'[m], d))
        BY ReplyOf, ThinsTo, LinksOf, LinksAfter
    <3>2. ASSUME NEW d \in Clients, Asked(fromMap[m], d) \/ Answered(toMap[m], d) PROVE p.client # d
        BY <1>1, <2>3, <3>2 DEF Newest, OneQuestion
    <3> QED BY <2>4, <2>5, <3>1, <3>2 DEF Newest, OneQuestion, NoNodeHere
  <2> QED BY <2>5, <2>8, <2>9 DEF Newest
<1>2. CASE UNCHANGED <<player, authdb>>
    BY <1>2, QuestionsKept, ReplyNothing DEF SameAccount
<1> QED BY <1>1, <1>2 DEF pc_reg_received

LEMMA SaveAckNewest ==
    ASSUME Inv, Inv', NEW m \in Maps, Newest(m), MapOnly, ReadsReply(m), Head(toMap[m]).t = "saveAck",
           chrif_save_ack(m), UNCHANGED <<player, client, fromMap>>
    PROVE  Newest(m)'
<1>1. CASE authdb[m].state = "logout" /\ SetNode(m, NoNodeHere)
  <2>1. ~NoAck(toMap[m])
    <3>1. 1 \in 1 .. Len(toMap[m]) /\ toMap[m][1].t = "saveAck"
        BY ReplyOf, LinksOf
    <3> QED BY <3>1 DEF NoAck
  <2>2. stored = tip /\ ~Playing(m)
      BY <1>1, <2>1, NodePlaysNot DEF Newest, NodeIsNewest, NoNodeHere
  <2>3. authdb'[m] = NoNodeHere /\ CutIsEmpty(m)' /\ UNCHANGED <<stored, cached, tip, fromMap, player, client>>
      BY <1>1, ReplyOf, MapTables DEF SetNode, ReadsReply, MapOnly, charVars
  <2>4. /\ CopiesAgree' /\ PlayerIsNewest(m)' /\ NodeIsNewest(m)' /\ SqlIsNewest(m)' /\ LoadedIsNewest(m)' /\ LoginReadsNewest(m)'
        /\ SavesAscend(fromMap[m], stored, tip)' /\ authdb'[m].state # "mapchange"
      BY <2>2, <2>3 DEF Newest, CopiesAgree, PlayerIsNewest, NodeIsNewest, SqlIsNewest, LoadedIsNewest,
                        LoginReadsNewest, NoNodeHere, Playing
  <2>5. OneQuestion(m)'
    <3>1. ASSUME NEW d \in Clients
          PROVE  (Answered(toMap'[m], d) => Answered(toMap[m], d)) /\ (AnsweredOnce(toMap[m], d) => AnsweredOnce(toMap'[m], d))
        BY ReplyOf, ThinsTo, LinksOf, LinksAfter
    <3> QED BY <2>2, <2>3, <3>1 DEF Newest, OneQuestion, NoNodeHere, Playing
  <2> QED BY <2>3, <2>4, <2>5 DEF Newest
<1>2. CASE UNCHANGED authdb
    BY <1>2, QuestionsKept, ReplyNothing DEF SameAccount
<1> QED BY <1>1, <1>2 DEF chrif_save_ack

LEMMA SelectOkNewest ==
    ASSUME Inv, Inv', NEW m \in Maps, Newest(m), MapOnly, ReadsReply(m), clif_charselectok(m), UNCHANGED <<player, authdb, fromMap>>
    PROVE  Newest(m)'
<1>1. KeepsQuestions(m)
  <2>1. CASE Playing(m) /\ client' = [client EXCEPT ![player[m].client] = Ticket]
    <3>1. \A c \in Clients : c = player[m].client \/ client'[c] = client[c]
        BY <2>1, MapTables
    <3> QED BY <2>1, <3>1 DEF KeepsQuestions, Newest, OneQuestion
  <2>2. CASE UNCHANGED client
      BY <2>2, QuestionsKept
  <2> QED BY <2>1, <2>2, Zenon DEF clif_charselectok
<1> QED BY <1>1, ReplyNothing DEF SameAccount

LEMMA DisconnectNewest ==
    ASSUME Inv, Inv', NEW m \in Maps, Newest(m), MapOnly, ReadsReply(m), chrif_disconnectplayer(m)
    PROVE  Newest(m)'
<1>1. CASE authdb[m].state \in ST_LOGIN /\ chrif_auth_delete(m) /\ UNCHANGED <<player, client, fromMap>>
    BY <1>1, GiveUp, QuestionsKept, ReplyNothing
<1>2. CASE Playing(m) /\ clif_authfail_fd(m, player[m].client) /\ UNCHANGED <<player, authdb, fromMap>>
    BY <1>2, PlayerKinds, ToldKeeps, ReplyNothing DEF SameAccount
<1>3. CASE Playing(m) /\ map_quit_active(m) /\ UNCHANGED client
    BY <1>3, ReplyOf, QuitNewest DEF ReadsReply
<1>4. CASE UNCHANGED <<player, authdb, client, fromMap>>
    BY <1>4, QuestionsKept, ReplyNothing DEF SameAccount
<1> QED BY <1>1, <1>2, <1>3, <1>4 DEF chrif_disconnectplayer

LEMMA ChrifParseNewest ==
    ASSUME Inv, Inv', NEW m \in Maps, Newest(m), MapOnly, chrif_parse(m)
    PROVE  Newest(m)'
<1>1. PICK msg \in ToMapMsg : msg = Head(toMap[m])
    BY FirstAndRest, LinksOf DEF chrif_parse
<1>2. ReadsReply(m)
    BY MapTables DEF chrif_parse, ReadsReply, LinkTypes
<1>3. /\ msg.t = "authOk" => msg.c \in Clients /\ msg.ver \in Nat /\ msg = [t |-> "authOk", c |-> msg.c, ver |-> msg.ver]
      /\ msg.t = "authFail" => msg.c \in Clients
    BY DEF ToMapMsg
<1>4. CASE msg.t = "authOk" /\ chrif_authok(m, msg.c, msg.ver) /\ UNCHANGED player
    BY <1>1, <1>2, <1>3, <1>4, AuthOkNewest
<1>5. CASE msg.t = "authFail" /\ chrif_authfail(m, msg.c) /\ UNCHANGED <<player, fromMap>>
  <2>1. CASE authdb[m].state \in ST_LOGIN /\ clif_authfail_fd(m, msg.c) /\ chrif_auth_delete(m)
      BY <1>2, <1>3, <1>5, <2>1, GiveUp, ToldKeeps, ReplyNothing
  <2>2. CASE UNCHANGED <<authdb, client>>
      BY <1>2, <1>5, <2>2, QuestionsKept, ReplyNothing DEF SameAccount
  <2> QED BY <1>5, <2>1, <2>2 DEF chrif_authfail
<1>6. CASE pc_reg_received(m) /\ UNCHANGED <<client, socket, mapEof, fromMap>>
    BY <1>2, <1>6, RegReceivedNewest
<1>7. CASE clif_charselectok(m) /\ UNCHANGED <<player, authdb, socket, fromMap>>
    BY <1>2, <1>7, SelectOkNewest
<1>8. CASE chrif_changemapserverack(m, msg.ok, msg.to) /\ UNCHANGED <<player, fromMap>>
  <2>1. UNCHANGED <<authdb, client>>
      BY <1>8 DEF chrif_changemapserverack, Newest
  <2> QED BY <1>2, <1>8, <2>1, QuestionsKept, ReplyNothing DEF SameAccount
<1>9. CASE chrif_disconnectplayer(m)
    BY <1>2, <1>9, DisconnectNewest
<1>10. CASE msg.t = "saveAck" /\ chrif_save_ack(m) /\ UNCHANGED <<player, client, socket, mapEof, fromMap>>
    BY <1>1, <1>2, <1>10, SaveAckNewest
<1> QED BY <1>1, <1>4, <1>5, <1>6, <1>7, <1>8, <1>9, <1>10, Zenon DEF chrif_parse

LEMMA CleanupNewest ==
    ASSUME Inv, Inv', NEW m \in Maps, Newest(m), MapOnly, auth_db_cleanup(m)
    PROVE  Newest(m)'
<1>1. /\ UNCHANGED <<player, tip, client, toMap, wireVars>> /\ KeepsQuestions(m) /\ SameCopies
      /\ Thins(toMap[m], toMap'[m], ToLoud)
    BY QuestionsKept, MapCopies, ThinsSame, LinksOf DEF auth_db_cleanup
<1>2. CASE authdb[m].state = "logout" /\ ToCharFrom(m, <<SaveMsg(authdb[m].ver, TRUE)>>) /\ UNCHANGED authdb
  <2>1. authdb[m].ver = tip
      BY <1>2 DEF Newest, NodeIsNewest
  <2>2. fromMap'[m] \in {fromMap[m], fromMap[m] \o <<SaveMsg(tip, TRUE)>>} /\ (~mapWire[m] => fromMap'[m] = fromMap[m])
      BY <1>2, <2>1, SendsOne
  <2>3. CutIsEmpty(m)'
      BY <1>1, <2>2 DEF Newest, CutIsEmpty, wireVars
  <2> QED BY <1>1, <1>2, <2>2, <2>3, SaveStep
<1>3. CASE authdb[m].state \in ST_LOGIN \cup {"mapchange"} /\ ToCharFrom(m, <<[t |-> "offline"]>>) /\ chrif_auth_delete(m)
  <2>1. SameAccount(m)
      BY <1>1, <1>3, GiveUp DEF Newest
  <2> QED BY <1>1, <1>3, <2>1, QuietKinds, SendCalm DEF wireVars
<1> QED BY <1>2, <1>3 DEF auth_db_cleanup

LEMMA CharLostNewest ==
    ASSUME Inv, Inv', NEW m \in Maps, Newest(m), MapOnly, chrif_on_disconnect(m)
    PROVE  Newest(m)'
<1>1. UNCHANGED <<player, authdb, tip, client, queueVars, wireVars>>
    BY DEF chrif_on_disconnect
<1> QED BY <1>1, LinksKept, QuestionsKept, MapCopies, CalmStep DEF Newest, queueVars, wireVars, SameAccount

LEMMA MapNextNewest ==
    ASSUME Inv, MapNext, NEW m, Maps = {m}, Newest(m)
    PROVE  Newest(m)'
<1>1. m \in Maps /\ MapStep(m) /\ MapOnly /\ Inv'
    BY MapNextInv DEF MapNext
<1>2. ~\E to \in Maps : pc_setpos(m, to)
    BY DEF pc_setpos
<1> QED BY <1>1, <1>2, WantToConnectionNewest, ClifEofNewest, DelayQuitNewest, PlayNewest, AutosaveNewest, SelectReqNewest,
           ChrifParseNewest, CleanupNewest, CharLostNewest DEF MapStep

----------------------------------------------------------------------------
(* The link to the char server comes up again: what was on it is lost, and a final save that
   may be lost with it is sent again. *)

LEMMA ThinsFresh ==
    ASSUME NEW t, Len(t) \in Nat, NEW loud, \A i \in 1 .. Len(t) : t[i].t \notin loud
    PROVE  Thins(<<>>, t, loud)
<1>1. 0 \in 0 .. Len(<<>>) /\ Len(t) >= Len(<<>>) - 0 /\ \A i \in 1 .. Len(t) : ~(i <= Len(<<>>) - 0)
    OBVIOUS
<1> QED BY <1>1 DEF Thins

LEMMA ReconnectMapNewest ==
    ASSUME Inv, NEW m \in Maps, Newest(m), ReconnectMap(m)
    PROVE  Newest(m)'
<1> DEFINE users == [t |-> "users", playing |-> Playing(m)]
<1>1. /\ fromMap[m] = <<>> /\ toMap'[m] = <<>> /\ toMap[m] = <<>> /\ CutIsEmpty(m)' /\ Inv'
      /\ UNCHANGED <<stored, cached, tip, player>> /\ SameCopies
  <2>1. ~mapWire[m] /\ mapWire'[m] /\ UNCHANGED <<stored, cached, tip, player, toMap>>
      BY MapTables DEF ReconnectMap, LinkTypes
  <2> QED BY <2>1, ReconnectMapInv DEF Newest, CutIsEmpty, SameCopies
<1>2. Thins(toMap[m], toMap'[m], ToLoud)
    BY <1>1, ThinsSame, LinksOf
<1>3. users.t = "users" /\ [t |-> "offline"].t = "offline"
    OBVIOUS
<1> HIDE DEF users
<1>4. ASSUME NEW msgs, OnReady(m, msgs) PROVE fromMap'[m] = msgs
    BY <1>4, MapTables DEF OnReady, LinkTypes
<1>5. CASE OnReady(m, <<users>>) /\ UNCHANGED <<authdb, client>>
  <2>1. Thins(fromMap[m], fromMap'[m], FromLoud)
    <3>1. \A i \in 1 .. Len(<<users>>) : <<users>>[i].t \notin FromLoud
        BY <1>3 DEF FromLoud
    <3> QED BY <1>1, <1>4, <1>5, <3>1, ThinsFresh
  <2> QED BY <1>1, <1>2, <1>5, <2>1, QuestionsKept, CalmStep DEF ThinnerLinks, SameAccount
<1>6. CASE /\ authdb[m].state \in ST_LOGIN /\ OnReady(m, <<users, [t |-> "offline"]>>)
           /\ clif_authfail_fd(m, authdb[m].client) /\ chrif_auth_delete(m)
  <2>1. Thins(fromMap[m], fromMap'[m], FromLoud)
    <3>1. \A i \in 1 .. Len(<<users, [t |-> "offline"]>>) : <<users, [t |-> "offline"]>>[i].t \notin FromLoud
        BY <1>3 DEF FromLoud
    <3> QED BY <1>1, <1>4, <1>6, <3>1, ThinsFresh
  <2>2. authdb[m].client \in Clients
      BY <1>6, LinksOf, NodeKinds DEF SideOK, ST_LOGIN
  <2> QED BY <1>1, <1>2, <1>6, <2>1, <2>2, GiveUp, ToldKeeps, CalmStep DEF ThinnerLinks
<1>7. CASE /\ authdb[m].state = "logout" /\ OnReady(m, <<users, SaveMsg(authdb[m].ver, TRUE)>>)
           /\ UNCHANGED <<authdb, client>>
  <2> DEFINE s1 == fromMap'[m]
  <2>1. PICK x : x = SaveMsg(tip, TRUE)
      OBVIOUS
  <2>2. x.t = "save" /\ x.ver = tip
      BY <2>1 DEF SaveMsg
  <2>3. authdb[m].ver = tip /\ stored \in Nat /\ tip \in Nat /\ stored <= tip
      BY <1>7, LinksOf DEF Newest, NodeIsNewest, CopiesAgree
  <2>4. s1 = <<users, x>>
      BY <1>4, <1>7, <2>1, <2>3
  <2>5. Len(s1) = 2 /\ s1[1] = users /\ s1[2] = x
      BY <2>4
  <2> HIDE DEF s1
  <2>6. \A i \in 1 .. Len(s1) : (i = 1 /\ s1[i] = users) \/ (i = 2 /\ s1[i] = x)
      BY <2>5
  <2>7. SavesAscend(s1, stored, tip) /\ FinalsAre(s1, tip)
    <3>1. \A i \in 1 .. Len(s1) : s1[i].t = "save" => s1[i].ver = tip
        BY <1>3, <2>2, <2>6
    <3>2. \A i \in 1 .. Len(s1) : \A j \in 1 .. i : j \in 1 .. Len(s1)
        BY <2>5
    <3> QED BY <2>3, <3>1, <3>2 DEF SavesAscend, FinalsAre
  <2>8. \A c \in Clients : ~Asked(s1, c) /\ AskedOnce(s1, c) /\ ~Answered(<<>>, c) /\ AnsweredOnce(<<>>, c)
    <3>1. \A i \in 1 .. Len(s1) : s1[i].t # "auth"
        BY <1>3, <2>2, <2>6
    <3>2. \A i \in 1 .. Len(<<>>) : FALSE
        OBVIOUS
    <3> QED BY <3>1, <3>2 DEF Asked, AskedOnce, Asks, Answered, AnsweredOnce
  <2>9. /\ CopiesAgree' /\ PlayerIsNewest(m)' /\ NodeIsNewest(m)' /\ SqlIsNewest(m)' /\ LoadedIsNewest(m)'
        /\ LoginReadsNewest(m)' /\ authdb'[m].state # "mapchange"
    <3>1. ~Playing(m)
        BY <1>7, NodePlaysNot DEF NoNodeHere
    <3>2. NoAck(<<>>)
        BY DEF NoAck
    <3> QED BY <1>1, <1>7, <2>3, <2>7, <3>1, <3>2 DEF Newest, CopiesAgree, PlayerIsNewest, NodeIsNewest, SqlIsNewest, LoadedIsNewest,
                                                  LoginReadsNewest, Playing, s1
  <2> QED BY <1>1, <2>7, <2>8, <2>9 DEF Newest, OneQuestion, s1
<1> QED BY <1>5, <1>6, <1>7, Zenon DEF ReconnectMap, chrif_on_ready, users, Newest

----------------------------------------------------------------------------
LEMMA InitNewest == ASSUME Init, NEW m \in Maps PROVE Newest(m)
<1>1. /\ fromMap[m] = <<>> /\ toMap[m] = <<>> /\ player[m] = NoPlayer /\ authdb[m] = NoNodeHere
      /\ stored = 0 /\ cached = NoVersion /\ tip = 0
    BY DEF Init, ServersInit, LinksInit, NoMail, CharInit, MapInit
<1>2. NoNodeHere.state = "none" /\ ~Playing(m)
    BY <1>1 DEF NoNodeHere, Playing
<1>3. Len(<<>>) = 0 /\ \A i \in 1 .. Len(<<>>) : FALSE
    OBVIOUS
<1>4. SavesAscend(<<>>, stored, tip) /\ \A c : AskedOnce(<<>>, c) /\ AnsweredOnce(<<>>, c) /\ ~Asked(<<>>, c) /\ ~Answered(<<>>, c)
    BY <1>3 DEF SavesAscend, AskedOnce, AnsweredOnce, Asked, Answered
<1> QED BY <1>1, <1>2, <1>4 DEF Newest, CopiesAgree, PlayerIsNewest, NodeIsNewest, SqlIsNewest, LoadedIsNewest,
                                LoginReadsNewest, OneQuestion, CutIsEmpty

LEMMA NextNewest ==
    ASSUME NEW m, Maps = {m}, Inv, Newest(m), [Next]_vars
    PROVE  Newest(m)'
<1>1. m \in Maps
    OBVIOUS
<1>2. CASE Next
    BY <1>1, <1>2, LoginNextNewest, CharNextNewest, MapNextNewest, ClientDropNewest, CutNewest, ReconnectLoginNewest,
       ReconnectMapNewest DEF Next
<1>3. CASE UNCHANGED vars
  <2>1. UNCHANGED <<charVars, mapVars, client, fromMap, toMap, mapWire>> /\ Inv'
      BY <1>3, NextInv DEF vars, queueVars, wireVars
  <2> QED BY <1>1, <2>1, LinksKept, QuestionsKept, CalmStep DEF Newest, charVars, mapVars, SameCopies, SameAccount
<1> QED BY <1>2, <1>3

(* With one map server: where the newest version is, what the saves on the way hold, and that a
   login under way reads the newest version. *)
THEOREM NewestInvariant == ASSUME NEW m, Maps = {m} PROVE Spec => [](Inv /\ Newest(m))
<1>1. Init => Inv /\ Newest(m)
    BY InitInv, InitNewest
<1>2. Inv /\ Newest(m) /\ [Next]_vars => Inv' /\ Newest(m)'
    BY NextInv, NextNewest
<1> QED BY <1>1, <1>2, PTL DEF Spec

(* Nothing that was played is lost, whatever connections fail: the newest version is in SQL, in
   the player, or in the node that waits for the acknowledgement. *)
THEOREM NothingIsLost == ASSUME NEW m, Maps = {m} PROVE Spec => []NothingLost
<1>1. Newest(m) => NothingLost
    BY DEF Newest, PlayerIsNewest, NodeIsNewest, SqlIsNewest, NothingLost
<1> QED BY <1>1, NewestInvariant, PTL

----------------------------------------------------------------------------
(* The ledger, step by step.  What a step does to the player's version, to the newest and to the
   one in SQL. *)
Stays(m) == stored' = stored /\ tip' = tip /\ player'[m].ver = player[m].ver
Enters(m) == player[m].ver = NoVersion /\ stored = tip /\ player'[m].ver = tip /\ UNCHANGED <<tip, stored>>
Changes(m) == player[m].ver # NoVersion /\ tip' = tip + 1 /\ player'[m].ver = tip' /\ UNCHANGED stored
Leaves(m) == player[m].ver # NoVersion /\ player'[m].ver = NoVersion /\ UNCHANGED <<tip, stored>>
Saves(m) == stored' \in stored .. tip /\ player'[m].ver = player[m].ver /\ UNCHANGED tip
LedgerStep(m) == Stays(m) \/ Enters(m) \/ Changes(m) \/ Leaves(m) \/ Saves(m)

LEMMA VersionOfPlayer ==
    ASSUME Inv, NEW m \in Maps
    PROVE  Playing(m) <=> player[m].ver # NoVersion
BY PlayerKinds, NoVersionAssumption DEF Playing, NoPlayer

LEMMA QuitLeaves ==
    ASSUME Inv, NEW m \in Maps, Playing(m), map_quit_active(m), UNCHANGED <<stored, tip>>
    PROVE  Leaves(m)
BY VersionOfPlayer, QuitSide DEF Leaves, NoPlayer

LEMMA StoreSaves ==
    ASSUME Inv, NEW m \in Maps, Newest(m), CharOnly, parse_frommap(m)
    PROVE  LedgerStep(m)
<1>1. UNCHANGED <<tip, player>> /\ fromMap[m] # <<>>
    BY DEF CharOnly, mapVars, parse_frommap
<1>2. CASE stored' = stored
    BY <1>1, <1>2 DEF LedgerStep, Stays
<1>3. CASE /\ Head(fromMap[m]).t = "save" /\ stored' = Head(fromMap[m]).ver
  <2>1. SavesAscend(fromMap[m], stored, tip) /\ stored \in Nat /\ tip \in Nat /\ fromMap[m] \in Seq(FromMapMsg)
      BY LinksOf DEF Newest
  <2>2. Head(fromMap[m]) \in FromMapMsg /\ Head(fromMap[m]) = fromMap[m][1] /\ 1 \in 1 .. Len(fromMap[m])
      BY <1>1, <2>1
  <2>3. Head(fromMap[m]).ver \in Nat
      BY <1>3, <2>2 DEF FromMapMsg
  <2>4. stored <= Head(fromMap[m]).ver /\ Head(fromMap[m]).ver <= tip
      BY <1>3, <2>1, <2>2 DEF SavesAscend
  <2> QED BY <1>1, <1>3, <2>1, <2>3, <2>4 DEF LedgerStep, Saves
<1> QED BY <1>2, <1>3, Zenon DEF parse_frommap, OnSave, mmo_char_tosql, OnCharSelect, OnChangeServer, OnMapAuth, OnMapUsers

LEMMA CharLedger ==
    ASSUME Inv, NEW m, Maps = {m}, Newest(m), CharNext
    PROVE  LedgerStep(m)
<1>1. m \in Maps /\ CharOnly /\ UNCHANGED <<tip, player>>
    BY DEF CharNext, CharOnly, mapVars
<1>2. CASE \E k \in Maps : parse_frommap(k)
    BY <1>1, <1>2, StoreSaves
<1>3. CASE CharCalm(m)
    BY <1>1, <1>3 DEF CharCalm, LedgerStep, Stays
<1> QED BY <1>1, <1>2, <1>3, CharClientsCalm, CharLinksCalm DEF CharNext

LEMMA MapLedger ==
    ASSUME Inv, NEW m, Maps = {m}, Newest(m), MapNext
    PROVE  LedgerStep(m)
<1>1. m \in Maps /\ MapStep(m) /\ MapOnly /\ stored' = stored
    BY DEF MapNext, MapOnly, charVars
<1>2. CASE UNCHANGED <<player, tip>>
    BY <1>1, <1>2 DEF LedgerStep, Stays
<1>3. CASE tip' = tip /\ Playing(m) /\ map_quit_active(m)
    BY <1>1, <1>3, QuitLeaves DEF LedgerStep
<1>4. CASE Play(m)
  <2>1. Playing(m) /\ tip' = tip + 1 /\ player' = [player EXCEPT ![m] = [player[m] EXCEPT !.ver = tip + 1]]
      BY <1>4 DEF Play, SetPlayer
  <2>2. player[m] \in Players
      BY <1>1, <2>1, PlayerKinds
  <2>3. PICK p : p = [player[m] EXCEPT !.ver = tip + 1]
      OBVIOUS
  <2>4. p.ver = tip + 1 /\ player'[m] = p
      BY <1>1, <2>1, <2>2, <2>3, MapTables DEF Players
  <2> QED BY <1>1, <2>1, <2>4, VersionOfPlayer DEF LedgerStep, Changes
<1>5. CASE tip' = tip /\ Playing(m) /\ \E link \in {"delayed", "auto"} : SetPlayer(m, [player[m] EXCEPT !.link = link])
  <2>1. PICK p : /\ player' = [player EXCEPT ![m] = p]
                 /\ \E link \in {"delayed", "auto"} : p = [player[m] EXCEPT !.link = link]
      BY <1>5 DEF SetPlayer
  <2>2. player[m] \in Players
      BY <1>1, <1>5, PlayerKinds
  <2>3. player'[m] = p /\ p.ver = player[m].ver
      BY <1>1, <2>1, <2>2, MapTables DEF Players
  <2> QED BY <1>1, <1>5, <2>3 DEF LedgerStep, Stays
<1>6. CASE tip' = tip /\ pc_reg_received(m)
  <2>1. CASE UNCHANGED player
      BY <1>2, <1>6, <2>1
  <2>2. CASE /\ authdb[m].state = "loaded"
             /\ SetPlayer(m, [client |-> authdb[m].client, ver |-> authdb[m].ver, link |-> "on"])
    <3>1. authdb[m].ver = tip /\ stored = tip /\ ~Playing(m)
        BY <1>1, <2>2, NodePlaysNot DEF Newest, LoadedIsNewest, SqlIsNewest, NoNodeHere
    <3>2. player'[m].ver = tip
        BY <1>1, <2>2, <3>1, MapTables DEF SetPlayer
    <3> QED BY <1>1, <1>6, <3>1, <3>2, VersionOfPlayer DEF LedgerStep, Enters
  <2> QED BY <1>6, <2>1, <2>2 DEF pc_reg_received
<1>7. ASSUME NEW c \in Clients, clif_parse_eof(m, c) PROVE LedgerStep(m)
    BY <1>2, <1>3, <1>5, <1>7 DEF clif_parse_eof
<1>8. CASE chrif_parse(m)
  <2>1. tip' = tip
      BY <1>8 DEF chrif_parse
  <2>2. CASE chrif_disconnectplayer(m)
      BY <1>2, <1>3, <2>1, <2>2 DEF chrif_disconnectplayer
  <2> QED BY <1>2, <1>6, <1>8, <2>1, <2>2, Zenon DEF chrif_parse
<1>9. ~\E to \in Maps : pc_setpos(m, to)
    BY DEF pc_setpos
<1>11. CASE \/ \E c \in Clients : WantToConnection(m, c)
            \/ pc_autosave(m) \/ chrif_charselectreq(m) \/ auth_db_cleanup(m) \/ chrif_on_disconnect(m)
    BY <1>2, <1>11 DEF WantToConnection, pc_autosave, chrif_charselectreq, auth_db_cleanup, chrif_on_disconnect, mapVars
<1>12. CASE clif_delayquit(m)
    BY <1>3, <1>12 DEF clif_delayquit
<1> QED BY <1>1, <1>4, <1>7, <1>8, <1>9, <1>11, <1>12 DEF MapStep

LEMMA EveryStepIsInTheLedger ==
    ASSUME Inv, NEW m, Maps = {m}, Newest(m), [Next]_vars
    PROVE  LedgerStep(m)
<1>1. CASE UNCHANGED <<stored, tip, player>>
    BY <1>1 DEF LedgerStep, Stays
<1>2. CASE CharNext
    BY <1>2, CharLedger
<1>3. CASE MapNext
    BY <1>3, MapLedger
<1>4. CASE LoginNext \/ Cut \/ ReconnectLogin \/ (\E c \in Clients : ClientDrop(c)) \/ (\E k \in Maps : ReconnectMap(k)) \/ UNCHANGED vars
  <2>1. UNCHANGED <<stored, tip, player>>
      BY <1>4 DEF LoginNext, LoginOnly, Cut, ReconnectLogin, ClientDrop, ReconnectMap, vars, charVars, mapVars
  <2> QED BY <1>1, <2>1
<1> QED BY <1>2, <1>3, <1>4 DEF Next

(* The refinement mapping, with one map server. *)
LEMMA WorldIsPlayer ==
    ASSUME Inv, NEW m, Maps = {m}
    PROVE  (IF \E k \in Maps : Playing(k) THEN player[CHOOSE k \in Maps : Playing(k)].ver ELSE NoVersion) = player[m].ver
<1>1. CASE Playing(m)
  <2>1. (CHOOSE k \in Maps : Playing(k)) = m
      BY <1>1
  <2> QED BY <1>1, <2>1
<1>2. CASE ~Playing(m)
    BY <1>2 DEF Playing, NoPlayer
<1> QED BY <1>1, <1>2

(* With one map server the programs implement CharacterLedger. *)
THEOREM LedgerIsKept == ASSUME NEW m, Maps = {m} PROVE Spec => KeepsLedger
<1>1. Init => Ledger!Init
  <2>1. SUFFICES ASSUME Init PROVE Ledger!Init
      OBVIOUS
  <2>2. player[m].ver = NoVersion /\ tip = 0 /\ stored = 0
      BY <2>1 DEF Init, ServersInit, CharInit, MapInit, NoPlayer
  <2> QED BY <2>1, <2>2, InitInv, WorldIsPlayer DEF Ledger!Init
<1>2. Inv /\ Newest(m) /\ [Next]_vars => [Ledger!Next]_Ledger!ledger
  <2>1. SUFFICES ASSUME Inv, Newest(m), [Next]_vars PROVE [Ledger!Next]_Ledger!ledger
      OBVIOUS
  <2> DEFINE world == IF \E k \in Maps : Playing(k) THEN player[CHOOSE k \in Maps : Playing(k)].ver ELSE NoVersion
  <2>2. world = player[m].ver
      BY <2>1, WorldIsPlayer
  <2>3. world' = player'[m].ver
    <3>1. CASE Playing(m)'
      <4>1. (CHOOSE k \in Maps : Playing(k)') = m
          BY <3>1
      <4> QED BY <3>1, <4>1 DEF Playing
    <3>2. CASE ~Playing(m)'
      <4>1. player'[m].ver = NoVersion
          BY <3>2 DEF Playing, NoPlayer
      <4> QED BY <3>2, <4>1 DEF Playing
    <3> QED BY <3>1, <3>2
  <2>4. LedgerStep(m)
      BY <2>1, EveryStepIsInTheLedger
  <2>5. CASE Stays(m)
      BY <2>2, <2>3, <2>5 DEF Stays, Ledger!ledger
  <2> QED BY <2>2, <2>3, <2>4, <2>5 DEF LedgerStep, Enters, Changes, Leaves, Saves, Ledger!Next, Ledger!Enter, Ledger!Change, Ledger!Leave, Ledger!Save
<1> QED BY <1>1, <1>2, NewestInvariant, PTL DEF Spec, KeepsLedger, Ledger!Spec

----------------------------------------------------------------------------
(* One map server, no connection that fails, and timers slower than everything else: the other
   two servers know of a player with a client, or what gets it out of the game is on the way. *)

Has(s, kinds) == \E i \in 1 .. Len(s) : s[i].t \in kinds
Lacks(s, kinds) == \A i \in 1 .. Len(s) : s[i].t \notin kinds

(* What makes the char server forget where the account is, if it comes from a map server; a
   login under way also sends no save and no request to choose a character. *)
Unsettling == {"offline", "change", "users"}
Departing == {"offline", "change", "users", "save", "select"}
AskedQuietly(s, c) == \A i \in 1 .. Len(s) : Asks(s, i, c) => \A j \in i .. Len(s) : s[j].t \notin Departing

(* A kick behind the answer to client c reaches the login that the answer completes. *)
KickBehind(s, c) == \E i, j \in 1 .. Len(s) : i < j /\ Answers(s, i, c) /\ s[j].t = "kick"

NoFailures(m) ==
    loginWire /\ mapWire[m] /\ charHasLogin /\ loginHasChar /\ charHasMap[m] /\ mapHasChar[m]

Linked(m) == Playing(m) /\ player[m].link = "on"
Coming(m) == authdb[m].state = "login" /\ Answered(toMap[m], authdb[m].client)

NothingUnsettles(m) ==
    /\ Lacks(fromMap[m], {"change", "users"})
    /\ Playing(m) => Lacks(fromMap[m], Unsettling)
    /\ authdb[m].state = "loaded" => Lacks(fromMap[m], Departing)
    /\ authdb[m].state = "login" => AskedQuietly(fromMap[m], authdb[m].client)
    /\ Coming(m) => Lacks(fromMap[m], Departing)

AtOrLeaving(m, c) == client[c] = AtMap(m) \/ c \in mapEof[m]
OwnersPresent(m) ==
    /\ Linked(m) => AtOrLeaving(m, player[m].client)
    /\ authdb[m].state \in ST_LOGIN => AtOrLeaving(m, authdb[m].client)

(* The login server believes the account to be on the char server, or is told so, and hears
   nothing to the contrary afterwards. *)
Contrary == {"offline", "list"}
Reported(s) == \E i \in 1 .. Len(s) : s[i].t = "online" /\ \A j \in i .. Len(s) : s[j].t \notin Contrary
Heard == loginServer = "char" /\ ~loginTimer /\ Lacks(toLogin, Contrary)
LocatedOn(m) == online.known /\ online.char /\ online.server = m /\ ~online.timer
KnownTo(m) == LocatedOn(m) /\ (Has(fromLogin, {"kick"}) \/ Reported(toLogin) \/ Heard)

Doomed(m) ==
    /\ Linked(m) => Has(toMap[m], {"kick", "selectOk"}) \/ player[m].client \in mapEof[m]
    /\ authdb[m].state = "loaded" => Has(toMap[m], {"kick"}) \/ authdb[m].client \in mapEof[m]
    /\ Coming(m) => KickBehind(toMap[m], authdb[m].client) \/ authdb[m].client \in mapEof[m]

Watched(m) == NoFailures(m) /\ NothingUnsettles(m) /\ OwnersPresent(m) /\ (KnownTo(m) \/ Doomed(m))

----------------------------------------------------------------------------
(* One more message, or the first one read. *)

LEMMA OneMore ==
    ASSUME NEW S, NEW s \in Seq(S), NEW x \in S, NEW t, t = s \o <<x>>
    PROVE  /\ \A kinds : Lacks(s, kinds) /\ x.t \notin kinds => Lacks(t, kinds)
           /\ \A kinds : Has(s, kinds) \/ x.t \in kinds => Has(t, kinds)
           /\ \A c : KickBehind(s, c) \/ (Answered(s, c) /\ x.t = "kick") => KickBehind(t, c)
           /\ \A c : Answered(t, c) => Answered(s, c) \/ (x.t = "authOk" /\ x.c = c)
           /\ \A c : AskedQuietly(s, c) /\ x.t \notin Departing => AskedQuietly(t, c)
           /\ \A c : ~Asked(s, c) /\ x.t \notin Departing => AskedQuietly(t, c)
           /\ Reported(s) /\ x.t \notin Contrary => Reported(t)
           /\ x.t = "online" => Reported(t)
<1>1. Len(s) \in Nat /\ Len(t) = Len(s) + 1 /\ t[Len(s) + 1] = x /\ \A i \in 1 .. Len(s) : t[i] = s[i]
    OBVIOUS
<1>2. \A i \in 1 .. Len(t) : (i \in 1 .. Len(s) /\ t[i] = s[i]) \/ (i = Len(s) + 1 /\ t[i] = x)
    BY <1>1
<1>3. \A i \in 1 .. Len(s) : i \in 1 .. Len(t) /\ t[i] = s[i] /\ i < Len(t)
    BY <1>1
<1>4. Len(t) \in 1 .. Len(t) /\ t[Len(t)] = x
    BY <1>1
<1>5. \A kinds : Lacks(s, kinds) /\ x.t \notin kinds => Lacks(t, kinds)
    BY <1>2 DEF Lacks
<1>6. \A kinds : Has(s, kinds) \/ x.t \in kinds => Has(t, kinds)
    BY <1>3, <1>4 DEF Has
<1>7. ASSUME NEW c, KickBehind(s, c) PROVE KickBehind(t, c)
    BY <1>3, <1>7 DEF KickBehind, Answers
<1>8. ASSUME NEW c, Answered(s, c), x.t = "kick" PROVE KickBehind(t, c)
    BY <1>3, <1>4, <1>8 DEF KickBehind, Answered, Answers
<1>9. ASSUME NEW c, Answered(t, c) PROVE Answered(s, c) \/ (x.t = "authOk" /\ x.c = c)
    BY <1>2, <1>9 DEF Answered, Answers
<1>10. ASSUME NEW c, AskedQuietly(s, c), x.t \notin Departing PROVE AskedQuietly(t, c)
  <2>1. SUFFICES ASSUME NEW i \in 1 .. Len(t), Asks(t, i, c), NEW j \in i .. Len(t) PROVE t[j].t \notin Departing
      BY DEF AskedQuietly
  <2>2. j \in 1 .. Len(t)
      BY <1>1
  <2>3. CASE j = Len(s) + 1
      BY <1>1, <1>10, <2>3
  <2>4. CASE j # Len(s) + 1
    <3>1. i \in 1 .. Len(s) /\ j \in i .. Len(s) /\ t[i] = s[i] /\ t[j] = s[j]
        BY <1>1, <2>4
    <3> QED BY <1>10, <2>1, <3>1 DEF AskedQuietly, Asks
  <2> QED BY <2>3, <2>4
<1>11. ASSUME NEW c, ~Asked(s, c) PROVE AskedQuietly(s, c)
    BY <1>11 DEF Asked, AskedQuietly
<1>12. ASSUME Reported(s), x.t \notin Contrary PROVE Reported(t)
  <2>1. PICK i \in 1 .. Len(s) : s[i].t = "online" /\ \A j \in i .. Len(s) : s[j].t \notin Contrary
      BY <1>12 DEF Reported
  <2>2. \A j \in i .. Len(t) : (j \in i .. Len(s) /\ t[j] = s[j]) \/ j = Len(s) + 1
      BY <1>1
  <2> QED BY <1>1, <1>3, <1>12, <2>1, <2>2 DEF Reported
<1>13. ASSUME x.t = "online" PROVE Reported(t)
  <2>1. \A j \in Len(t) .. Len(t) : j = Len(t)
      BY <1>1
  <2> QED BY <1>4, <1>13, <2>1 DEF Reported, Contrary
<1> QED BY <1>5, <1>6, <1>7, <1>8, <1>9, <1>10, <1>11, <1>12, <1>13

LEMMA OneLess ==
    ASSUME NEW S, NEW s \in Seq(S), s # <<>>, NEW t, t = Tail(s)
    PROVE  /\ \A kinds : Lacks(s, kinds) => Lacks(t, kinds) /\ Head(s).t \notin kinds
           /\ \A kinds : Has(s, kinds) /\ Head(s).t \notin kinds => Has(t, kinds)
           /\ \A c : Answered(t, c) => Answered(s, c)
           /\ \A c : KickBehind(s, c) => Has(t, {"kick"})
           /\ \A c : KickBehind(s, c) /\ Head(s).t # "authOk" => KickBehind(t, c)
           /\ \A c : AskedQuietly(s, c) => AskedQuietly(t, c)
           /\ \A c : AskedQuietly(s, c) /\ Head(s).t = "auth" /\ Head(s).c = c => Lacks(t, Departing)
           /\ Reported(s) => Reported(t) \/ (Head(s).t = "online" /\ Lacks(t, Contrary))
<1>1. Len(s) \in Nat /\ Len(s) >= 1 /\ Len(t) = Len(s) - 1 /\ Head(s) = s[1] /\ \A i \in 1 .. Len(t) : t[i] = s[i + 1]
    OBVIOUS
<1>2. \A i \in 1 .. Len(t) : i + 1 \in 1 .. Len(s) /\ t[i] = s[i + 1]
    BY <1>1
<1>3. \A i \in 1 .. Len(s) : i = 1 \/ (i - 1 \in 1 .. Len(t) /\ t[i - 1] = s[i])
    BY <1>1
<1>4. 1 \in 1 .. Len(s)
    BY <1>1
<1>5. \A kinds : Lacks(s, kinds) => Lacks(t, kinds) /\ Head(s).t \notin kinds
    BY <1>1, <1>2, <1>4 DEF Lacks
<1>6. \A kinds : Has(s, kinds) /\ Head(s).t \notin kinds => Has(t, kinds)
    BY <1>1, <1>3 DEF Has
<1>7. \A c : Answered(t, c) => Answered(s, c)
    BY <1>2 DEF Answered, Answers
<1>8. ASSUME NEW c, KickBehind(s, c) PROVE Has(t, {"kick"}) /\ (Head(s).t # "authOk" => KickBehind(t, c))
  <2>1. PICK i \in 1 .. Len(s), j \in 1 .. Len(s) : i < j /\ Answers(s, i, c) /\ s[j].t = "kick"
      BY <1>8 DEF KickBehind
  <2>2. j - 1 \in 1 .. Len(t) /\ t[j - 1].t = "kick"
      BY <1>1, <2>1
  <2>3. ASSUME Head(s).t # "authOk" PROVE i - 1 \in 1 .. Len(t) /\ i - 1 < j - 1 /\ Answers(t, i - 1, c)
    <3>1. i # 1
        BY <1>1, <2>1, <2>3 DEF Answers
    <3>2. i - 1 \in 1 .. Len(t) /\ t[i - 1] = s[i]
        BY <1>3, <3>1
    <3> QED BY <2>1, <3>2 DEF Answers
  <2> QED BY <2>2, <2>3 DEF Has, KickBehind
<1>9. ASSUME NEW c, AskedQuietly(s, c) PROVE AskedQuietly(t, c)
  <2>1. SUFFICES ASSUME NEW i \in 1 .. Len(t), Asks(t, i, c), NEW j \in i .. Len(t) PROVE t[j].t \notin Departing
      BY DEF AskedQuietly
  <2>2. i + 1 \in 1 .. Len(s) /\ j + 1 \in (i + 1) .. Len(s) /\ t[i] = s[i + 1] /\ t[j] = s[j + 1]
      BY <1>1
  <2> QED BY <1>9, <2>1, <2>2 DEF AskedQuietly, Asks
<1>10. ASSUME NEW c, AskedQuietly(s, c), Head(s).t = "auth", Head(s).c = c PROVE Lacks(t, Departing)
  <2>1. Asks(s, 1, c)
      BY <1>1, <1>10 DEF Asks
  <2>2. \A j \in 1 .. Len(s) : s[j].t \notin Departing
      BY <1>4, <1>10, <2>1 DEF AskedQuietly
  <2> QED BY <1>2, <2>2 DEF Lacks
<1>11. ASSUME Reported(s) PROVE Reported(t) \/ (Head(s).t = "online" /\ Lacks(t, Contrary))
  <2>1. PICK i \in 1 .. Len(s) : s[i].t = "online" /\ \A j \in i .. Len(s) : s[j].t \notin Contrary
      BY <1>11 DEF Reported
  <2>2. CASE i = 1
      BY <1>1, <1>2, <2>1, <2>2 DEF Lacks
  <2>3. CASE i # 1
    <3>1. i - 1 \in 1 .. Len(t) /\ t[i - 1] = s[i] /\ \A j \in (i - 1) .. Len(t) : j + 1 \in i .. Len(s) /\ t[j] = s[j + 1]
        BY <1>1, <2>3
    <3> QED BY <2>1, <3>1 DEF Reported
  <2> QED BY <2>2, <2>3
<1> QED BY <1>5, <1>6, <1>7, <1>8, <1>9, <1>10, <1>11

----------------------------------------------------------------------------
(* The frame of most steps: the account stays where it is on the map server. *)

MapStays(m) ==
    /\ player'[m] = player[m] /\ authdb'[m] = authdb[m]
    /\ mapEof[m] \subseteq mapEof'[m] /\ \A c \in Clients : AtOrLeaving(m, c) => AtOrLeaving(m, c)'

LEMMA OwnersStay ==
    ASSUME Inv, NEW m \in Maps, MapStays(m), OwnersPresent(m)
    PROVE  OwnersPresent(m)'
<1>1. authdb[m].state \in ST_LOGIN => authdb[m].client \in Clients
    BY NodeKinds, LinksOf DEF SideOK, ST_LOGIN
<1>2. Playing(m) => player[m].client \in Clients
    BY PlayerKinds
<1> QED BY <1>1, <1>2 DEF OwnersPresent, MapStays, Linked, Playing

(* Nothing new comes from the map server, and no answer goes there. *)
NothingNew(m) ==
    /\ fromMap'[m] = fromMap[m] \/ (fromMap[m] # <<>> /\ fromMap'[m] = Tail(fromMap[m]))
    /\ toMap'[m] = toMap[m] \/ \E x \in ToMapMsg : x.t # "authOk" /\ toMap'[m] = toMap[m] \o <<x>>

LEMMA UnsettlesStays ==
    ASSUME Inv, NEW m \in Maps, MapStays(m), NothingNew(m), NothingUnsettles(m)
    PROVE  NothingUnsettles(m)'
<1>1. fromMap[m] \in Seq(FromMapMsg) /\ toMap[m] \in Seq(ToMapMsg)
    BY LinksOf
<1>2. /\ \A kinds : Lacks(fromMap[m], kinds) => Lacks(fromMap'[m], kinds)
      /\ \A c : AskedQuietly(fromMap[m], c) => AskedQuietly(fromMap'[m], c)
    BY <1>1, OneLess DEF NothingNew
<1>3. \A c : Answered(toMap'[m], c) => Answered(toMap[m], c)
    BY <1>1, OneMore DEF NothingNew
<1> QED BY <1>2, <1>3 DEF NothingUnsettles, MapStays, Playing, Coming

LEMMA DoomStays ==
    ASSUME Inv, NEW m \in Maps, MapStays(m), NothingNew(m), Doomed(m)
    PROVE  Doomed(m)'
<1>1. toMap[m] \in Seq(ToMapMsg)
    BY LinksOf
<1>2. /\ \A kinds : Has(toMap[m], kinds) => Has(toMap'[m], kinds)
      /\ \A c : KickBehind(toMap[m], c) => KickBehind(toMap'[m], c)
      /\ \A c : Answered(toMap'[m], c) => Answered(toMap[m], c)
    BY <1>1, OneMore DEF NothingNew
<1> QED BY <1>2 DEF Doomed, MapStays, Playing, Linked, Coming

(* A kick on the way dooms whoever is in the game. *)
LEMMA KickDooms ==
    ASSUME Inv, NEW m \in Maps, MapStays(m), NEW x \in ToMapMsg, x.t = "kick", toMap'[m] = toMap[m] \o <<x>>
    PROVE  Doomed(m)'
<1> DEFINE s == toMap[m]
           u == toMap'[m]
<1>1. s \in Seq(ToMapMsg) /\ u = s \o <<x>>
    BY LinksOf
<1> HIDE DEF s, u
<1>2. /\ \A kinds : Has(s, kinds) \/ x.t \in kinds => Has(u, kinds)
      /\ \A c : KickBehind(s, c) \/ (Answered(s, c) /\ x.t = "kick") => KickBehind(u, c)
      /\ \A c : Answered(u, c) => Answered(s, c) \/ (x.t = "authOk" /\ x.c = c)
    BY <1>1, OneMore
<1>3. /\ \A kinds : "kick" \in kinds => Has(u, kinds)
      /\ \A c : Answered(u, c) => Answered(s, c) /\ KickBehind(u, c)
    BY <1>2
<1> QED BY <1>3 DEF Doomed, MapStays, Playing, Linked, Coming, s, u

----------------------------------------------------------------------------
(* The login server. *)

LEMMA LoginWatched ==
    ASSUME Inv, LoginNext, NEW m \in Maps, Prompt, Watched(m)
    PROVE  Watched(m)'
<1>1. UNCHANGED <<charVars, mapVars, fromMap, toMap, wireVars>>
    BY DEF LoginNext, LoginOnly, login_auth_ok, RefuseLogin, AcceptLogin, parse_fromchar, OnAuthRequest, OnAccountList,
           add_online_user, remove_online_user, login_chrif_on_disconnect, waiting_disconnect_timer,
           login_online_data_cleanup, queueVars
<1>2. \A c \in Clients : client[c] = AtMap(m) => client'[c] = client[c]
  <2>1. CASE client' = client
      BY <2>1
  <2>2. ASSUME NEW c \in Clients, login_auth_ok(c)
        PROVE  client[c] = Home /\ \A d \in Clients \ {c} : client'[d] = client[d]
      BY <2>2, MapTables DEF login_auth_ok, RefuseLogin, AcceptLogin
  <2>3. CASE \E c \in Clients : login_auth_ok(c)
      BY <2>2, <2>3 DEF Home, AtMap, Gone
  <2> QED BY <2>1, <2>3 DEF LoginNext, parse_fromchar, login_chrif_on_disconnect, waiting_disconnect_timer,
           login_online_data_cleanup
<1>3. NoFailures(m)'
  <2>1. loginHasChar'
      BY DEF LoginNext, login_auth_ok, parse_fromchar, login_chrif_on_disconnect, waiting_disconnect_timer,
             login_online_data_cleanup, Watched, NoFailures
  <2> QED BY <1>1, <2>1 DEF Watched, NoFailures, charVars, mapVars, wireVars
<1>4. MapStays(m) /\ NothingNew(m)
    BY <1>1, <1>2 DEF MapStays, NothingNew, AtOrLeaving, mapVars
<1>5. NothingUnsettles(m)' /\ OwnersPresent(m)' /\ (Doomed(m) => Doomed(m)')
    BY <1>4, UnsettlesStays, OwnersStay, DoomStays DEF Watched
<1>6. ASSUME KnownTo(m) PROVE KnownTo(m)'
  <2>1. LocatedOn(m)' /\ loginHasChar /\ loginWire /\ fromLogin \in Seq(FromLoginMsg) /\ toLogin \in Seq(ToLoginMsg)
      BY <1>1, <1>6, MapTables DEF KnownTo, LocatedOn, charVars, Watched, NoFailures, LinkTypes
  <2>2. ASSUME NEW x \in FromLoginMsg, ToChar(<<x>>) PROVE \A kinds : Has(fromLogin, kinds) \/ x.t \in kinds => Has(fromLogin', kinds)
    <3>1. fromLogin' = fromLogin \o <<x>>
        BY <2>1, <2>2 DEF ToChar
    <3> QED BY <2>1, <3>1, OneMore
  <2>3. CASE \E c \in Clients : login_auth_ok(c)
    <3>1. PICK c \in Clients : login_auth_ok(c)
        BY <2>3
    <3>2. CASE RefuseLogin(c)
      <4>1. [t |-> "kick"] \in FromLoginMsg
          BY DEF FromLoginMsg
      <4>2. Has(fromLogin', {"kick"})
          BY <2>2, <3>2, <4>1 DEF RefuseLogin
      <4> QED BY <2>1, <4>2 DEF KnownTo
    <3>3. CASE AcceptLogin(c)
      <4>1. fromLogin' = fromLogin /\ toLogin' = toLogin /\ ~Heard
          BY <3>1, <3>3 DEF AcceptLogin, login_auth_ok, Heard
      <4> QED BY <1>6, <2>1, <4>1 DEF KnownTo
    <3> QED BY <2>1, <3>1, <3>2, <3>3 DEF login_auth_ok
  <2>4. CASE parse_fromchar
    <3>1. toLogin # <<>> /\ toLogin' = Tail(toLogin)
        BY <2>4 DEF parse_fromchar
    <3>2. /\ Lacks(toLogin, Contrary) => Lacks(toLogin', Contrary) /\ Head(toLogin).t \notin Contrary
          /\ Reported(toLogin) => Reported(toLogin') \/ (Head(toLogin).t = "online" /\ Lacks(toLogin', Contrary))
        BY <2>1, <3>1, OneLess
    <3>3. Has(fromLogin, {"kick"}) => Has(fromLogin', {"kick"})
      <4>1. CASE Head(toLogin).t = "auth" /\ OnAuthRequest(Head(toLogin).c)
        <5>1. Head(toLogin).c \in Clients
          <6>1. Head(toLogin) \in ToLoginMsg
              BY <2>1, <3>1, FirstAndRest
          <6>2. PICK msg \in ToLoginMsg : msg = Head(toLogin)
              BY <6>1
          <6>3. msg.t = "auth" => msg.c \in Clients
              BY DEF ToLoginMsg, ListOf
          <6> QED BY <4>1, <6>2, <6>3
        <5>2. [t |-> "authAck", c |-> Head(toLogin).c, ok |-> loginNode = Head(toLogin).c] \in FromLoginMsg
            BY <5>1 DEF FromLoginMsg
        <5> QED BY <2>2, <4>1, <5>2 DEF OnAuthRequest
      <4>2. CASE UNCHANGED fromLogin
          BY <4>2
      <4> QED BY <2>4, <4>1, <4>2 DEF parse_fromchar, OnAccountList
    <3>4. Heard => Head(toLogin).t \in {"auth", "online"}
        BY <2>4, <3>2 DEF Heard, parse_fromchar, Contrary
    <3>5. /\ Head(toLogin).t = "online" => loginServer' = "char" /\ ~loginTimer'
          /\ Head(toLogin).t = "auth" => UNCHANGED <<loginServer, loginTimer>>
        BY <2>4 DEF parse_fromchar, OnAuthRequest, add_online_user
    <3> QED BY <1>6, <2>1, <3>2, <3>3, <3>4, <3>5 DEF KnownTo, Heard
  <2>5. CASE login_chrif_on_disconnect
      BY <2>1, <2>5 DEF login_chrif_on_disconnect
  <2>6. CASE Timeout /\ (waiting_disconnect_timer \/ login_online_data_cleanup)
    <3>1. toLogin = <<>> /\ fromLogin = <<>>
        BY <2>6 DEF Timeout, NothingUnderWay
    <3>2. ~Has(fromLogin, {"kick"}) /\ ~Reported(toLogin)
        BY <3>1 DEF Has, Reported
    <3>3. Heard
        BY <1>6, <3>2 DEF KnownTo
    <3> QED BY <2>6, <3>3 DEF Heard, waiting_disconnect_timer, login_online_data_cleanup
  <2> QED BY <2>3, <2>4, <2>5, <2>6 DEF LoginNext
<1> QED BY <1>3, <1>5, <1>6 DEF Watched

----------------------------------------------------------------------------
(* The char server. *)

(* It leaves the clients at the map servers alone. *)
LEMMA MapClientsStay ==
    ASSUME Inv, CharNext, NEW m \in Maps, NEW d \in Clients, client[d] = AtMap(m)
    PROVE  client'[d] = client[d]
<1>1. client[d] \notin {Ticket, AtChar} /\ client \in [Clients -> ClientPlace]
    BY MapTables DEF AtMap, Ticket, AtChar
<1>2. ASSUME NEW c \in Clients, client[c] \in {Ticket, AtChar}, NEW place, client' = [client EXCEPT ![c] = place]
      PROVE  client'[d] = client[d]
    BY <1>1, <1>2
<1>3. ASSUME NEW c \in Clients, client[c] \in {Ticket, AtChar}, char_auth_ok(c)
      PROVE  client'[d] = client[d]
    BY <1>2, <1>3 DEF char_auth_ok, AlreadyOnMap, AlreadyChoosing, StartChoosing, RefuseChar
<1>4. \A c \in Clients : charSession[c] # "none" /\ c \notin charEof => client[c] = AtChar
    BY DEF Inv, CharSide, SessionsAtChar
<1>5. ASSUME NEW c \in Clients, EnterChar(c) PROVE client'[d] = client[d]
    BY <1>2, <1>3, <1>5 DEF EnterChar, RefuseChar
<1>6. ASSUME NEW c \in Clients, SelectNowhere(c) \/ \E to \in Maps : SelectChar(c, to) PROVE client'[d] = client[d]
    BY <1>2, <1>4, <1>6 DEF SelectNowhere, SelectChar, RefuseChar
<1>7. CASE parse_fromlogin
  <2>1. Head(fromLogin).t = "authAck" => Head(fromLogin).c \in Clients
    <3>1. PICK msg \in FromLoginMsg : msg = Head(fromLogin)
        BY <1>7, FirstAndRest, MapTables DEF parse_fromlogin, LinkTypes
    <3> QED BY <3>1 DEF FromLoginMsg
  <2>2. ASSUME NEW c \in Clients, NEW ok, OnAuthAck(c, ok) PROVE client'[d] = client[d]
      BY <1>2, <1>3, <1>4, <2>2 DEF OnAuthAck, RefuseChar
  <2>3. CASE OnLoginKick
      BY <1>1, <2>3 DEF OnLoginKick, Refuse
  <2> QED BY <1>7, <2>1, <2>2, <2>3 DEF parse_fromlogin
<1>8. CASE loginif_on_disconnect
    BY <1>1, <1>8 DEF loginif_on_disconnect
<1>9. ASSUME UNCHANGED client PROVE client'[d] = client[d]
    BY <1>9
<1> QED BY <1>5, <1>6, <1>7, <1>8, <1>9 DEF CharNext, parse_char_eof, send_accounts_tologin, parse_frommap,
           mapif_on_disconnect, chardb_waiting_disconnect, char_online_data_cleanup

LEMMA CharMapStays ==
    ASSUME Inv, CharNext, NEW m \in Maps
    PROVE  MapStays(m)
BY MapClientsStay DEF CharNext, CharOnly, mapVars, MapStays, AtOrLeaving

LEMMA CharNoFailures ==
    ASSUME Inv, CharNext, NEW m \in Maps, NoFailures(m)
    PROVE  NoFailures(m)'
<1>1. UNCHANGED <<loginHasChar, mapHasChar>>
    BY DEF CharNext, CharOnly, loginVars, mapVars
<1>2. ~loginif_on_disconnect
    BY DEF loginif_on_disconnect, NoFailures
<1>3. ASSUME NEW k \in Maps, mapif_on_disconnect(k) PROVE UNCHANGED <<charHasLogin, wireVars>> /\ charHasMap'[m] = charHasMap[m]
  <2>1. k # m
      BY <1>3 DEF mapif_on_disconnect, NoFailures
  <2> QED BY <1>3, <2>1, InvTypes DEF mapif_on_disconnect, CharTypeOK
<1>4. UNCHANGED <<charHasLogin, wireVars>> /\ charHasMap'[m] = charHasMap[m]
    BY <1>2, <1>3 DEF CharNext, EnterChar, SelectChar, SelectNowhere, parse_char_eof, parse_fromlogin, send_accounts_tologin,
           parse_frommap, chardb_waiting_disconnect, char_online_data_cleanup, charVars
<1> QED BY <1>1, <1>4 DEF NoFailures, wireVars

(* What is left to show of a step that sends no answer. *)
LEMMA CharStaysWatched ==
    ASSUME Inv, CharNext, NEW m \in Maps, Watched(m), NothingNew(m), KnownTo(m) => KnownTo(m)' \/ Doomed(m)'
    PROVE  Watched(m)'
BY CharMapStays, CharNoFailures, UnsettlesStays, OwnersStay, DoomStays DEF Watched

(* What is on the way to the login server stays good news. *)
LEMMA KnownStays ==
    ASSUME Inv, CharOnly, NEW m \in Maps, KnownTo(m), LocatedOn(m)',
           fromLogin' = fromLogin \/ (fromLogin # <<>> /\ fromLogin' = Tail(fromLogin) /\ Head(fromLogin).t # "kick"),
           toLogin' = toLogin \/ \E x \in ToLoginMsg : x.t \notin Contrary /\ toLogin' = toLogin \o <<x>>
    PROVE  KnownTo(m)'
<1>1. fromLogin \in Seq(FromLoginMsg) /\ toLogin \in Seq(ToLoginMsg)
    BY MapTables DEF LinkTypes
<1>2. Has(fromLogin, {"kick"}) => Has(fromLogin', {"kick"})
    BY <1>1, OneLess
<1>3. Reported(toLogin) => Reported(toLogin')
    BY <1>1, OneMore
<1>4. Lacks(toLogin, Contrary) => Lacks(toLogin', Contrary)
    BY <1>1, OneMore
<1> QED BY <1>2, <1>3, <1>4 DEF KnownTo, Heard, CharOnly, loginVars

(* set_char_online tells the login server. *)
LEMMA OnlineIsKnown ==
    ASSUME Inv, NEW m \in Maps, NoFailures(m), set_char_online(m)
    PROVE  KnownTo(m)'
<1>1. PICK x \in ToLoginMsg : x = [t |-> "online"]
    BY DEF ToLoginMsg
<1>2. toLogin' = toLogin \o <<x>> /\ x.t = "online" /\ toLogin \in Seq(ToLoginMsg)
    BY <1>1, MapTables DEF set_char_online, ToLogin, NoFailures, LinkTypes
<1>3. Reported(toLogin')
    BY <1>2, OneMore
<1>4. LocatedOn(m)'
  <2>1. Entry \in OnlineEntry /\ Entry.known
      BY InvTypes, EntryType DEF Entry, create_online_char_data
  <2> QED BY <2>1 DEF set_char_online, LocatedOn, OnlineEntry
<1> QED BY <1>3, <1>4 DEF KnownTo

(* The kicks of the char server: to the one map server, if the account is there. *)
LEMMA KickSent ==
    ASSUME Inv, NEW m, Maps = {m}, NoFailures(m), NEW server, ToMaps(Kick(server))
    PROVE  toMap'[m] = IF server = m THEN toMap[m] \o <<[t |-> "kick"]>> ELSE toMap[m]
<1>1. toMap'[m] = toMap[m] \o Kick(server)[m] /\ toMap[m] \in Seq(ToMapMsg)
    BY LinksOf DEF ToMaps, NoFailures
<1>2. Kick(server)[m] = IF server = m THEN <<[t |-> "kick"]>> ELSE <<>>
    BY DEF Kick, MailTo, NoMail
<1>3. toMap[m] \o <<>> = toMap[m]
    BY <1>1
<1> QED BY <1>1, <1>2, <1>3

LEMMA NoMailSent ==
    ASSUME Inv, NEW m \in Maps, ToMaps(NoMail)
    PROVE  toMap'[m] = toMap[m]
<1>1. toMap[m] \o <<>> = toMap[m]
    BY LinksOf
<1> QED BY <1>1 DEF ToMaps, NoMail

(* A kick is on the way to the one map server, or nothing new is. *)
Kicks(m) == toMap'[m] = toMap[m] \o <<[t |-> "kick"]>>

LEMMA KickOrNothing ==
    ASSUME Inv, NEW m \in Maps, MapStays(m), fromMap'[m] = fromMap[m], Kicks(m) \/ toMap'[m] = toMap[m]
    PROVE  NothingNew(m) /\ (Kicks(m) => Doomed(m)')
<1>1. [t |-> "kick"] \in ToMapMsg
    BY DEF ToMapMsg
<1> QED BY <1>1, KickDooms DEF NothingNew, Kicks

LEMMA CharAuthOkKicks ==
    ASSUME Inv, NEW m, Maps = {m}, NoFailures(m), NEW c, char_auth_ok(c)
    PROVE  (Kicks(m) \/ toMap'[m] = toMap[m]) /\ (online.server = m => Kicks(m))
BY KickSent DEF char_auth_ok, AlreadyOnMap, AlreadyChoosing, StartChoosing, Kicks

(* Clients that choose a character. *)
LEMMA CharClientsWatched ==
    ASSUME Inv, CharNext, NEW m, Maps = {m}, Watched(m),
           \/ \E c \in Clients : EnterChar(c) \/ SelectNowhere(c) \/ parse_char_eof(c)
           \/ \E c \in Clients, to \in Maps : SelectChar(c, to)
    PROVE  Watched(m)'
<1>1. m \in Maps /\ NoFailures(m) /\ MapStays(m) /\ CharOnly /\ m \notin {"none", "unknown"}
    BY CharMapStays, ServerAssumption DEF Watched, CharNext
<1>2. ASSUME fromMap' = fromMap, Kicks(m) \/ toMap'[m] = toMap[m], KnownTo(m) => KnownTo(m)' \/ Kicks(m)
      PROVE  Watched(m)'
    BY <1>1, <1>2, KickOrNothing, CharStaysWatched
<1>3. ASSUME NEW c \in Clients, EnterChar(c) PROVE Watched(m)'
  <2>1. CASE char_auth_ok(c)
      BY <1>1, <1>2, <1>3, <2>1, CharAuthOkKicks DEF EnterChar, KnownTo, LocatedOn
  <2>2. CASE ToLogin(<<[t |-> "auth", c |-> c]>>) /\ UNCHANGED <<online, toMap>>
    <3>1. [t |-> "auth", c |-> c] \in ToLoginMsg /\ [t |-> "auth", c |-> c].t \notin Contrary
        BY DEF ToLoginMsg, Contrary
    <3>2. toLogin' = toLogin \o <<[t |-> "auth", c |-> c]>>
        BY <1>1, <2>2 DEF ToLogin, NoFailures
    <3>3. KnownTo(m) => KnownTo(m)'
        BY <1>1, <1>3, <2>2, <3>1, <3>2, KnownStays DEF EnterChar, KnownTo, LocatedOn
    <3> QED BY <1>2, <1>3, <2>2, <3>3 DEF EnterChar
  <2> QED BY <1>3, <2>1, <2>2 DEF EnterChar
<1>4. ASSUME NEW c \in Clients, SelectNowhere(c) PROVE Watched(m)'
  <2>1. UNCHANGED <<online, queueVars>>
      BY <1>4 DEF SelectNowhere
  <2> QED BY <1>1, <1>2, <2>1, KnownStays DEF KnownTo, LocatedOn, queueVars
<1>5. ASSUME NEW c \in Clients, parse_char_eof(c) PROVE Watched(m)'
  <2>1. UNCHANGED <<fromLogin, fromMap, toMap>>
      BY <1>5 DEF parse_char_eof
  <2>2. ASSUME KnownTo(m) PROVE KnownTo(m)'
    <3>1. ~LeavesOffline
        BY <1>1, <2>2 DEF KnownTo, LocatedOn, LeavesOffline
    <3>2. online' \in {online, [online EXCEPT !.fd = IF @ = c THEN NoOne ELSE @]} /\ toLogin' = toLogin
        BY <1>5, <3>1, Zenon DEF parse_char_eof
    <3>3. LocatedOn(m)'
        BY <2>2, <3>2, InvTypes DEF KnownTo, LocatedOn, OnlineEntry
    <3> QED BY <1>1, <2>1, <2>2, <3>2, <3>3, KnownStays
  <2> QED BY <1>2, <2>1, <2>2
<1>6. ASSUME NEW c \in Clients, NEW to \in Maps, SelectChar(c, to) PROVE Watched(m)'
  <2>1. fromMap' = fromMap /\ ToMaps(ConflictKick("unknown"))
      BY <1>6 DEF SelectChar
  <2>2. CASE online.char /\ online.server = m
    <3>1. ToMaps(Kick(m))
        BY <1>1, <2>1, <2>2 DEF ConflictKick
    <3> QED BY <1>1, <1>2, <2>1, <3>1, KickSent DEF Kicks
  <2>3. CASE ~(online.char /\ online.server = m)
    <3>1. ToMaps(NoMail)
        BY <2>1, <2>3 DEF ConflictKick
    <3> QED BY <1>1, <1>2, <2>1, <2>3, <3>1, NoMailSent DEF KnownTo, LocatedOn
  <2> QED BY <2>2, <2>3
<1> QED BY <1>3, <1>4, <1>5, <1>6

(* What the login server writes, and the timers. *)
LEMMA CharLinksWatched ==
    ASSUME Inv, CharNext, NEW m, Maps = {m}, Watched(m),
           parse_fromlogin \/ chardb_waiting_disconnect \/ char_online_data_cleanup
    PROVE  Watched(m)'
<1>1. m \in Maps /\ NoFailures(m) /\ MapStays(m) /\ CharOnly
    BY CharMapStays DEF Watched, CharNext
<1>2. ASSUME fromMap' = fromMap, Kicks(m) \/ toMap'[m] = toMap[m], KnownTo(m) => KnownTo(m)' \/ Kicks(m)
      PROVE  Watched(m)'
    BY <1>1, <1>2, KickOrNothing, CharStaysWatched
<1>3. CASE parse_fromlogin
  <2>1. fromMap' = fromMap /\ fromLogin # <<>> /\ fromLogin' = Tail(fromLogin)
      BY <1>3 DEF parse_fromlogin
  <2>2. ASSUME NEW c, char_auth_ok(c) PROVE Watched(m)'
      BY <1>1, <1>2, <2>1, <2>2, CharAuthOkKicks DEF KnownTo, LocatedOn
  <2>3. CASE Head(fromLogin).t = "authAck" /\ UNCHANGED <<online, toLogin, toMap>>
      BY <1>1, <1>2, <2>1, <2>3, KnownStays DEF KnownTo, LocatedOn
  <2>4. CASE OnLoginKick
    <3>1. CASE online.server \in Maps /\ ToMaps(Kick(online.server))
        BY <1>1, <1>2, <2>1, <3>1, KickSent DEF Kicks
    <3>2. CASE ~(online.known /\ online.server \in Maps) /\ UNCHANGED toMap
        BY <1>1, <1>2, <2>1, <3>2 DEF KnownTo, LocatedOn
    <3> QED BY <2>4, <3>1, <3>2 DEF OnLoginKick
  <2> QED BY <1>3, <2>2, <2>3, <2>4, Zenon DEF parse_fromlogin, OnAuthAck
<1>4. CASE chardb_waiting_disconnect
    BY <1>1, <1>2, <1>4 DEF chardb_waiting_disconnect, KnownTo, LocatedOn
<1>5. CASE char_online_data_cleanup
    BY <1>1, <1>2, <1>5 DEF char_online_data_cleanup, KnownTo, LocatedOn
<1> QED BY <1>3, <1>4, <1>5

(* Nobody is in the game, nor certain to enter it. *)
LEMMA VacantIsDoomed ==
    ASSUME Inv, NEW m \in Maps, MapStays(m), NothingNew(m), ~Linked(m), authdb[m].state # "loaded", ~Coming(m)
    PROVE  Doomed(m)'
<1>1. \A c : Answered(toMap'[m], c) => Answered(toMap[m], c)
    BY LinksOf, OneMore DEF NothingNew
<1> QED BY <1>1 DEF Doomed, MapStays, Playing, Linked, Coming

LEMMA PlainReplies ==
    ASSUME NEW k \in {"regs", "selectOk", "kick", "saveAck"}
    PROVE  \E x \in ToMapMsg : x = [t |-> k] /\ x.t = k
<1>1. PICK x : x = [t |-> k]
    OBVIOUS
<1>2. x \in ToMapMsg /\ x.t = k
    BY <1>1 DEF ToMapMsg
<1> QED BY <1>1, <1>2

(* The answer to a login: from now on the char server knows, and has told the login server. *)
LEMMA AnswerWatched ==
    ASSUME Inv, CharNext, NEW m, Maps = {m}, Newest(m), Watched(m), ReadsHead(m), NEW c \in Clients,
           Head(fromMap[m]).t = "auth", Head(fromMap[m]).c = c, cached' = stored,
           set_char_online(m), ToMaps(Both(MailTo(m, <<[t |-> "authOk", c |-> c, ver |-> cached']>>), ConflictKick(m)))
    PROVE  Watched(m)'
<1>1. m \in Maps /\ NoFailures(m) /\ MapStays(m) /\ NoFailures(m)' /\ OwnersPresent(m)' /\ KnownTo(m)'
    BY CharMapStays, CharNoFailures, OwnersStay, OnlineIsKnown DEF Watched
<1>2. fromMap[m] \in Seq(FromMapMsg) /\ toMap[m] \in Seq(ToMapMsg) /\ fromMap[m] # <<>> /\ fromMap'[m] = Tail(fromMap[m])
      /\ stored \in Nat
    BY LinksOf DEF ReadsHead
<1>3. PICK x \in ToMapMsg : x = [t |-> "authOk", c |-> c, ver |-> stored]
    BY <1>2 DEF ToMapMsg
<1>4. toMap'[m] = toMap[m] \o <<x>>
  <2>1. ConflictKick(m)[m] = <<>>
      BY DEF ConflictKick, Kick, MailTo, NoMail
  <2>2. MailTo(m, <<x>>)[m] = <<x>>
      BY DEF MailTo, NoMail
  <2>3. toMap'[m] = toMap[m] \o (<<x>> \o <<>>)
      BY <1>1, <1>3, <2>1, <2>2 DEF ToMaps, Both, NoFailures
  <2>4. <<x>> \o <<>> = <<x>>
      OBVIOUS
  <2> QED BY <2>3, <2>4
<1>5. \A d : Answered(toMap'[m], d) => Answered(toMap[m], d) \/ d = c
  <2>1. x.c = c
      BY <1>3
  <2>2. \A d : Answered(toMap'[m], d) => Answered(toMap[m], d) \/ (x.t = "authOk" /\ x.c = d)
    <3> DEFINE s == toMap[m]
               u == toMap'[m]
    <3>1. s \in Seq(ToMapMsg) /\ u = s \o <<x>>
        BY <1>2, <1>4
    <3> HIDE DEF s, u
    <3>2. \A d : Answered(u, d) => Answered(s, d) \/ (x.t = "authOk" /\ x.c = d)
        BY <3>1, OneMore
    <3> QED BY <3>2 DEF s, u
  <2> QED BY <2>1, <2>2
<1>6. /\ \A kinds : Lacks(fromMap[m], kinds) => Lacks(fromMap'[m], kinds)
      /\ \A d : AskedQuietly(fromMap[m], d) => AskedQuietly(fromMap'[m], d)
      /\ \A d : AskedQuietly(fromMap[m], d) /\ Head(fromMap[m]).t = "auth" /\ Head(fromMap[m]).c = d => Lacks(fromMap'[m], Departing)
    BY <1>2, OneLess
<1>7. NothingUnsettles(m)'
    BY <1>1, <1>5, <1>6 DEF Watched, NothingUnsettles, MapStays, Playing, Coming
<1> QED BY <1>1, <1>7 DEF Watched

(* The char server reads what the map server wrote. *)
LEMMA ParseFromMapWatched ==
    ASSUME Inv, CharNext, NEW m, Maps = {m}, Newest(m), Watched(m), parse_frommap(m)
    PROVE  Watched(m)'
<1>1. m \in Maps /\ NoFailures(m) /\ MapStays(m) /\ CharOnly /\ NothingUnsettles(m)
    BY CharMapStays DEF Watched, CharNext
<1>2. PICK msg \in FromMapMsg : msg = Head(fromMap[m])
    BY <1>1, FirstAndRest, LinksOf DEF parse_frommap
<1>3. ReadsHead(m) /\ fromMap[m] \in Seq(FromMapMsg) /\ toMap[m] \in Seq(ToMapMsg)
    BY <1>1, LinksOf, MapTables DEF parse_frommap, ReadsHead, LinkTypes
<1>4. /\ msg.t = "save" => msg.ver \in Nat /\ msg.final \in BOOLEAN
      /\ msg.t \in {"select", "auth", "change"} => msg.c \in Clients
    BY DEF FromMapMsg
<1>5. \A kinds : Lacks(fromMap[m], kinds) => msg.t \notin kinds
    BY <1>2, <1>3, OneLess DEF ReadsHead
<1>6. /\ msg.t \notin {"change", "users"}
      /\ Playing(m) => msg.t \notin Unsettling
      /\ authdb[m].state = "loaded" \/ Coming(m) => msg.t \notin Departing
    BY <1>1, <1>5 DEF NothingUnsettles
<1>7. ASSUME NEW x \in ToMapMsg, x.t # "authOk", ToMaps(MailTo(m, <<x>>)) PROVE NothingNew(m) /\ toMap'[m] = toMap[m] \o <<x>>
  <2>1. toMap'[m] = toMap[m] \o <<x>>
      BY <1>1, <1>7 DEF ToMaps, MailTo, NoMail, NoFailures
  <2> QED BY <1>3, <1>7, <2>1 DEF NothingNew, ReadsHead
<1>8. ASSUME toMap'[m] = toMap[m] PROVE NothingNew(m)
    BY <1>3, <1>8 DEF NothingNew, ReadsHead
<1>9. ASSUME UNCHANGED <<online, toLogin>>, NothingNew(m) PROVE Watched(m)'
  <2>1. KnownTo(m) => KnownTo(m)'
      BY <1>1, <1>3, <1>9, KnownStays DEF KnownTo, LocatedOn, ReadsHead
  <2> QED BY <1>1, <1>9, <2>1, CharStaysWatched
<1>10. CASE msg.t = "save" /\ OnSave(m, msg.ver, msg.final)
  <2>1. CASE msg.final /\ ToMaps(MailTo(m, <<[t |-> "saveAck"]>>))
    <3>1. PICK x \in ToMapMsg : x = [t |-> "saveAck"] /\ x.t = "saveAck"
        BY PlainReplies
    <3>2. NothingNew(m)
        BY <1>7, <2>1, <3>1
    <3>3. ~Playing(m)
      <4>1. 1 \in 1 .. Len(fromMap[m]) /\ fromMap[m][1] = msg
          BY <1>1, <1>2, <1>3, HeadOf
      <4> QED BY <1>10, <2>1, <4>1 DEF Newest, PlayerIsNewest, NoFinal
    <3>4. Doomed(m)'
        BY <1>1, <1>6, <1>10, <3>2, <3>3, VacantIsDoomed DEF Linked, Departing
    <3> QED BY <1>1, <3>2, <3>4, CharStaysWatched
  <2>2. CASE UNCHANGED <<online, toLogin, toMap>>
      BY <1>8, <1>9, <2>2
  <2>3. CASE ~(online.known /\ online.char) /\ ToMaps(ConflictKick(m))
    <3>1. ConflictKick(m) = NoMail
        BY <2>3 DEF ConflictKick
    <3>2. NothingNew(m)
        BY <1>1, <1>8, <2>3, <3>1, NoMailSent
    <3> QED BY <1>1, <2>3, <3>2, CharStaysWatched DEF KnownTo, LocatedOn
  <2> QED BY <1>10, <2>1, <2>2, <2>3, Zenon DEF OnSave
<1>11. CASE msg.t = "select" /\ OnCharSelect(m, msg.c)
  <2>1. PICK x \in ToMapMsg : x = [t |-> "selectOk"] /\ x.t = "selectOk"
      BY PlainReplies
  <2>2. NothingNew(m) /\ toMap'[m] = toMap[m] \o <<x>>
      BY <1>7, <1>11, <2>1 DEF OnCharSelect
  <2>3. authdb[m].state # "loaded" /\ ~Coming(m)
      BY <1>6, <1>11 DEF Departing
  <2>4. /\ \A c : Answered(toMap'[m], c) => Answered(toMap[m], c)
        /\ \A kinds : x.t \in kinds => Has(toMap'[m], kinds)
      BY <1>3, <2>1, <2>2, OneMore
  <2>5. Doomed(m)'
      BY <1>1, <2>1, <2>3, <2>4 DEF Doomed, MapStays, Playing, Linked, Coming
  <2> QED BY <1>1, <2>2, <2>5, CharStaysWatched
<1>12. CASE msg.t = "auth" /\ OnMapAuth(m, msg.c)
  <2>1. CASE /\ set_char_online(m)
             /\ ToMaps(Both(MailTo(m, <<[t |-> "authOk", c |-> msg.c, ver |-> cached']>>), ConflictKick(m)))
    <3>1. cached' = stored
        BY <1>12 DEF OnMapAuth, Newest, CopiesAgree
    <3> QED BY <1>2, <1>3, <1>4, <1>12, <2>1, <3>1, AnswerWatched
  <2>2. CASE ToMaps(MailTo(m, <<[t |-> "authFail", c |-> msg.c]>>)) /\ UNCHANGED <<online, toLogin>>
    <3>1. PICK x : x = [t |-> "authFail", c |-> msg.c]
        OBVIOUS
    <3>2. x \in ToMapMsg /\ x.t # "authOk"
        BY <1>4, <1>12, <3>1 DEF ToMapMsg
    <3> QED BY <1>7, <1>9, <2>2, <3>1, <3>2
  <2> QED BY <1>12, <2>1, <2>2, Zenon DEF OnMapAuth
<1>13. CASE msg.t = "offline" /\ set_char_offline(online, FALSE) /\ UNCHANGED <<charNode, stored, toMap>>
  <2>1. NothingNew(m)
      BY <1>8, <1>13
  <2>2. Doomed(m)'
      BY <1>1, <1>6, <1>13, <2>1, VacantIsDoomed DEF Linked, Unsettling, Departing
  <2> QED BY <1>1, <2>1, <2>2, CharStaysWatched
<1>14. CASE ToMaps(MailTo(m, <<[t |-> "regs"]>>)) /\ UNCHANGED <<charNode, online, stored, cached, toLogin>>
  <2>1. PICK x \in ToMapMsg : x = [t |-> "regs"] /\ x.t = "regs"
      BY PlainReplies
  <2> QED BY <1>7, <1>9, <1>14, <2>1
<1> QED BY <1>2, <1>6, <1>10, <1>11, <1>12, <1>13, <1>14, Zenon DEF parse_frommap

LEMMA CharWatched ==
    ASSUME Inv, CharNext, NEW m, Maps = {m}, ~Hourly, Newest(m), Watched(m)
    PROVE  Watched(m)'
<1>1. ~loginif_on_disconnect /\ ~mapif_on_disconnect(m)
    BY DEF loginif_on_disconnect, mapif_on_disconnect, Watched, NoFailures
<1> QED BY <1>1, CharClientsWatched, CharLinksWatched, ParseFromMapWatched DEF CharNext

----------------------------------------------------------------------------
(* The map server. *)

OthersStay == UNCHANGED <<loginVars, charVars, toLogin, fromLogin, wireVars, mapHasChar>>

LEMMA MapStepWatched ==
    ASSUME NEW m \in Maps, Watched(m), OthersStay, NothingUnsettles(m)', OwnersPresent(m)', Doomed(m) => Doomed(m)'
    PROVE  Watched(m)'
<1>1. NoFailures(m)' /\ (KnownTo(m) => KnownTo(m)')
    BY DEF Watched, OthersStay, loginVars, charVars, wireVars, NoFailures, KnownTo, LocatedOn, Heard
<1> QED BY <1>1 DEF Watched

(* The clients' places and sockets change, and who is in the game stays. *)
LEMMA MapStaysWatched ==
    ASSUME Inv, NEW m \in Maps, Watched(m), OthersStay, MapStays(m), fromMap'[m] = fromMap[m], toMap'[m] = toMap[m]
    PROVE  Watched(m)'
<1>1. NothingNew(m)
    BY DEF NothingNew
<1> QED BY <1>1, MapStepWatched, UnsettlesStays, OwnersStay, DoomStays DEF Watched

(* Nobody is in the game any more, nor on the way in. *)
LEMMA AbsentWatched ==
    ASSUME NEW m \in Maps, Watched(m), OthersStay, ~Playing(m)', authdb'[m].state \notin ST_LOGIN,
           Lacks(fromMap'[m], {"change", "users"})
    PROVE  Watched(m)'
<1>1. NothingUnsettles(m)' /\ OwnersPresent(m)' /\ Doomed(m)'
    BY DEF NothingUnsettles, OwnersPresent, Doomed, Linked, Playing, Coming, ST_LOGIN
<1> QED BY <1>1, MapStepWatched

(* What a map server writes. *)
LEMMA Writes ==
    ASSUME Inv, NEW m \in Maps, NoFailures(m), NEW x \in FromMapMsg, ToCharFrom(m, <<x>>)
    PROVE  /\ fromMap'[m] = fromMap[m] \o <<x>>
           /\ \A kinds : Lacks(fromMap[m], kinds) /\ x.t \notin kinds => Lacks(fromMap'[m], kinds)
<1>1. fromMap'[m] = fromMap[m] \o <<x>> /\ fromMap[m] \in Seq(FromMapMsg)
    BY MapTables, LinksOf DEF ToCharFrom, LinkTypes, NoFailures
<1>2. \A kinds : Lacks(fromMap[m], kinds) /\ x.t \notin kinds => Lacks(fromMap'[m], kinds)
    BY <1>1, OneMore
<1> QED BY <1>1, <1>2

LEMMA QuitWatched ==
    ASSUME Inv, NEW m \in Maps, Watched(m), OthersStay, Playing(m), map_quit_active(m)
    PROVE  Watched(m)'
<1> DEFINE p == player[m]
           node == [state |-> "logout", client |-> p.client, ver |-> p.ver, to |-> NoOne]
<1>1. authdb[m] = NoNodeHere /\ p.ver \in Nat /\ NoFailures(m) /\ Lacks(fromMap[m], {"change", "users"})
    BY PlayerKinds DEF Inv, MapSide, QuitFindsNoNode, Watched, NothingUnsettles
<1>2. player'[m] = NoPlayer /\ authdb'[m] = node
    BY <1>1, MapTables DEF map_quit_active, SetPlayer, chrif_sd_to_auth, SetNode
<1>3. ~Playing(m)' /\ authdb'[m].state \notin ST_LOGIN
    BY <1>2 DEF Playing, ST_LOGIN
<1>4. PICK x : x = SaveMsg(p.ver, TRUE)
    OBVIOUS
<1>5. x \in FromMapMsg /\ x.t = "save"
    BY <1>1, <1>4, MessageTypes DEF SaveMsg
<1>6. Lacks(fromMap'[m], {"change", "users"})
    BY <1>1, <1>4, <1>5, Writes DEF map_quit_active
<1> QED BY <1>3, <1>6, AbsentWatched

(* A login under way, or a node that waits, is deleted. *)
LEMMA DeleteWatched ==
    ASSUME Inv, NEW m \in Maps, Watched(m), OthersStay, authdb[m] # NoNodeHere, authdb'[m] = NoNodeHere,
           player'[m] = player[m], fromMap'[m] = fromMap[m] \/ ToCharFrom(m, <<[t |-> "offline"]>>)
    PROVE  Watched(m)'
<1>1. NoFailures(m) /\ Lacks(fromMap[m], {"change", "users"})
    BY DEF Watched, NothingUnsettles
<1>2. Lacks(fromMap'[m], {"change", "users"})
  <2>1. PICK x : x = [t |-> "offline"]
      OBVIOUS
  <2>2. x \in FromMapMsg /\ x.t = "offline"
      BY <2>1, MessageTypes
  <2> QED BY <1>1, <2>1, <2>2, Writes
<1>3. ~Playing(m)' /\ authdb'[m].state \notin ST_LOGIN
    BY NodePlaysNot DEF Playing, NoNodeHere, ST_LOGIN
<1> QED BY <1>2, <1>3, AbsentWatched

(* A player does something that is no departure. *)
LEMMA PlayerWatched ==
    ASSUME Inv, NEW m \in Maps, Watched(m), OthersStay, Playing(m), Playing(m)', UNCHANGED <<authdb, mapEof, client>>,
           player'[m].client = player[m].client, Linked(m)' => Linked(m), toMap'[m] = toMap[m],
           Lacks(fromMap'[m], Unsettling)
    PROVE  Watched(m)'
<1>1. authdb[m].state = "none"
    BY DEF Inv, MapSide, QuitFindsNoNode, NoNodeHere
<1>2. Lacks(fromMap'[m], {"change", "users"})
    BY DEF Lacks, Unsettling
<1>3. NothingUnsettles(m)'
    BY <1>1, <1>2 DEF NothingUnsettles, Coming
<1>4. OwnersPresent(m)' /\ (Doomed(m) => Doomed(m)')
    BY <1>1 DEF Watched, OwnersPresent, AtOrLeaving, Doomed, Coming, ST_LOGIN
<1> QED BY <1>3, <1>4, MapStepWatched

LEMMA SameClients ==
    ASSUME NEW m \in Maps, UNCHANGED <<client, mapEof>>, player'[m] = player[m], authdb'[m] = authdb[m]
    PROVE  MapStays(m)
BY DEF MapStays, AtOrLeaving

LEMMA WantToConnectionWatched ==
    ASSUME Inv, NEW m \in Maps, Newest(m), Watched(m), NEW c \in Clients, WantToConnection(m, c), MapOnly
    PROVE  Watched(m)'
<1>1. OthersStay /\ client[c] = ReadyFor(m) /\ UNCHANGED <<player, toMap>>
    BY DEF WantToConnection, MapOnly, OthersStay
<1>2. CASE client' = [client EXCEPT ![c] = Gone] /\ MarkEof(m, c) /\ UNCHANGED <<authdb, fromMap>>
  <2>1. mapEof'[m] = mapEof[m] \cup {c} /\ \A d \in Clients \ {c} : client'[d] = client[d]
      BY <1>2, MapTables DEF MarkEof
  <2>2. MapStays(m)
      BY <1>1, <1>2, <2>1 DEF MapStays, AtOrLeaving
  <2> QED BY <1>1, <1>2, <2>2, MapStaysWatched
<1>3. CASE /\ ~StillRecognized(m) /\ authdb[m] = NoNodeHere
           /\ client' = [client EXCEPT ![c] = AtMap(m)]
           /\ IF mapHasChar[m]
              THEN chrif_sd_to_auth(m, [NoNodeHere EXCEPT !.state = "login", !.client = c])
              ELSE UNCHANGED authdb
           /\ ToCharFrom(m, <<[t |-> "auth", c |-> c]>>)
  <2>1. NoFailures(m) /\ Lacks(fromMap[m], {"change", "users"}) /\ ~Playing(m) /\ ~Playing(m)'
      BY <1>1, <1>3 DEF Watched, NothingUnsettles, StillRecognized, Playing
  <2>2. authdb'[m].state = "login" /\ authdb'[m].client = c
    <3>1. PICK n : n = [NoNodeHere EXCEPT !.state = "login", !.client = c]
        OBVIOUS
    <3>2. n.state = "login" /\ n.client = c
        BY <3>1 DEF NoNodeHere
    <3>3. authdb'[m] = n
        BY <1>3, <2>1, <3>1, MapTables DEF chrif_sd_to_auth, SetNode, NoFailures
    <3> QED BY <3>2, <3>3
  <2>3. ~Asked(fromMap[m], c) /\ ~Answered(toMap[m], c)
    <3>1. ReadyFor(m) \notin {AtMap(m), Gone}
        BY DEF ReadyFor, AtMap, Gone
    <3> QED BY <1>1, <3>1 DEF Newest, OneQuestion
  <2>4. PICK x : x = [t |-> "auth", c |-> c]
      OBVIOUS
  <2>5. x \in FromMapMsg /\ x.t = "auth" /\ x.t \notin Departing
      BY <2>4, MessageTypes DEF Departing
  <2>6. fromMap'[m] = fromMap[m] \o <<x>> /\ Lacks(fromMap'[m], {"change", "users"})
      BY <1>3, <2>1, <2>4, <2>5, Writes
  <2>7. AskedQuietly(fromMap'[m], c)
    <3>1. fromMap[m] \in Seq(FromMapMsg)
        BY LinksOf
    <3> QED BY <2>3, <2>5, <2>6, <3>1, OneMore
  <2>8. ~Coming(m)' /\ ~Linked(m)'
      BY <1>1, <2>1, <2>2, <2>3 DEF Coming, Linked
  <2>9. NothingUnsettles(m)'
      BY <2>1, <2>2, <2>6, <2>7, <2>8 DEF NothingUnsettles
  <2>10. OwnersPresent(m)' /\ Doomed(m)'
    <3>1. client'[c] = AtMap(m)
        BY <1>3, MapTables
    <3> QED BY <2>2, <2>8, <3>1 DEF OwnersPresent, AtOrLeaving, Doomed
  <2> QED BY <1>1, <2>9, <2>10, MapStepWatched
<1> QED BY <1>2, <1>3, Zenon DEF WantToConnection

LEMMA ClifEofWatched ==
    ASSUME Inv, NEW m \in Maps, Watched(m), NEW c \in Clients, clif_parse_eof(m, c), MapOnly
    PROVE  Watched(m)'
<1>1. OthersStay /\ UNCHANGED <<client, toMap>> /\ mapEof'[m] = mapEof[m] \ {c} /\ SideOK(m)
    BY SideOf, MapTables DEF clif_parse_eof, MapOnly, OthersStay
<1>2. CASE Playing(m) /\ map_quit_active(m)
    BY <1>1, <1>2, QuitWatched
<1>3. CASE /\ Playing(m) /\ UNCHANGED <<authdb, fromMap>>
           /\ \E link \in {"delayed", "auto"} : SetPlayer(m, [player[m] EXCEPT !.link = link])
  <2>1. PICK link \in {"delayed", "auto"} : SetPlayer(m, [player[m] EXCEPT !.link = link])
      BY <1>3
  <2>2. PICK p : p = [player[m] EXCEPT !.link = link]
      OBVIOUS
  <2>3. p.link = link /\ player'[m] = p
      BY <1>3, <2>1, <2>2, PlayerKinds, MapTables DEF SetPlayer, Players
  <2>4. ~Linked(m)' /\ authdb[m].state = "none" /\ authdb'[m] = authdb[m]
      BY <1>3, <2>3 DEF Linked, Inv, MapSide, QuitFindsNoNode, NoNodeHere
  <2>5. NothingUnsettles(m)'
      BY <1>1, <1>3, <2>4 DEF Watched, NothingUnsettles, Coming
  <2>6. OwnersPresent(m)' /\ Doomed(m)'
      BY <2>4 DEF OwnersPresent, Doomed, Coming, ST_LOGIN
  <2> QED BY <1>1, <2>5, <2>6, MapStepWatched
<1>4. CASE authdb[m].state \notin {"none", "logout"} /\ authdb' = WithoutNode(m) /\ UNCHANGED <<player, fromMap>>
  <2>1. authdb[m] # NoNodeHere /\ authdb'[m] = NoNodeHere
      BY <1>4, MapTables DEF WithoutNode, NoNodeHere
  <2> QED BY <1>1, <1>4, <2>1, DeleteWatched
<1>5. CASE /\ \/ socket[m][c] = "bare"
              \/ ~(Playing(m) /\ player[m].client = c /\ player[m].link = "on") /\ authdb[m].state \in {"none", "logout"}
           /\ UNCHANGED <<player, authdb, fromMap>>
  <2>1. Linked(m) => player[m].client # c
      BY <1>5 DEF Linked, Inv, MapSide, SocketsOpen
  <2>2. authdb[m].state \in ST_LOGIN => authdb[m].client # c
      BY <1>5 DEF Inv, MapSide, SocketsOpen, ST_LOGIN
  <2>3. NothingUnsettles(m)'
      BY <1>1, <1>5 DEF Watched, NothingUnsettles, Playing, Coming
  <2>4. OwnersPresent(m)'
      BY <1>1, <1>5, <2>1, <2>2 DEF Watched, OwnersPresent, AtOrLeaving, Linked, Playing
  <2>5. Doomed(m) => Doomed(m)'
      BY <1>1, <1>5, <2>1, <2>2 DEF Doomed, Linked, Playing, Coming, ST_LOGIN
  <2> QED BY <1>1, <2>3, <2>4, <2>5, MapStepWatched
<1> QED BY <1>2, <1>3, <1>4, <1>5, Zenon DEF clif_parse_eof

LEMMA PlayWatched ==
    ASSUME Inv, NEW m \in Maps, Watched(m), MapOnly,
           Play(m) \/ pc_autosave(m) \/ chrif_charselectreq(m)
    PROVE  Watched(m)'
<1>1. /\ OthersStay /\ Playing(m) /\ UNCHANGED <<authdb, mapEof, client, toMap>>
      /\ NoFailures(m) /\ Lacks(fromMap[m], Unsettling)
      /\ player[m] \in Players /\ player[m].client \in Clients /\ player[m].ver \in Nat
    BY PlayerKinds DEF Play, pc_autosave, chrif_charselectreq, MapOnly, OthersStay, mapVars, queueVars, Watched, NothingUnsettles
<1>2. CASE Play(m)
  <2>1. PICK p : p = [player[m] EXCEPT !.ver = tip + 1]
      OBVIOUS
  <2>2. p \in Players /\ p.client = player[m].client /\ p.link = player[m].link
    <3>1. tip + 1 \in Nat
        BY MapTables
    <3> QED BY <1>1, <2>1, <3>1 DEF Players
  <2>3. player'[m] = p /\ fromMap' = fromMap
      BY <1>2, <2>1, MapTables DEF Play, SetPlayer, queueVars
  <2>4. Playing(m)' /\ (Linked(m)' => Linked(m))
      BY <1>1, <2>2, <2>3, NoVersionPlayer DEF Playing, Linked
  <2> QED BY <1>1, <2>2, <2>3, <2>4, PlayerWatched
<1>3. ASSUME UNCHANGED mapVars, NEW x \in FromMapMsg, x.t \in {"save", "select"}, ToCharFrom(m, <<x>>) PROVE Watched(m)'
  <2>1. Lacks(fromMap'[m], Unsettling)
      BY <1>1, <1>3, Writes DEF Unsettling
  <2>2. Playing(m)' /\ Linked(m)' = Linked(m) /\ player'[m].client = player[m].client
      BY <1>1, <1>3 DEF Playing, Linked, mapVars
  <2> QED BY <1>1, <2>1, <2>2, PlayerWatched
<1>4. CASE pc_autosave(m)
  <2>1. PICK x : x = SaveMsg(player[m].ver, FALSE)
      OBVIOUS
  <2>2. x \in FromMapMsg /\ x.t = "save"
      BY <1>1, <2>1, MessageTypes DEF SaveMsg
  <2> QED BY <1>3, <1>4, <2>1, <2>2 DEF pc_autosave
<1>5. CASE chrif_charselectreq(m)
  <2>1. PICK x : x = [t |-> "select", c |-> player[m].client]
      OBVIOUS
  <2>2. x \in FromMapMsg /\ x.t = "select"
      BY <1>1, <2>1, MessageTypes
  <2> QED BY <1>3, <1>5, <2>1, <2>2 DEF chrif_charselectreq
<1> QED BY <1>2, <1>4, <1>5

LEMMA CleanupWatched ==
    ASSUME Inv, NEW m \in Maps, Watched(m), auth_db_cleanup(m), MapOnly
    PROVE  Watched(m)'
<1>1. OthersStay /\ UNCHANGED player /\ NoFailures(m) /\ Lacks(fromMap[m], {"change", "users"})
    BY DEF auth_db_cleanup, MapOnly, OthersStay, Watched, NothingUnsettles
<1>2. CASE authdb[m].state = "logout" /\ ToCharFrom(m, <<SaveMsg(authdb[m].ver, TRUE)>>) /\ UNCHANGED authdb
  <2>1. PICK x : x = SaveMsg(authdb[m].ver, TRUE)
      OBVIOUS
  <2>2. x \in FromMapMsg /\ x.t = "save"
    <3>1. authdb[m].ver \in Nat
        BY <1>2 DEF Inv, MapSide, NodesFilled
    <3> QED BY <2>1, <3>1, MessageTypes DEF SaveMsg
  <2>3. Lacks(fromMap'[m], {"change", "users"})
      BY <1>1, <1>2, <2>1, <2>2, Writes
  <2>4. ~Playing(m)' /\ authdb'[m].state \notin ST_LOGIN
      BY <1>1, <1>2, NodePlaysNot DEF Playing, NoNodeHere, ST_LOGIN
  <2> QED BY <1>1, <2>3, <2>4, AbsentWatched
<1>3. CASE authdb[m].state \in ST_LOGIN \cup {"mapchange"} /\ ToCharFrom(m, <<[t |-> "offline"]>>) /\ chrif_auth_delete(m)
  <2>1. authdb[m] # NoNodeHere /\ authdb'[m] = NoNodeHere
      BY <1>3, AuthDeleteSide DEF NoNodeHere, ST_LOGIN
  <2> QED BY <1>1, <1>3, <2>1, DeleteWatched
<1> QED BY <1>2, <1>3 DEF auth_db_cleanup

(* The map server reads what the char server wrote. *)
ReadsFirst(m) == OthersStay /\ toMap[m] # <<>> /\ toMap'[m] = Tail(toMap[m])

LEMMA FirstRead ==
    ASSUME Inv, NEW m \in Maps, ReadsFirst(m)
    PROVE  /\ \A kinds : Has(toMap[m], kinds) /\ Head(toMap[m]).t \notin kinds => Has(toMap'[m], kinds)
           /\ \A c : Answered(toMap'[m], c) => Answered(toMap[m], c)
           /\ \A c : KickBehind(toMap[m], c) => Has(toMap'[m], {"kick"})
           /\ \A c : KickBehind(toMap[m], c) /\ Head(toMap[m]).t # "authOk" => KickBehind(toMap'[m], c)
BY LinksOf, OneLess DEF ReadsFirst

(* It passes over a packet, or the sockets change. *)
LEMMA PassWatched ==
    ASSUME Inv, NEW m \in Maps, Watched(m), ReadsFirst(m), MapStays(m), fromMap' = fromMap, Doomed(m) => Doomed(m)'
    PROVE  Watched(m)'
<1>1. NothingUnsettles(m)'
    BY FirstRead DEF Watched, NothingUnsettles, MapStays, Playing, Coming
<1>2. OwnersPresent(m)'
    BY OwnersStay DEF Watched
<1> QED BY <1>1, <1>2, MapStepWatched DEF ReadsFirst

LEMMA ReadNothing ==
    ASSUME Inv, NEW m \in Maps, Watched(m), ReadsFirst(m), MapStays(m), fromMap' = fromMap,
           \/ Head(toMap[m]).t \notin {"kick", "selectOk", "authOk"}
           \/ Head(toMap[m]).t = "authOk" /\ authdb[m].state \notin ST_LOGIN
           \/ ~Linked(m) /\ authdb[m].state \notin ST_LOGIN
    PROVE  Watched(m)'
<1>1. Doomed(m) => Doomed(m)'
    BY FirstRead DEF Doomed, MapStays, Linked, Playing, Coming, ST_LOGIN
<1> QED BY <1>1, PassWatched

LEMMA AuthOkWatched ==
    ASSUME Inv, NEW m \in Maps, Newest(m), Watched(m), ReadsFirst(m), UNCHANGED player, NEW c \in Clients, NEW ver,
           Head(toMap[m]).t = "authOk", Head(toMap[m]).c = c, chrif_authok(m, c, ver)
    PROVE  Watched(m)'
<1>1. CASE /\ ~Playing(m) /\ authdb[m].state \in ST_LOGIN /\ authdb[m].client = c
           /\ SetNode(m, [authdb[m] EXCEPT !.state = "loaded", !.ver = ver])
           /\ ToCharFrom(m, <<[t |-> "regs"]>>)
           /\ UNCHANGED <<client, socket, mapEof>>
  <2>1. Answered(toMap[m], c)
    <3>1. 1 \in 1 .. Len(toMap[m]) /\ Head(toMap[m]) = toMap[m][1]
        BY LinksOf DEF ReadsFirst
    <3> QED BY <3>1 DEF Answered, Answers
  <2>2. Coming(m) /\ authdb[m].state = "login"
      BY <1>1, <2>1 DEF Newest, OneQuestion, ST_LOGIN, Coming
  <2>3. authdb'[m].state = "loaded" /\ authdb'[m].client = c
    <3>1. PICK n : n = [authdb[m] EXCEPT !.state = "loaded", !.ver = ver]
        OBVIOUS
    <3>2. authdb[m] \in Nodes
        BY <2>2, LinksOf, NodeKinds DEF SideOK
    <3>3. n.state = "loaded" /\ n.client = c
        BY <1>1, <3>1, <3>2 DEF Nodes
    <3> QED BY <1>1, <3>1, <3>3, MapTables DEF SetNode
  <2>4. NoFailures(m) /\ Lacks(fromMap[m], Departing) /\ Lacks(fromMap[m], {"change", "users"})
      BY <2>2 DEF Watched, NothingUnsettles
  <2>5. Lacks(fromMap'[m], Departing) /\ Lacks(fromMap'[m], {"change", "users"})
    <3>1. PICK x : x = [t |-> "regs"]
        OBVIOUS
    <3>2. x \in FromMapMsg /\ x.t = "regs"
        BY <3>1, MessageTypes
    <3> QED BY <1>1, <2>4, <3>1, <3>2, Writes DEF Departing
  <2>6. ~Playing(m)'
      BY <1>1 DEF Playing
  <2>7. NothingUnsettles(m)'
      BY <2>3, <2>5, <2>6 DEF NothingUnsettles, Coming
  <2>8. OwnersPresent(m)'
      BY <1>1, <2>3, <2>6 DEF Watched, OwnersPresent, AtOrLeaving, Linked
  <2>9. Doomed(m) => Doomed(m)'
    <3>1. KickBehind(toMap[m], c) => Has(toMap'[m], {"kick"})
        BY FirstRead
    <3> QED BY <1>1, <2>2, <2>3, <2>6, <3>1 DEF Doomed, Linked, Coming
  <2> QED BY <2>7, <2>8, <2>9, MapStepWatched DEF ReadsFirst
<1>2. CASE /\ authdb[m].state \in ST_LOGIN
           /\ ToCharFrom(m, <<[t |-> "offline"]>>)
           /\ chrif_auth_delete(m)
  <2>1. authdb[m] # NoNodeHere /\ authdb'[m] = NoNodeHere
      BY <1>2, AuthDeleteSide DEF NoNodeHere, ST_LOGIN
  <2> QED BY <1>2, <2>1, DeleteWatched DEF ReadsFirst
<1>3. CASE (Playing(m) \/ authdb[m].state \notin ST_LOGIN) /\ UNCHANGED <<authdb, client, socket, mapEof, fromMap>>
  <2>1. authdb[m].state \notin ST_LOGIN
      BY <1>3 DEF Inv, MapSide, QuitFindsNoNode, NoNodeHere, ST_LOGIN
  <2> QED BY <1>3, <2>1, SameClients, ReadNothing
<1> QED BY <1>1, <1>2, <1>3, Zenon DEF chrif_authok

LEMMA RegReceivedWatched ==
    ASSUME Inv, NEW m \in Maps, Watched(m), ReadsFirst(m), Head(toMap[m]).t = "regs",
           pc_reg_received(m), UNCHANGED <<client, mapEof, fromMap>>
    PROVE  Watched(m)'
<1>1. CASE /\ authdb[m].state = "loaded"
           /\ SetPlayer(m, [client |-> authdb[m].client, ver |-> authdb[m].ver, link |-> "on"])
           /\ SetNode(m, NoNodeHere)
  <2>1. player'[m].client = authdb[m].client /\ authdb'[m].state = "none"
    <3>1. PICK p : p = [client |-> authdb[m].client, ver |-> authdb[m].ver, link |-> "on"]
        OBVIOUS
    <3>2. p.client = authdb[m].client /\ player'[m] = p
        BY <1>1, <3>1, MapTables DEF SetPlayer
    <3> QED BY <1>1, <3>2, MapTables DEF SetNode, NoNodeHere
  <2>2. Lacks(fromMap[m], Unsettling) /\ Lacks(fromMap[m], {"change", "users"})
      BY <1>1 DEF Watched, NothingUnsettles, Lacks, Departing, Unsettling
  <2>3. NothingUnsettles(m)' /\ OwnersPresent(m)'
      BY <1>1, <2>1, <2>2 DEF Watched, NothingUnsettles, OwnersPresent, AtOrLeaving, Coming, ST_LOGIN
  <2>4. Doomed(m) => Doomed(m)'
    <3>1. Has(toMap[m], {"kick"}) => Has(toMap'[m], {"kick"})
        BY FirstRead
    <3>2. Has(toMap'[m], {"kick"}) => Has(toMap'[m], {"kick", "selectOk"})
        BY DEF Has
    <3> QED BY <1>1, <2>1, <3>1, <3>2 DEF Doomed, Coming
  <2> QED BY <2>3, <2>4, MapStepWatched DEF ReadsFirst
<1>2. CASE UNCHANGED <<player, authdb>>
    BY <1>2, SameClients, ReadNothing
<1> QED BY <1>1, <1>2 DEF pc_reg_received

LEMMA SelectOkWatched ==
    ASSUME Inv, NEW m \in Maps, Watched(m), ReadsFirst(m), Head(toMap[m]).t = "selectOk",
           clif_charselectok(m), UNCHANGED <<player, authdb, fromMap>>
    PROVE  Watched(m)'
<1> DEFINE c == player[m].client
<1>1. CASE Playing(m) /\ client' = [client EXCEPT ![c] = Ticket] /\ MarkEof(m, c)
  <2>1. mapEof'[m] = mapEof[m] \cup {c} /\ \A d \in Clients \ {c} : client'[d] = client[d]
      BY <1>1, MapTables DEF MarkEof
  <2>2. MapStays(m)
      BY <2>1 DEF MapStays, AtOrLeaving
  <2>3. authdb'[m].state = "none"
      BY <1>1 DEF Inv, MapSide, QuitFindsNoNode, NoNodeHere
  <2>4. Doomed(m)'
      BY <2>1, <2>3 DEF Doomed, Coming
  <2> QED BY <2>2, <2>4, PassWatched
<1>2. CASE ~(Playing(m) /\ player[m].link = "on" /\ client[c] = AtMap(m)) /\ UNCHANGED <<client, mapEof>>
  <2>1. Linked(m) => c \in mapEof[m]
      BY <1>2 DEF Watched, OwnersPresent, AtOrLeaving, Linked
  <2>2. Doomed(m) => Doomed(m)'
      BY <1>2, <2>1, FirstRead DEF Doomed, Linked, Playing, Coming
  <2> QED BY <1>2, <2>2, SameClients, PassWatched
<1> QED BY <1>1, <1>2, Zenon DEF clif_charselectok

LEMMA KickWatched ==
    ASSUME Inv, NEW m \in Maps, Watched(m), ReadsFirst(m), chrif_disconnectplayer(m)
    PROVE  Watched(m)'
<1>1. CASE authdb[m].state \in ST_LOGIN /\ chrif_auth_delete(m) /\ UNCHANGED <<player, client, mapEof, fromMap>>
  <2>1. authdb[m] # NoNodeHere /\ authdb'[m] = NoNodeHere
      BY <1>1, AuthDeleteSide DEF NoNodeHere, ST_LOGIN
  <2> QED BY <1>1, <2>1, DeleteWatched DEF ReadsFirst
<1>2. CASE Playing(m) /\ clif_authfail_fd(m, player[m].client) /\ UNCHANGED <<player, authdb, fromMap>>
  <2>1. /\ mapEof'[m] = mapEof[m] \cup {player[m].client}
        /\ \A d \in Clients \ {player[m].client} : client'[d] = client[d]
      BY <1>2, PlayerKinds, AuthFailSide
  <2>2. MapStays(m)
      BY <1>2, <2>1 DEF MapStays, AtOrLeaving
  <2>3. authdb'[m].state = "none"
      BY <1>2 DEF Inv, MapSide, QuitFindsNoNode, NoNodeHere
  <2>4. Doomed(m)'
      BY <1>2, <2>1, <2>3 DEF Doomed, Coming
  <2> QED BY <1>2, <2>2, <2>4, PassWatched
<1>3. CASE Playing(m) /\ map_quit_active(m)
    BY <1>3, QuitWatched DEF ReadsFirst
<1>4. CASE /\ \/ Playing(m) /\ player[m].link = "delayed"
              \/ ~Playing(m) /\ authdb[m].state \notin ST_LOGIN
           /\ UNCHANGED <<player, authdb, client, socket, mapEof, fromMap>>
  <2>1. ~Linked(m) /\ authdb[m].state \notin ST_LOGIN
      BY <1>4 DEF Linked, Inv, MapSide, QuitFindsNoNode, NoNodeHere, ST_LOGIN
  <2> QED BY <1>4, <2>1, SameClients, ReadNothing
<1> QED BY <1>1, <1>2, <1>3, <1>4, Zenon DEF chrif_disconnectplayer

LEMMA ChrifParseWatched ==
    ASSUME Inv, NEW m \in Maps, Newest(m), Watched(m), chrif_parse(m), MapOnly
    PROVE  Watched(m)'
<1>1. PICK msg \in ToMapMsg : msg = Head(toMap[m])
    BY FirstAndRest, LinksOf DEF chrif_parse
<1>2. ReadsFirst(m)
    BY MapTables DEF chrif_parse, MapOnly, OthersStay, ReadsFirst, LinkTypes
<1>3. msg.t \in {"authOk", "authFail"} => msg.c \in Clients
    BY DEF ToMapMsg
<1>4. CASE msg.t = "authOk" /\ chrif_authok(m, msg.c, msg.ver) /\ UNCHANGED player
    BY <1>1, <1>2, <1>3, <1>4, AuthOkWatched
<1>5. CASE msg.t = "authFail" /\ chrif_authfail(m, msg.c) /\ UNCHANGED <<player, fromMap>>
  <2>1. CASE authdb[m].state \in ST_LOGIN /\ chrif_auth_delete(m)
    <3>1. authdb[m] # NoNodeHere /\ authdb'[m] = NoNodeHere
        BY <2>1, AuthDeleteSide DEF NoNodeHere, ST_LOGIN
    <3> QED BY <1>2, <1>5, <3>1, DeleteWatched DEF ReadsFirst
  <2>2. CASE UNCHANGED <<authdb, client, socket, mapEof>>
      BY <1>1, <1>2, <1>5, <2>2, SameClients, ReadNothing
  <2> QED BY <1>5, <2>1, <2>2 DEF chrif_authfail
<1>6. CASE msg.t = "regs" /\ pc_reg_received(m) /\ UNCHANGED <<client, socket, mapEof, fromMap>>
    BY <1>1, <1>2, <1>6, RegReceivedWatched
<1>7. CASE msg.t = "selectOk" /\ clif_charselectok(m) /\ UNCHANGED <<player, authdb, socket, fromMap>>
    BY <1>1, <1>2, <1>7, SelectOkWatched
<1>8. CASE msg.t = "changeAck" /\ chrif_changemapserverack(m, msg.ok, msg.to) /\ UNCHANGED <<player, fromMap>>
  <2>1. UNCHANGED <<authdb, client, mapEof>>
      BY <1>8 DEF chrif_changemapserverack, Newest
  <2> QED BY <1>1, <1>2, <1>8, <2>1, SameClients, ReadNothing
<1>9. CASE msg.t = "kick" /\ chrif_disconnectplayer(m)
    BY <1>2, <1>9, KickWatched
<1>10. CASE msg.t = "saveAck" /\ chrif_save_ack(m) /\ UNCHANGED <<player, client, socket, mapEof, fromMap>>
  <2>1. CASE authdb[m].state = "logout" /\ SetNode(m, NoNodeHere)
    <3>1. authdb[m] # NoNodeHere /\ authdb'[m] = NoNodeHere
        BY <2>1, MapTables DEF SetNode, NoNodeHere
    <3> QED BY <1>2, <1>10, <3>1, DeleteWatched DEF ReadsFirst
  <2>2. CASE UNCHANGED authdb
      BY <1>1, <1>2, <1>10, <2>2, SameClients, ReadNothing
  <2> QED BY <1>10, <2>1, <2>2 DEF chrif_save_ack
<1> QED BY <1>1, <1>4, <1>5, <1>6, <1>7, <1>8, <1>9, <1>10, Zenon DEF chrif_parse

LEMMA MapWatched ==
    ASSUME Inv, MapNext, NEW m, Maps = {m}, Newest(m), Watched(m)
    PROVE  Watched(m)'
<1>1. m \in Maps /\ MapStep(m) /\ MapOnly
    BY DEF MapNext
<1>2. ~(\E to \in Maps : pc_setpos(m, to)) /\ ~chrif_on_disconnect(m)
    BY DEF pc_setpos, chrif_on_disconnect, Watched, NoFailures
<1>3. CASE clif_delayquit(m)
  <2>1. OthersStay
      BY <1>1, <1>3 DEF clif_delayquit, MapOnly, OthersStay
  <2> QED BY <1>1, <1>3, <2>1, QuitWatched DEF clif_delayquit
<1> QED BY <1>1, <1>2, <1>3, WantToConnectionWatched, ClifEofWatched, PlayWatched, ChrifParseWatched, CleanupWatched DEF MapStep

LEMMA ClientDropWatched ==
    ASSUME Inv, NEW m \in Maps, Watched(m), NEW c \in Clients, ClientDrop(c)
    PROVE  Watched(m)'
<1>1. UNCHANGED <<loginVars, online, charHasMap, charHasLogin, player, authdb, mapHasChar, queueVars, wireVars>>
    BY DEF ClientDrop
<1>2. NoFailures(m)' /\ (KnownTo(m) => KnownTo(m)')
    BY <1>1 DEF Watched, NoFailures, KnownTo, LocatedOn, Heard, loginVars, queueVars, wireVars
<1>3. MapStays(m)
  <2>1. mapEof'[m] = IF client[c] = AtMap(m) THEN mapEof[m] \cup {c} ELSE mapEof[m]
      BY DEF ClientDrop
  <2>2. \A d \in Clients \ {c} : client'[d] = client[d]
      BY MapTables DEF ClientDrop
  <2> QED BY <1>1, <2>1, <2>2 DEF MapStays, AtOrLeaving
<1>4. NothingNew(m)
    BY <1>1 DEF NothingNew, queueVars
<1> QED BY <1>2, <1>3, <1>4, UnsettlesStays, OwnersStay, DoomStays DEF Watched

----------------------------------------------------------------------------
LEMMA InitWatched == ASSUME Init, NEW m \in Maps PROVE Watched(m)
<1>1. /\ fromMap[m] = <<>> /\ player[m] = NoPlayer /\ authdb[m] = NoNodeHere
      /\ loginWire /\ mapWire[m] /\ charHasLogin /\ loginHasChar /\ charHasMap[m] /\ mapHasChar[m]
    BY DEF Init, ServersInit, LinksInit, LoginInit, NoMail, CharInit, MapInit
<1>2. Lacks(fromMap[m], {"change", "users"})
    BY <1>1 DEF Lacks
<1>3. ~Playing(m) /\ authdb[m].state = "none"
    BY <1>1 DEF Playing, NoNodeHere
<1> QED BY <1>1, <1>2, <1>3 DEF Watched, NoFailures, NothingUnsettles, OwnersPresent, Doomed, Linked, Coming, ST_LOGIN

LEMMA NextWatched ==
    ASSUME NEW m, Maps = {m}, Prompt, ~Hourly, MaxLoginCuts = 0, MaxMapCuts = 0,
           Inv, Newest(m), Watched(m), [Next]_vars
    PROVE  Watched(m)'
<1>1. m \in Maps
    OBVIOUS
<1>2. CASE UNCHANGED vars
  <2>1. UNCHANGED <<loginVars, charVars, mapVars, client, queueVars, wireVars>>
      BY <1>2 DEF vars
  <2> QED BY <1>1, <2>1, SameClients, MapStaysWatched DEF mapVars, queueVars, OthersStay
<1>3. ~Cut /\ ~ReconnectLogin /\ \A k \in Maps : ~ReconnectMap(k)
  <2>1. ~Cut
      BY DEF Cut, Inv
  <2> QED BY <2>1 DEF ReconnectLogin, ReconnectMap, Watched, NoFailures
<1> QED BY <1>1, <1>2, <1>3, LoginWatched, CharWatched, MapWatched, ClientDropWatched DEF Next

(* With one map server, no connection that fails, and timers that run out only when nothing is
   under way: when nothing is, both other servers know of a player with a client, so that a second
   login is refused (mmo_auth) and its kick reaches the player's map server (packet 0x2734). *)
THEOREM PlayersAreKnown ==
    ASSUME NEW m, Maps = {m}, Prompt, ~Hourly, MaxLoginCuts = 0, MaxMapCuts = 0
    PROVE  Spec => []PlayingIsKnown
<1>1. Init => Inv /\ Newest(m) /\ Watched(m)
    BY InitInv, InitNewest, InitWatched
<1>2. Inv /\ Newest(m) /\ Watched(m) /\ [Next]_vars => Inv' /\ Newest(m)' /\ Watched(m)'
    BY NextInv, NextNewest, NextWatched
<1>3. Inv /\ Watched(m) => PlayingIsKnown
  <2>1. SUFFICES ASSUME Inv, Watched(m), NothingUnderWay, Playing(m), player[m].link = "on"
                 PROVE  online.server = m /\ loginServer = "char"
      BY DEF PlayingIsKnown
  <2>2. toMap[m] = <<>> /\ mapEof[m] = {} /\ toLogin = <<>> /\ fromLogin = <<>>
      BY <2>1 DEF NothingUnderWay
  <2>3. ~Has(toMap[m], {"kick", "selectOk"}) /\ ~Has(fromLogin, {"kick"}) /\ ~Reported(toLogin)
      BY <2>2 DEF Has, Reported
  <2>4. KnownTo(m)
      BY <2>1, <2>2, <2>3 DEF Watched, Doomed, Linked
  <2> QED BY <2>3, <2>4 DEF KnownTo, LocatedOn, Heard
<1> QED BY <1>1, <1>2, <1>3, PTL DEF Spec
=============================================================================
