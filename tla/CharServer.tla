----------------------------- MODULE CharServer -----------------------------
(***************************************************************************)
(* The char server's view of the account (src/src/char_sql/char.c): the    *)
(* auth node that hands a client over to a map server (or back), the entry *)
(* of online_char_db that says where the account is, the sessions of the   *)
(* clients choosing a character, and the character itself: the version     *)
(* that SQL holds and the copy cached in char_db_.                         *)
(***************************************************************************)
EXTENDS ServerLinks, SequencesExt

ASSUME ServerAssumption == Maps \cap {"none", "unknown"} = {}   \* -1 and -2 are no slots of server[]

VARIABLES
    charNode,     \* auth_db: the client the node is for and whether it names the character
    online,       \* online_char_db: the entry of the account
    charSession,  \* per client: "none", "pending" (0x65 received) or "authed"
    charEof,      \* clients whose session is closed but not yet parsed
    stored,       \* version of the character in SQL
    cached,       \* version of the character in char_db_, or NoVersion
    charHasMap,   \* server[m].fd is valid
    charHasLogin  \* login_fd > 0

charVars == <<charNode, online, charSession, charEof, stored, cached, charHasMap, charHasLogin>>

NoNode == [client |-> NoOne, char |-> FALSE]

(* char: the entry names the character (char_id # -1); fd: the session choosing a
   character; server: -1 "none", -2 "unknown", or a map server; timer: a kick
   was asked for and waiting_disconnect is running. *)
NoEntry == [known |-> FALSE, char |-> FALSE, fd |-> NoOne, server |-> "none", timer |-> FALSE]
create_online_char_data == [NoEntry EXCEPT !.known = TRUE]
Entry == IF online.known THEN online ELSE create_online_char_data   \* idb_ensure

CharTypeOK ==
    /\ charNode \in [client : Clients \cup {NoOne}, char : BOOLEAN]
    /\ online \in [known : BOOLEAN, char : BOOLEAN, fd : Clients \cup {NoOne},
                   server : Maps \cup {"none", "unknown"}, timer : BOOLEAN]
    /\ charSession \in [Clients -> {"none", "pending", "authed"}]
    /\ charEof \subseteq {c \in Clients : charSession[c] # "none"}
    /\ stored \in Nat
    /\ cached \in Nat \cup {NoVersion}
    /\ charHasMap \in [Maps -> BOOLEAN]
    /\ charHasLogin \in BOOLEAN

CharInit ==
    /\ charNode = NoNode
    /\ online = NoEntry
    /\ charSession = [c \in Clients |-> "none"]
    /\ charEof = {}
    /\ stored = 0
    /\ cached = NoVersion
    /\ charHasMap = [m \in Maps |-> TRUE]
    /\ charHasLogin = TRUE

----------------------------------------------------------------------------
(* What a handler writes to its links, each handler once. *)
ToLogin(msgs) == toLogin' = IF charHasLogin /\ loginWire THEN toLogin \o msgs ELSE toLogin
ToMaps(mail) ==
    toMap' = [m \in Maps |-> IF charHasMap[m] /\ mapWire[m] THEN toMap[m] \o mail[m] ELSE toMap[m]]
Kick(server) == IF server \in Maps THEN MailTo(server, <<[t |-> "kick"]>>) ELSE NoMail
Both(mail1, mail2) == [m \in Maps |-> mail1[m] \o mail2[m]]

----------------------------------------------------------------------------
(* The operations on the online entry, each with what it sends. *)
set_char_charselect(fd) ==
    /\ online' = [create_online_char_data EXCEPT !.fd = fd]
    /\ ToLogin(<<[t |-> "online"]>>)

(* Another map server has the character: set_char_online asks it to kick. *)
ConflictKick(server) ==
    IF online.char /\ online.server \in Maps \ {server} THEN Kick(online.server) ELSE NoMail

set_char_online(server) ==
    /\ online' = [Entry EXCEPT !.char = TRUE, !.server = server, !.timer = FALSE]
    /\ ToLogin(<<[t |-> "online"]>>)

(* all: char_id is -1; otherwise the copy in char_db_ goes. *)
set_char_offline_keeping_cache(entry, all) ==   \* a mistake the runs must notice
    /\ online' = IF entry.known /\ entry.char # all
                 THEN [entry EXCEPT !.char = FALSE, !.server = "none", !.timer = FALSE]
                 ELSE [entry EXCEPT !.timer = FALSE]
    /\ ToLogin(IF all \/ ~entry.known \/ entry.fd = NoOne
               THEN <<[t |-> "offline"]>> ELSE <<>>)
    /\ UNCHANGED cached

set_char_offline(entry, all) ==
    /\ online' = IF ~entry.known THEN entry
                 ELSE IF entry.char # all
                 THEN [entry EXCEPT !.char = FALSE, !.server = "none", !.timer = FALSE]
                 ELSE [entry EXCEPT !.timer = FALSE]
    /\ cached' = IF all THEN cached ELSE NoVersion
    /\ ToLogin(IF all \/ ~entry.known \/ entry.fd = NoOne
               THEN <<[t |-> "offline"]>> ELSE <<>>)

----------------------------------------------------------------------------
(* Clients choosing a character: parse_char. *)

RefuseChar(c) == client' = [client EXCEPT ![c] = Gone] /\ charEof' = charEof \cup {c}

(* Decides on a session whose login ids were confirmed. *)
AlreadyOnMap(c) ==
    /\ online.server \in Maps
    /\ ToMaps(Kick(online.server))
    /\ online' = [online EXCEPT !.timer = TRUE]   \* 20 s, unless one runs
    /\ RefuseChar(c)
    /\ charSession' = [charSession EXCEPT ![c] = "pending"]
    /\ UNCHANGED toLogin

AlreadyChoosing(c) ==
    /\ online.server \notin Maps
    /\ online.fd \notin {NoOne, c}
    /\ RefuseChar(c)
    /\ charSession' = [charSession EXCEPT ![c] = "pending"]
    /\ UNCHANGED <<online, toLogin, toMap>>

(* An entry made here by set_char_charselect does not get the session's fd. *)
StartChoosing(c) ==
    /\ online.server \notin Maps
    /\ online.fd \in {NoOne, c}
    /\ client' = [client EXCEPT ![c] = AtChar]
    /\ charSession' = [charSession EXCEPT ![c] = "authed"]
    /\ set_char_charselect(IF online.known THEN c ELSE NoOne)
    /\ UNCHANGED <<charEof, toMap>>

char_auth_ok(c) == AlreadyOnMap(c) \/ AlreadyChoosing(c) \/ StartChoosing(c)

(* 0x65: a node for this client (it comes from a map server) is used up here;
   for any other client the login server is asked. *)
EnterChar(c) ==
    /\ client[c] = Ticket
    /\ charSession[c] = "none"
    /\ \/ /\ charNode.client = c
          /\ charNode' = NoNode
          /\ char_auth_ok(c)
       \/ /\ charNode.client # c
          /\ charSession' = [charSession EXCEPT ![c] = "pending"]
          /\ ToLogin(<<[t |-> "auth", c |-> c]>>)
          /\ IF charHasLogin
             THEN client' = [client EXCEPT ![c] = AtChar] /\ UNCHANGED charEof
             ELSE RefuseChar(c)
          /\ UNCHANGED <<charNode, online, toMap>>
    /\ UNCHANGED <<stored, cached, charHasMap, charHasLogin, fromLogin, fromMap, wireVars>>

(* 0x66: the character is read from SQL into char_db_, the node is written, and the
   client is sent to the map server of its last point.  Its socket closes. *)
SelectChar(c, m) ==
    /\ charSession[c] = "authed" /\ c \notin charEof
    /\ cached' = stored
    /\ charHasMap[m]
    /\ charNode' = [client |-> c, char |-> TRUE]
    /\ client' = [client EXCEPT ![c] = ReadyFor(m)]
    /\ charEof' = charEof \cup {c}
    /\ set_char_online("unknown")
    /\ ToMaps(ConflictKick("unknown"))
    /\ UNCHANGED <<charSession, stored, charHasMap, charHasLogin, fromLogin, fromMap, wireVars>>

(* No map server has the last point's map, nor a major city: "server closed". *)
SelectNowhere(c) ==
    /\ charSession[c] = "authed" /\ c \notin charEof
    /\ cached' = stored
    /\ RefuseChar(c)
    /\ UNCHANGED <<charNode, online, charSession, stored, charHasMap, charHasLogin,
                   queueVars, wireVars>>

(* Does a session that ends take the account offline?  Not one that was sent on. *)
LeavesAlways == TRUE   \* a mistake the runs must notice
LeavesOffline == ~online.known \/ online.server = "none"

(* The eof branch of parse_char. *)
parse_char_eof(c) ==
    /\ c \in charEof
    /\ charEof' = charEof \ {c}
    /\ charSession' = [charSession EXCEPT ![c] = "none"]
    /\ IF charSession[c] = "authed"
       THEN LET left == [online EXCEPT !.fd = IF @ = c THEN NoOne ELSE @] IN
            IF LeavesOffline
            THEN set_char_offline(left, TRUE)
            ELSE online' = left /\ UNCHANGED <<cached, toLogin>>
       ELSE UNCHANGED <<online, cached, toLogin>>
    /\ UNCHANGED <<charNode, stored, charHasMap, charHasLogin, client,
                   fromLogin, fromMap, toMap, wireVars>>

----------------------------------------------------------------------------
(* Packets of the login server: parse_fromlogin. *)

(* 0x2713, only for a session that still waits for it. *)
OnAuthAck(c, ok) ==
    /\ IF charSession[c] = "pending" /\ c \notin charEof
       THEN IF ok
            THEN char_auth_ok(c)
            ELSE RefuseChar(c) /\ UNCHANGED <<charSession, online, toLogin, toMap>>
       ELSE UNCHANGED <<client, charEof, charSession, online, toLogin, toMap>>
    /\ UNCHANGED <<charNode, cached>>

(* 0x2734: kick from the map server, else from the char server, else from nowhere;
   the node goes in every case. *)
OnLoginKick ==
    /\ charNode' = NoNode
    /\ \/ /\ online.server \in Maps
          /\ ToMaps(Kick(online.server))
          /\ online' = [online EXCEPT !.timer = TRUE]   \* 30 s, unless one runs
          /\ UNCHANGED <<cached, toLogin, client, charEof>>
       \/ /\ online.known /\ online.server \notin Maps
          /\ \E c \in Clients :
                /\ charSession[c] # "none"
                /\ Refuse(c, AtChar)
                /\ charEof' = charEof \cup {c}
          /\ UNCHANGED <<online, cached, toLogin, toMap>>
       \/ /\ online.known /\ online.server \notin Maps
          /\ \A c \in Clients : charSession[c] = "none"
          /\ set_char_offline(online, TRUE)
          /\ UNCHANGED <<client, charEof, toMap>>
       \/ /\ ~online.known
          /\ UNCHANGED <<online, cached, toLogin, toMap, client, charEof>>
    /\ UNCHANGED charSession

parse_fromlogin ==
    /\ charHasLogin
    /\ fromLogin # <<>>
    /\ LET msg == Head(fromLogin) IN
       \/ msg.t = "authAck" /\ OnAuthAck(msg.c, msg.ok)
       \/ msg.t = "kick" /\ OnLoginKick
    /\ fromLogin' = Tail(fromLogin)
    /\ UNCHANGED <<stored, charHasMap, charHasLogin, fromMap, wireVars>>

(* The eof branch; parse_char then closes every session it visits. *)
loginif_on_disconnect ==
    /\ charHasLogin /\ ~loginWire
    /\ charHasLogin' = FALSE
    /\ charEof' = {c \in Clients : charSession[c] # "none"}
    /\ client' = [c \in Clients |-> IF client[c] = AtChar THEN Gone ELSE client[c]]
    /\ UNCHANGED <<charNode, online, charSession, stored, cached, charHasMap, queueVars, wireVars>>

(* send_accounts_tologin, every hour and when the login server accepts the link.
   A 32-bit count at byte 4, then the ids: see LoginServer for how it is read. *)
ListOf(ids) ==
    [t |-> "list",
     words |-> <<Len(ids), 0>> \o FlattenSeq([k \in 1 .. Len(ids) |->
                   <<ids[k] % 65536, ids[k] \div 65536>>])]
AccountList == ListOf(IF online.server \in Maps THEN <<AccountId>> ELSE <<>>)

send_accounts_tologin ==
    /\ charHasLogin
    /\ ToLogin(<<AccountList>>)
    /\ UNCHANGED <<charVars, client, fromLogin, fromMap, toMap, wireVars>>

----------------------------------------------------------------------------
(* Packets of map server m: parse_frommap.  Each leaves client and the sessions of
   the choosing clients alone. *)

(* 0x2b01, ver the character's data.  A save that is not final and whose character
   the entry does not name is not stored. *)
mmo_char_tosql(ver) == stored' = ver

StoresIfNamed(final) == online.known /\ online.char   \* a mistake the runs must notice
Stores(final) == final \/ (online.known /\ online.char)

OnSave(m, ver, final) ==
    LET named == online.known /\ online.char IN
    /\ IF Stores(final) THEN mmo_char_tosql(ver) ELSE UNCHANGED stored
    /\ \/ /\ final
          /\ set_char_offline(online, FALSE)
          /\ ToMaps(MailTo(m, <<[t |-> "saveAck"]>>))
       \/ /\ ~final /\ named
          /\ cached' = ver
          /\ UNCHANGED <<online, toLogin, toMap>>
       \/ /\ ~final /\ ~named
          /\ set_char_online(m)
          /\ ToMaps(ConflictKick(m))
          /\ UNCHANGED cached
    /\ UNCHANGED charNode

(* 0x2b02 *)
OnCharSelect(m, c) ==
    /\ charNode' = [client |-> c, char |-> FALSE]
    /\ set_char_charselect(Entry.fd)
    /\ ToMaps(MailTo(m, <<[t |-> "selectOk"]>>))
    /\ UNCHANGED <<stored, cached>>

(* 0x2b05: the character travels as char_db_ has it, read from SQL if need be. *)
OnChangeServer(m, c, to) ==
    /\ cached' = IF cached = NoVersion THEN stored ELSE cached
    /\ ToMaps(MailTo(m, <<[t |-> "changeAck", c |-> c, ok |-> charHasMap[to], to |-> to]>>))
    /\ IF charHasMap[to]
       THEN /\ charNode' = [client |-> c, char |-> TRUE]
            /\ online' = [Entry EXCEPT !.char = TRUE, !.server = to]
       ELSE UNCHANGED <<charNode, online>>
    /\ UNCHANGED <<stored, toLogin>>

(* 0x2b26 *)
OnMapAuth(m, c) ==
    /\ cached' = IF cached = NoVersion THEN stored ELSE cached
    /\ \/ /\ charNode = [client |-> c, char |-> TRUE]
          /\ charNode' = NoNode
          /\ set_char_online(m)
          /\ ToMaps(Both(MailTo(m, <<[t |-> "authOk", c |-> c, ver |-> cached']>>),
                         ConflictKick(m)))
       \/ /\ charNode # [client |-> c, char |-> TRUE]
          /\ ToMaps(MailTo(m, <<[t |-> "authFail", c |-> c]>>))
          /\ UNCHANGED <<charNode, online, toLogin>>
    /\ UNCHANGED stored

(* 0x2aff: who is playing on m, sent when m's link comes up. *)
OnMapUsers(m, playing) ==
    LET unknown == [online EXCEPT !.server = IF @ = m THEN "unknown" ELSE @] IN
    /\ IF playing
       THEN /\ online' = [Entry EXCEPT !.char = TRUE, !.server = m]
            /\ ToMaps(IF online.server # m THEN Kick(online.server) ELSE NoMail)
       ELSE online' = unknown /\ UNCHANGED toMap
    /\ UNCHANGED <<charNode, stored, cached, toLogin>>

parse_frommap(m) ==
    /\ charHasMap[m]
    /\ fromMap[m] # <<>>
    /\ LET msg == Head(fromMap[m]) IN
       \/ msg.t = "save" /\ OnSave(m, msg.ver, msg.final)
       \/ msg.t = "select" /\ OnCharSelect(m, msg.c)
       \/ msg.t = "change" /\ OnChangeServer(m, msg.c, msg.to)
       \/ msg.t = "auth" /\ OnMapAuth(m, msg.c)
       \/ msg.t = "users" /\ OnMapUsers(m, msg.playing)
       \/ /\ msg.t = "offline"                                    \* 0x2b17
          /\ set_char_offline(online, FALSE)
          /\ UNCHANGED <<charNode, stored, toMap>>
       \/ /\ msg.t = "regs"                                       \* 0x3005
          /\ ToMaps(MailTo(m, <<[t |-> "regs"]>>))
          /\ UNCHANGED <<charNode, online, stored, cached, toLogin>>
    /\ fromMap' = [fromMap EXCEPT ![m] = Tail(@)]
    /\ UNCHANGED <<charSession, charEof, charHasMap, charHasLogin, client, fromLogin, wireVars>>

(* The eof branch: the account may be on a server that is not connected. *)
mapif_server_reset_nobody(m) == online   \* a mistake the runs must notice
mapif_server_reset(m) == [online EXCEPT !.server = IF @ = m THEN "unknown" ELSE @]

mapif_on_disconnect(m) ==
    /\ charHasMap[m] /\ ~mapWire[m]
    /\ charHasMap' = [charHasMap EXCEPT ![m] = FALSE]
    /\ online' = mapif_server_reset(m)
    /\ UNCHANGED <<charNode, charSession, charEof, stored, cached, charHasLogin,
                   client, queueVars, wireVars>>

----------------------------------------------------------------------------
(* Timers. *)

(* 20 s or 30 s after a kick was asked for. *)
chardb_waiting_disconnect ==
    /\ online.timer
    /\ set_char_offline(online, ~online.char)
    /\ UNCHANGED <<charNode, charSession, charEof, stored, charHasMap, charHasLogin,
                   client, fromLogin, fromMap, toMap, wireVars>>

(* every 600 s *)
char_online_data_cleanup ==
    /\ online.known /\ online.fd = NoOne /\ online.server \notin Maps
    /\ IF online.server = "unknown"
       THEN /\ cached' = IF online.char THEN NoVersion ELSE cached
            /\ ToLogin(<<[t |-> "offline"]>>)
       ELSE UNCHANGED <<cached, toLogin>>
    /\ online' = NoEntry
    /\ UNCHANGED <<charNode, charSession, charEof, stored, charHasMap, charHasLogin,
                   client, fromLogin, fromMap, toMap, wireVars>>
=============================================================================
