----------------------------- MODULE MapServer -----------------------------
(***************************************************************************)
(* Each map server's view of the account: the player in its world, the     *)
(* node of auth_db (src/src/map/chrif.c) that covers the player's arrival, *)
(* departure and change of map server, and the clients' sockets.           *)
(***************************************************************************)
EXTENDS ServerLinks

VARIABLES
    player,     \* map_id2sd: the active player of the account on m
    authdb,     \* chrif auth_db: the node of the account on m
    socket,     \* per m and client: "none", "bare", or "sd" (session_data is set)
    mapEof,     \* per m: clients whose socket is closed but not yet parsed
    mapHasChar, \* chrif_isconnected()
    tip         \* history: the newest version the character ever had in a world

mapVars == <<player, authdb, socket, mapEof, mapHasChar, tip>>

(* link: "on" the client's socket; sd->fd = 0: "delayed" clif_delayquit is
   scheduled, "auto" the player is an autotrader. *)
NoPlayer == [client |-> NoOne, ver |-> NoVersion, link |-> "on"]
Players == [client : Clients, ver : Nat, link : {"on", "delayed", "auto"}]

(* state: ST_LOGIN as "login" and, once chrif_authok has filled in the character,
   "loaded"; ST_LOGOUT; ST_MAPCHANGE, on the way to server to. *)
NoNodeHere == [state |-> "none", client |-> NoOne, ver |-> NoVersion, to |-> NoOne]
Nodes == [state : {"login", "loaded", "logout", "mapchange"}, client : Clients,
          ver : Nat \cup {NoVersion}, to : Maps \cup {NoOne}]

Playing(m) == player[m] # NoPlayer
ST_LOGIN == {"login", "loaded"}

MapTypeOK ==
    /\ player \in [Maps -> Players \cup {NoPlayer}]
    /\ authdb \in [Maps -> Nodes \cup {NoNodeHere}]
    /\ socket \in [Maps -> [Clients -> {"none", "bare", "sd"}]]
    /\ mapEof \in [Maps -> SUBSET Clients]
    /\ \A m \in Maps : mapEof[m] \subseteq {c \in Clients : socket[m][c] # "none"}
    /\ mapHasChar \in [Maps -> BOOLEAN]
    /\ tip \in Nat

MapInit ==
    /\ player = [m \in Maps |-> NoPlayer]
    /\ authdb = [m \in Maps |-> NoNodeHere]
    /\ socket = [m \in Maps |-> [c \in Clients |-> "none"]]
    /\ mapEof = [m \in Maps |-> {}]
    /\ mapHasChar = [m \in Maps |-> TRUE]
    /\ tip = 0

----------------------------------------------------------------------------
ToCharFrom(m, msgs) ==
    fromMap' = IF mapHasChar[m] /\ mapWire[m]
               THEN [fromMap EXCEPT ![m] = @ \o msgs] ELSE fromMap

SetNode(m, node) == authdb' = [authdb EXCEPT ![m] = node]
SetPlayer(m, p) == player' = [player EXCEPT ![m] = p]
MarkEof(m, c) == mapEof' = [mapEof EXCEPT ![m] = @ \cup {c}]

(* Fails when the account has a node. *)
chrif_sd_to_auth(m, node) == SetNode(m, IF authdb[m] = NoNodeHere THEN node ELSE authdb[m])

(* clif_authfail_fd: a refusal, and set_eof on the socket. *)
clif_authfail_fd(m, c) == Refuse(c, AtMap(m)) /\ MarkEof(m, c)

(* chrif_auth_delete: the node goes, and the session loses its sd. *)
Unhooked(m) ==
    LET c == authdb[m].client IN
    [socket EXCEPT ![m] = [x \in Clients |-> IF x = c /\ @[x] = "sd" THEN "bare" ELSE @[x]]]
WithoutLoginNode(m) ==   \* a mistake the runs must notice
    [authdb EXCEPT ![m] = IF @.state \in ST_LOGIN THEN NoNodeHere ELSE @]
WithoutNode(m) == [authdb EXCEPT ![m] = NoNodeHere]
chrif_auth_delete(m) == authdb' = WithoutNode(m) /\ socket' = Unhooked(m)

SaveMsg(ver, final) == [t |-> "save", ver |-> ver, final |-> final]

(* map_quit of an active player: the node that waits for the save ack, the final
   save, and the player leaves the world. *)
map_quit_active(m) ==
    LET p == player[m] IN
    /\ chrif_sd_to_auth(m, [state |-> "logout", client |-> p.client, ver |-> p.ver, to |-> NoOne])
    /\ ToCharFrom(m, <<SaveMsg(p.ver, TRUE)>>)
    /\ SetPlayer(m, NoPlayer)

----------------------------------------------------------------------------
(* The clients' side: clif.c. *)

(* "Still recognizes last connection": a player, or a node that is not for a login. *)
LeavingHere(m) == authdb[m].state \in {"logout", "mapchange"}   \* a mistake the runs must notice
StillRecognized(m) == Playing(m) \/ authdb[m].state \in {"logout", "mapchange"}

(* clif_parse_WantToConnection, with chrif_authreq. *)
WantToConnection(m, c) ==
    /\ client[c] = ReadyFor(m)
    /\ socket[m][c] = "none"
    /\ \/ /\ StillRecognized(m)
          /\ client' = [client EXCEPT ![c] = Gone]
          /\ MarkEof(m, c)
          /\ socket' = [socket EXCEPT ![m][c] = "bare"]
          /\ UNCHANGED <<authdb, fromMap>>
       \/ /\ ~StillRecognized(m) /\ authdb[m].state \in ST_LOGIN     \* chrif_authreq: set_eof
          /\ client' = [client EXCEPT ![c] = Gone]
          /\ MarkEof(m, c)
          /\ socket' = [socket EXCEPT ![m][c] = "sd"]
          /\ UNCHANGED <<authdb, fromMap>>
       \/ /\ ~StillRecognized(m) /\ authdb[m] = NoNodeHere
          /\ client' = [client EXCEPT ![c] = AtMap(m)]
          /\ socket' = [socket EXCEPT ![m][c] = "sd"]
          /\ IF mapHasChar[m]
             THEN chrif_sd_to_auth(m, [NoNodeHere EXCEPT !.state = "login", !.client = c])
             ELSE UNCHANGED authdb
          /\ ToCharFrom(m, <<[t |-> "auth", c |-> c]>>)
          /\ UNCHANGED mapEof
    /\ UNCHANGED <<player, mapHasChar, tip, toLogin, fromLogin, toMap, wireVars>>

(* The eof branch of clif_parse. *)
clif_parse_eof(m, c) ==
    /\ c \in mapEof[m]
    /\ mapEof' = [mapEof EXCEPT ![m] = @ \ {c}]
    /\ LET mine == Playing(m) /\ player[m].client = c /\ player[m].link = "on"
           closed == [socket EXCEPT ![m][c] = "none"] IN
       \/ /\ socket[m][c] = "sd" /\ mine              \* clif_quitsave: now ...
          /\ socket' = closed
          /\ map_quit_active(m)
       \/ /\ socket[m][c] = "sd" /\ mine              \* ... or in 10 s; or an autotrader stays
          /\ socket' = closed
          /\ \E link \in {"delayed", "auto"} : SetPlayer(m, [player[m] EXCEPT !.link = link])
          /\ UNCHANGED <<authdb, fromMap>>
       \/ /\ socket[m][c] = "sd" /\ ~mine             \* map_quit of an inactive sd
          /\ authdb[m].state \notin {"none", "logout"}
          /\ authdb' = WithoutNode(m)
          /\ socket' = [Unhooked(m) EXCEPT ![m][c] = "none"]
          /\ UNCHANGED <<player, fromMap>>
       \/ /\ socket[m][c] = "bare" \/ (~mine /\ authdb[m].state \in {"none", "logout"})
          /\ socket' = closed
          /\ UNCHANGED <<player, authdb, fromMap>>
    /\ UNCHANGED <<mapHasChar, tip, client, toLogin, fromLogin, toMap, wireVars>>

(* clif_delayquit *)
clif_delayquit(m) ==
    /\ Playing(m) /\ player[m].link = "delayed"
    /\ map_quit_active(m)
    /\ UNCHANGED <<socket, mapEof, mapHasChar, tip, client, toLogin, fromLogin, toMap, wireVars>>

(* The character changes: whatever a player does that a save would store. *)
Play(m) ==
    /\ Playing(m)
    /\ tip' = tip + 1
    /\ SetPlayer(m, [player[m] EXCEPT !.ver = tip + 1])
    /\ UNCHANGED <<authdb, socket, mapEof, mapHasChar, client, queueVars, wireVars>>

(* pc_autosave: chrif_save(sd, 0) *)
pc_autosave(m) ==
    /\ Playing(m) /\ mapHasChar[m]
    /\ ToCharFrom(m, <<SaveMsg(player[m].ver, FALSE)>>)
    /\ UNCHANGED <<mapVars, client, toLogin, fromLogin, toMap, wireVars>>

(* clif_parse_Restart, type 1: chrif_charselectreq.  The player stays in the world. *)
chrif_charselectreq(m) ==
    /\ Playing(m) /\ player[m].link = "on" /\ client[player[m].client] = AtMap(m)
    /\ mapHasChar[m]
    /\ ToCharFrom(m, <<[t |-> "select", c |-> player[m].client]>>)
    /\ UNCHANGED <<mapVars, client, toLogin, fromLogin, toMap, wireVars>>

(* pc_setpos to a map of another server: chrif_save(sd, 2), chrif_changemapserver.
   The other servers' maps are only known while the char server is connected. *)
pc_setpos(m, to) ==
    /\ Playing(m) /\ player[m].link = "on" /\ mapHasChar[m] /\ to # m
    /\ LET p == player[m] IN
       /\ chrif_sd_to_auth(m, [state |-> "mapchange", client |-> p.client, ver |-> p.ver, to |-> to])
       /\ ToCharFrom(m, <<SaveMsg(p.ver, FALSE), [t |-> "change", c |-> p.client, to |-> to]>>)
    /\ SetPlayer(m, NoPlayer)
    /\ UNCHANGED <<socket, mapEof, mapHasChar, tip, client, toLogin, fromLogin, toMap, wireVars>>

----------------------------------------------------------------------------
(* Packets of the char server: chrif_parse. *)

(* 0x2afd.  placed: pc_authok found a map of this server for the character. *)
chrif_authok(m, c, ver) ==
    \/ /\ ~Playing(m) /\ authdb[m].state \in ST_LOGIN /\ authdb[m].client = c
       /\ SetNode(m, [authdb[m] EXCEPT !.state = "loaded", !.ver = ver])
       /\ ToCharFrom(m, <<[t |-> "regs"]>>)
       /\ UNCHANGED <<client, socket, mapEof>>
    \/ /\ ~Playing(m) /\ authdb[m].state \in ST_LOGIN      \* pc_authok or the check failed
       /\ clif_authfail_fd(m, authdb[m].client)
       /\ ToCharFrom(m, <<[t |-> "offline"]>>)
       /\ chrif_auth_delete(m)
    \/ /\ Playing(m) \/ authdb[m].state \notin ST_LOGIN
       /\ UNCHANGED <<authdb, client, socket, mapEof, fromMap>>

(* 0x2b27 *)
chrif_authfail(m, c) ==
    \/ /\ authdb[m].state \in ST_LOGIN /\ authdb[m].client = c
       /\ clif_authfail_fd(m, c)
       /\ chrif_auth_delete(m)
    \/ /\ ~(authdb[m].state \in ST_LOGIN /\ authdb[m].client = c)
       /\ UNCHANGED <<authdb, client, socket, mapEof>>

(* 0x3804: the registries complete the login (pc_reg_received). *)
pc_reg_received(m) ==
    \/ /\ authdb[m].state = "loaded"
       /\ SetPlayer(m, [client |-> authdb[m].client, ver |-> authdb[m].ver, link |-> "on"])
       /\ SetNode(m, NoNodeHere)                           \* chrif_auth_finished
    \/ authdb[m].state # "loaded" /\ UNCHANGED <<player, authdb>>

(* 0x2b03, to the client of whichever player is here. *)
clif_charselectok_anyone(m) ==   \* a mistake the runs must notice
    LET c == player[m].client IN
    IF Playing(m)
    THEN client' = [client EXCEPT ![c] = IF @ = AtMap(m) THEN Ticket ELSE @] /\ MarkEof(m, c)
    ELSE UNCHANGED <<client, mapEof>>

clif_charselectok(m) ==
    LET c == player[m].client IN
    IF Playing(m) /\ player[m].link = "on" /\ client[c] = AtMap(m)
    THEN client' = [client EXCEPT ![c] = Ticket] /\ MarkEof(m, c)
    ELSE UNCHANGED <<client, mapEof>>

(* 0x2b06 *)
chrif_changemapserverack(m, ok, to) ==
    LET c == authdb[m].client IN
    \/ /\ authdb[m].state = "mapchange"
       /\ client' = [client EXCEPT ![c] = IF @ # AtMap(m) THEN @
                                          ELSE IF ok THEN ReadyFor(to) ELSE Gone]
       /\ MarkEof(m, c)
       /\ chrif_auth_delete(m)
    \/ authdb[m].state # "mapchange" /\ UNCHANGED <<client, authdb, socket, mapEof>>

(* 0x2b1f *)
chrif_disconnectplayer_deaf(m) ==   \* a mistake the runs must notice
    \/ /\ ~Playing(m) /\ authdb[m].state \in ST_LOGIN
       /\ chrif_auth_delete(m)
       /\ UNCHANGED <<player, client, mapEof, fromMap>>
    \/ /\ Playing(m) \/ authdb[m].state \notin ST_LOGIN
       /\ UNCHANGED <<player, authdb, client, socket, mapEof, fromMap>>

chrif_disconnectplayer(m) ==
    \/ /\ ~Playing(m) /\ authdb[m].state \in ST_LOGIN      \* the client is not told
       /\ chrif_auth_delete(m)
       /\ UNCHANGED <<player, client, mapEof, fromMap>>
    \/ /\ Playing(m) /\ player[m].link = "on"
       /\ clif_authfail_fd(m, player[m].client)
       /\ UNCHANGED <<player, authdb, socket, fromMap>>
    \/ /\ Playing(m) /\ player[m].link = "auto"
       /\ map_quit_active(m)
       /\ UNCHANGED <<client, socket, mapEof>>
    \/ /\ \/ Playing(m) /\ player[m].link = "delayed"
          \/ ~Playing(m) /\ authdb[m].state \notin ST_LOGIN
       /\ UNCHANGED <<player, authdb, client, socket, mapEof, fromMap>>

(* 0x2b21 *)
chrif_save_ack(m) ==
    IF authdb[m].state = "logout" THEN SetNode(m, NoNodeHere) ELSE UNCHANGED authdb

chrif_parse(m) ==
    /\ mapHasChar[m]
    /\ toMap[m] # <<>>
    /\ LET msg == Head(toMap[m]) IN
       \/ msg.t = "authOk" /\ chrif_authok(m, msg.c, msg.ver) /\ UNCHANGED player
       \/ msg.t = "authFail" /\ chrif_authfail(m, msg.c) /\ UNCHANGED <<player, fromMap>>
       \/ msg.t = "regs" /\ pc_reg_received(m) /\ UNCHANGED <<client, socket, mapEof, fromMap>>
       \/ msg.t = "selectOk" /\ clif_charselectok(m) /\ UNCHANGED <<player, authdb, socket, fromMap>>
       \/ /\ msg.t = "changeAck"
          /\ chrif_changemapserverack(m, msg.ok, msg.to)
          /\ UNCHANGED <<player, fromMap>>
       \/ msg.t = "kick" /\ chrif_disconnectplayer(m)
       \/ /\ msg.t = "saveAck"
          /\ chrif_save_ack(m)
          /\ UNCHANGED <<player, client, socket, mapEof, fromMap>>
    /\ toMap' = [toMap EXCEPT ![m] = Tail(@)]
    /\ UNCHANGED <<mapHasChar, tip, toLogin, fromLogin, wireVars>>

----------------------------------------------------------------------------
(* auth_db_cleanup: a node 60 s old. *)
auth_db_cleanup(m) ==
    /\ mapHasChar[m]
    /\ \/ /\ authdb[m].state = "logout"                    \* re-save attempt
          /\ ToCharFrom(m, <<SaveMsg(authdb[m].ver, TRUE)>>)
          /\ UNCHANGED <<authdb, socket>>
       \/ /\ authdb[m].state \in ST_LOGIN \cup {"mapchange"}
          /\ ToCharFrom(m, <<[t |-> "offline"]>>)
          /\ chrif_auth_delete(m)
    /\ UNCHANGED <<player, mapEof, mapHasChar, tip, client, toLogin, fromLogin, toMap, wireVars>>

(* The eof branch of chrif_parse. *)
chrif_on_disconnect(m) ==
    /\ mapHasChar[m] /\ ~mapWire[m]
    /\ mapHasChar' = [mapHasChar EXCEPT ![m] = FALSE]
    /\ UNCHANGED <<player, authdb, socket, mapEof, tip, client, queueVars, wireVars>>

(* chrif_on_ready on a new link: who is playing, then chrif_reconnect on the node.
   A login under way fails; a final save is sent again; a change of map server is
   sent again if the target's maps are already known again, and fails if not. *)
OnReady(m, msgs) == fromMap' = [fromMap EXCEPT ![m] = msgs]

chrif_on_ready(m) ==
    LET n == authdb[m]
        users == [t |-> "users", playing |-> Playing(m)]
    IN  \/ /\ n.state = "none"
           /\ OnReady(m, <<users>>)
           /\ UNCHANGED <<authdb, client, socket, mapEof>>
        \/ /\ n.state \in ST_LOGIN
           /\ OnReady(m, <<users, [t |-> "offline"]>>)
           /\ clif_authfail_fd(m, n.client)
           /\ chrif_auth_delete(m)
        \/ /\ n.state = "logout"
           /\ OnReady(m, <<users, SaveMsg(n.ver, TRUE)>>)
           /\ UNCHANGED <<authdb, client, socket, mapEof>>
        \/ /\ n.state = "mapchange"
           /\ OnReady(m, <<users, [t |-> "change", c |-> n.client, to |-> n.to]>>)
           /\ UNCHANGED <<authdb, client, socket, mapEof>>
        \/ /\ n.state = "mapchange"
           /\ OnReady(m, <<users>>)
           /\ clif_authfail_fd(m, n.client)
           /\ UNCHANGED <<authdb, socket>>
=============================================================================
