------------------------------- MODULE Handoff -------------------------------
(***************************************************************************)
(* The login server, the char server and the map servers together, moving  *)
(* one account's clients from one to the next.                             *)
(*                                                                         *)
(* Every handler is one atomic action: each program is a single thread     *)
(* that runs its parse functions and timers to the end.  What interleaves  *)
(* is the programs, the messages in flight, the timers, the players and    *)
(* the failing connections.                                                *)
(*                                                                         *)
(* Assumed: a char server and a map server keep their slot number when     *)
(* they reconnect; a client's old socket to a server is reaped before the  *)
(* same client connects to it again.                                       *)
(***************************************************************************)
EXTENDS LoginServer, CharServer, MapServer

CONSTANTS MaxLoginCuts, \* bound: failures of the char-login connection
          MaxMapCuts,   \* bound: failures of char-map connections
          Hourly,    \* does the hour of send_accounts_tologin pass (while one client is about)?
          MaxVer,    \* bound: versions of the character
          LoginWindow, \* bound: messages on the login link when a client or a timer starts something
          MapWindow,   \* bound: messages on each map link when a map server starts something
          Prompt     \* timers of 20 s and more only run out when nothing is under way

ASSUME BoundsAssumption ==
    MaxLoginCuts \in Nat /\ MaxMapCuts \in Nat /\ MaxVer \in Nat /\ LoginWindow \in Nat /\ MapWindow \in Nat
ASSUME SwitchAssumption == Prompt \in BOOLEAN /\ Hourly \in BOOLEAN

VARIABLE cuts   \* history: how often each kind of connection failed so far

vars == <<loginVars, charVars, mapVars, client, queueVars, wireVars, cuts>>

LoginRoom == Len(toLogin) + Len(fromLogin) < LoginWindow
MapRoom == LoginRoom /\ \A m \in Maps : Len(fromMap[m]) + Len(toMap[m]) < MapWindow

NothingUnderWay ==
    /\ toLogin = <<>> /\ fromLogin = <<>> /\ charEof = {}
    /\ \A m \in Maps :
          fromMap[m] = <<>> /\ toMap[m] = <<>> /\ mapEof[m] = {} /\ player[m].link # "delayed"
Timeout == Prompt => NothingUnderWay
OneAbout == \A c, d \in Clients : client[c] # Gone /\ client[d] # Gone => c = d

TypeOK ==
    /\ client \in [Clients -> ClientPlace]
    /\ LoginTypeOK /\ CharTypeOK /\ MapTypeOK
    /\ cuts \in [login : 0 .. MaxLoginCuts, map : 0 .. MaxMapCuts]

ServersInit == LinksInit /\ LoginInit /\ CharInit /\ MapInit
Init == ServersInit /\ client = [c \in Clients |-> Home] /\ cuts = [login |-> 0, map |-> 0]

----------------------------------------------------------------------------
LoginOnly == UNCHANGED <<charVars, mapVars, cuts>>
CharOnly  == UNCHANGED <<loginVars, mapVars, cuts>>
MapOnly   == UNCHANGED <<loginVars, charVars, cuts>>

LoginNext ==
    /\ \/ \E c \in Clients : LoginRoom /\ login_auth_ok(c)
       \/ parse_fromchar
       \/ login_chrif_on_disconnect
       \/ Timeout /\ waiting_disconnect_timer
       \/ Timeout /\ login_online_data_cleanup
    /\ LoginOnly

CharNext ==
    /\ \/ \E c \in Clients : LoginRoom /\ EnterChar(c)
       \/ \E c \in Clients, m \in Maps : LoginRoom /\ SelectChar(c, m)
       \/ \E c \in Clients : SelectNowhere(c)
       \/ \E c \in Clients : parse_char_eof(c)
       \/ parse_fromlogin
       \/ loginif_on_disconnect
       \/ Hourly /\ OneAbout /\ LoginRoom /\ send_accounts_tologin
       \/ \E m \in Maps : parse_frommap(m)
       \/ \E m \in Maps : mapif_on_disconnect(m)
       \/ Timeout /\ chardb_waiting_disconnect
       \/ Timeout /\ char_online_data_cleanup
    /\ CharOnly

MapStep(m) ==
    \/ \E c \in Clients :
          /\ MapRoom \/ Playing(m) \/ authdb[m] # NoNodeHere
          /\ WantToConnection(m, c)
    \/ \E c \in Clients : clif_parse_eof(m, c)
    \/ clif_delayquit(m)
    \/ tip < MaxVer /\ Play(m)
    \/ MapRoom /\ pc_autosave(m)
    \/ MapRoom /\ chrif_charselectreq(m)
    \/ \E to \in Maps : MapRoom /\ pc_setpos(m, to)
    \/ chrif_parse(m)
    \/ MapRoom /\ Timeout /\ auth_db_cleanup(m)
    \/ chrif_on_disconnect(m)

MapNext == (\E m \in Maps : MapStep(m)) /\ MapOnly

(* A client leaves, or its connection fails; the server's parse function sees the eof. *)
ClientDrop(c) ==
    /\ client[c] \notin {Home, Gone}
    /\ client' = [client EXCEPT ![c] = Gone]
    /\ charEof' = IF client[c] = AtChar THEN charEof \cup {c} ELSE charEof
    /\ mapEof' = [m \in Maps |-> IF client[c] = AtMap(m) THEN mapEof[m] \cup {c} ELSE mapEof[m]]
    /\ UNCHANGED <<loginVars, charNode, online, charSession, stored, cached, charHasMap,
                   charHasLogin, player, authdb, socket, mapHasChar, tip, queueVars, wireVars, cuts>>

----------------------------------------------------------------------------
(* The links. *)
Cut ==
    /\ \/ /\ cuts.login < MaxLoginCuts
          /\ cuts' = [cuts EXCEPT !.login = @ + 1]
          /\ CutLoginWire
       \/ /\ cuts.map < MaxMapCuts
          /\ cuts' = [cuts EXCEPT !.map = @ + 1]
          /\ \E m \in Maps : CutMapWire(m)
    /\ UNCHANGED <<loginVars, charVars, mapVars>>

(* check_connect_login_server: connects, and loginif_on_ready sends the accounts. *)
ReconnectLogin ==
    /\ ~loginWire /\ ~charHasLogin /\ ~loginHasChar
    /\ loginWire' = TRUE /\ charHasLogin' = TRUE /\ loginHasChar' = TRUE
    /\ toLogin' = <<AccountList>>
    /\ UNCHANGED <<loginNode, loginServer, loginTimer, charNode, online, charSession, charEof, stored,
                   cached, charHasMap, mapVars, client, fromLogin, fromMap, toMap, mapWire, cuts>>

(* check_connect_char_server: connects, exchanges maps, and chrif_on_ready runs. *)
ReconnectMap(m) ==
    /\ ~mapWire[m] /\ ~charHasMap[m] /\ ~mapHasChar[m]
    /\ mapWire' = [mapWire EXCEPT ![m] = TRUE]
    /\ charHasMap' = [charHasMap EXCEPT ![m] = TRUE]
    /\ mapHasChar' = [mapHasChar EXCEPT ![m] = TRUE]
    /\ chrif_on_ready(m)
    /\ UNCHANGED <<loginVars, charNode, online, charSession, charEof, stored, cached, charHasLogin,
                   player, tip, toLogin, fromLogin, toMap, loginWire, cuts>>

----------------------------------------------------------------------------
Next ==
    \/ LoginNext
    \/ CharNext
    \/ MapNext
    \/ \E c \in Clients : ClientDrop(c)
    \/ Cut
    \/ ReconnectLogin
    \/ \E m \in Maps : ReconnectMap(m)

Spec == Init /\ [][Next]_vars

(* Each program keeps running: its loop reads every socket and runs every timer, and
   retries its connections.  Nothing is assumed of the clients or of a player. *)
LoginFairness ==
    /\ WF_vars(parse_fromchar /\ LoginOnly)
    /\ WF_vars(login_chrif_on_disconnect /\ LoginOnly)
    /\ WF_vars(Timeout /\ waiting_disconnect_timer /\ LoginOnly)
    /\ WF_vars(Timeout /\ login_online_data_cleanup /\ LoginOnly)

CharFairness ==
    /\ WF_vars(parse_fromlogin /\ CharOnly)
    /\ WF_vars(loginif_on_disconnect /\ CharOnly)
    /\ WF_vars(Timeout /\ chardb_waiting_disconnect /\ CharOnly)
    /\ WF_vars(Timeout /\ char_online_data_cleanup /\ CharOnly)
    /\ \A c \in Clients : WF_vars(parse_char_eof(c) /\ CharOnly)
    /\ \A m \in Maps : WF_vars(parse_frommap(m) /\ CharOnly) /\ WF_vars(mapif_on_disconnect(m) /\ CharOnly)
    /\ WF_vars(ReconnectLogin)

MapFairness(m) ==
    /\ WF_vars(chrif_parse(m) /\ MapOnly)
    /\ WF_vars(chrif_on_disconnect(m) /\ MapOnly)
    /\ WF_vars(MapRoom /\ Timeout /\ auth_db_cleanup(m) /\ MapOnly)
    /\ WF_vars(clif_delayquit(m) /\ MapOnly)
    /\ \A c \in Clients : WF_vars(clif_parse_eof(m, c) /\ MapOnly)
    /\ WF_vars(ReconnectMap(m))

FairSpec == Spec /\ LoginFairness /\ CharFairness /\ \A m \in Maps : MapFairness(m)

----------------------------------------------------------------------------
(* Properties. *)

(* The newest version of the character is in SQL, in a player, or in the node that
   keeps a player's data until the char server has acknowledged the save: whatever
   fails, nothing that was played is forgotten (chrif_save, chrif_save_ack,
   chrif_reconnect, auth_db_cleanup).  True of one map server only. *)
NothingLost ==
    \/ stored = tip
    \/ \E m \in Maps :
          \/ Playing(m) /\ player[m].ver = tip
          \/ authdb[m].state \in {"logout", "mapchange"} /\ authdb[m].ver = tip

(* With one map server, the three programs keep the ledger: a player enters the world
   with the newest version (never with the stale copy of char_db_ or of SQL), and no
   late, repeated or non-final save takes SQL back to an older one. *)
Ledger == INSTANCE CharacterLedger WITH
              Absent <- NoVersion,
              world  <- IF \E m \in Maps : Playing(m)
                        THEN player[CHOOSE m \in Maps : Playing(m)].ver ELSE NoVersion,
              latest <- tip,
              onDisk <- stored
KeepsLedger == Ledger!Spec

(* While an account has an active player it has no node, so that chrif_save can always
   set the player up for quitting: its "Failed to set up player for proper quitting!"
   is never reached. *)
QuitFindsNoNode == \A m \in Maps : Playing(m) => authdb[m] = NoNodeHere

(* When the timers are slower than everything else and nothing is under way, both
   other servers know of a player with a client: a second login is refused and the
   kick it asks for goes to the right map server.  True of one map server only. *)
PlayingIsKnown ==
    \A m \in Maps :
        NothingUnderWay /\ Playing(m) /\ player[m].link = "on"
        => online.server = m /\ loginServer = "char"

(* Neither the char server nor the login server believes the account to be on a server
   that it has lost: the kicks of char_auth_ok and of packet 0x2734 index server[] with
   a slot whose fd is valid, and a login is not refused for a char server's sake when
   that char server is gone. *)
NobodyOnLostServer ==
    /\ online.server \in Maps => charHasMap[online.server]
    /\ loginServer = "char" => loginHasChar

(* A character that has left a world gets to SQL, whatever connections fail. *)
QuitIsSaved ==
    \A m \in Maps, v \in 0 .. MaxVer :
        (authdb[m].state = "logout" /\ authdb[m].ver = v) ~> (stored >= v)

(* A refused login gets the player who is in the way out of the game, or at least off
   its socket: the kick is never swallowed by the player's own comings and goings. *)
RefusedLoginKicks ==
    \A m \in Maps, c \in Clients :
        (/\ fromLogin # <<>> /\ Head(fromLogin).t = "kick"
         /\ Playing(m) /\ player[m].client = c /\ player[m].link = "on")
        ~> (player[m].client # c \/ player[m].link # "on")

(* A player on the way to another map server does not stay in the node for ever. *)
MapChangeAnswered ==
    \A m \in Maps : (authdb[m].state = "mapchange") ~> (authdb[m].state # "mapchange")

(* login.c 832, "Receive list of all online accounts": an account on the list is online
   on that char server afterwards. *)
OnlineListKept ==
    [][(/\ loginHasChar /\ loginWire'
        /\ toLogin # <<>> /\ toLogin' = Tail(toLogin)
        /\ Head(toLogin).t = "list" /\ Head(toLogin).words[1] > 0)
       => loginServer' = "char"]_vars

(* chrif.c 439, "Player has been saved already, remove him from memory": when the char
   server answers a change of map server, what the node holds is in SQL. *)
MapChangeSaved ==
    \A m \in Maps :
        toMap[m] # <<>> /\ Head(toMap[m]).t = "changeAck" /\ authdb[m].state = "mapchange"
        => stored >= authdb[m].ver

(* char.c 4139, "Character still connected": the cleanup of online_char_db leaves the
   entry of an account alone while a session of it is choosing a character. *)
CleanupSparesConnected ==
    [][online.known /\ ~online'.known
       => \A c \in Clients : charSession[c] = "authed" => c \in charEof]_vars
=============================================================================
