---------------------------- MODULE LoginServer ----------------------------
(***************************************************************************)
(* The login server's view of the account (src/src/login/login.c): the     *)
(* one-use auth node that a successful login leaves for the char server,   *)
(* and the entry of online_db that stops a second login.                   *)
(***************************************************************************)
EXTENDS ServerLinks

VARIABLES
    loginNode,    \* auth_db: the client whose login ids the node holds, or NoOne
    loginServer,  \* online_db: "absent", or char_server of the entry:
                  \*   -1 "authed", -2 "unknown", the char server's slot "char"
    loginTimer,   \* online_db: waiting_disconnect is running
    loginHasChar  \* server[].fd of the char server is valid

loginVars == <<loginNode, loginServer, loginTimer, loginHasChar>>

LoginTypeOK ==
    /\ loginNode \in Clients \cup {NoOne}
    /\ loginServer \in {"absent", "authed", "unknown", "char"}
    /\ loginTimer \in BOOLEAN
    /\ loginHasChar \in BOOLEAN

LoginInit ==
    /\ loginNode = NoOne
    /\ loginServer = "absent"
    /\ loginTimer = FALSE
    /\ loginHasChar = TRUE

----------------------------------------------------------------------------
(* The login server only writes to the char server's link. *)
ToChar(msgs) == fromLogin' = IF loginHasChar /\ loginWire THEN fromLogin \o msgs ELSE fromLogin

add_online_user(server) == loginServer' = server /\ loginTimer' = FALSE
remove_online_user == loginServer' = "absent" /\ loginTimer' = FALSE

(* A correct password while the account counts as playing: no session, the char
   servers are asked to kick, and a 30 s timer starts unless one runs.  *)
RefuseLogin(c) ==
    /\ loginServer = "char"
    /\ ToChar(<<[t |-> "kick"]>>)
    /\ loginTimer' = TRUE
    /\ client' = [client EXCEPT ![c] = Gone]
    /\ UNCHANGED <<loginNode, loginServer>>

(* Otherwise the previous node is replaced, whoever left it, and its entry with it. *)
AcceptLogin(c) ==
    /\ loginServer # "char"
    /\ loginNode' = c
    /\ loginServer' = "authed"
    /\ loginTimer' = TRUE
    /\ client' = [client EXCEPT ![c] = Ticket]
    /\ UNCHANGED fromLogin

login_auth_ok(c) ==
    /\ client[c] = Home
    /\ \/ /\ ~loginHasChar
          /\ client' = [client EXCEPT ![c] = Gone]
          /\ UNCHANGED <<fromLogin, loginNode, loginServer, loginTimer>>
       \/ loginHasChar /\ RefuseLogin(c)
       \/ loginHasChar /\ AcceptLogin(c)
    /\ UNCHANGED <<loginHasChar, toLogin, fromMap, toMap, wireVars>>

----------------------------------------------------------------------------
(* parse_fromchar: the packets of the char server, in order. *)

(* 0x2712: the node of this very client answers once. *)
OnAuthRequest(c) ==
    /\ ToChar(<<[t |-> "authAck", c |-> c, ok |-> loginNode = c]>>)
    /\ loginNode' = IF loginNode = c THEN NoOne ELSE loginNode
    /\ UNCHANGED <<loginServer, loginTimer>>

(* 0x272d.  The sender (send_accounts_tologin) puts a 32-bit count at byte 4 and
   the account ids from byte 8; this reader takes a 16-bit count at byte 4 and
   the ids from byte 6.  In 16-bit words, with the count at word 1, the k-th id
   read is made of words 2k and 2k+1.  *)
WordsOf(id) == <<id % 65536, id \div 65536>>   \* little-endian

IdsRead(words) == {<<words[2 * k], words[2 * k + 1]>> : k \in 1 .. words[1]}

online_db_setoffline == IF loginServer = "char" THEN "unknown" ELSE loginServer

OnAccountList(words) ==
    /\ IF WordsOf(AccountId) \in IdsRead(words)
       THEN add_online_user("char")
       ELSE loginServer' = online_db_setoffline /\ UNCHANGED loginTimer
    /\ UNCHANGED <<loginNode, fromLogin>>

parse_fromchar ==
    /\ loginHasChar
    /\ toLogin # <<>>
    /\ LET msg == Head(toLogin) IN
       \/ msg.t = "auth" /\ OnAuthRequest(msg.c)
       \/ msg.t = "online" /\ add_online_user("char") /\ UNCHANGED <<loginNode, fromLogin>>
       \/ msg.t = "offline" /\ remove_online_user /\ UNCHANGED <<loginNode, fromLogin>>
       \/ msg.t = "list" /\ OnAccountList(msg.words)
    /\ toLogin' = Tail(toLogin)
    /\ UNCHANGED <<client, loginHasChar, fromMap, toMap, wireVars>>

(* The eof branch: every account of that char server is on an unknown server. *)
login_chrif_on_disconnect ==
    /\ loginHasChar /\ ~loginWire
    /\ loginHasChar' = FALSE
    /\ loginServer' = online_db_setoffline
    /\ UNCHANGED <<loginNode, loginTimer, client, queueVars, wireVars>>

----------------------------------------------------------------------------
(* AUTH_TIMEOUT, 30 s *)
waiting_disconnect_timer ==
    /\ loginTimer
    /\ remove_online_user
    /\ loginNode' = NoOne
    /\ UNCHANGED <<loginHasChar, client, queueVars, wireVars>>

(* every 600 s *)
login_online_data_cleanup ==
    /\ loginServer = "unknown"
    /\ remove_online_user
    /\ UNCHANGED <<loginNode, loginHasChar, client, queueVars, wireVars>>
=============================================================================
