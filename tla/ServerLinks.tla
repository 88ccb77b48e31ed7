---------------------------- MODULE ServerLinks ----------------------------
(***************************************************************************)
(* What the three server programs of eAthena share: one TCP link between   *)
(* the char server and the login server, one between the char server and   *)
(* each map server, and the game clients that go from one to the next.     *)
(*                                                                         *)
(* The tables of the three programs are keyed by account, and no handler   *)
(* modelled here touches two accounts, so the model follows ONE account    *)
(* with one character.  A "client" is one login attempt for that account:  *)
(* the random login_id1/login_id2 pair drawn by mmo_auth is represented    *)
(* by the client it was drawn for.                                         *)
(*                                                                         *)
(* A link is a FIFO while its wire is up.  When the wire is cut, what is   *)
(* in flight is lost, and each end finds out in a step of its own (the     *)
(* eof branch of parse_fromchar, parse_fromlogin, parse_frommap and        *)
(* chrif_parse); what an end sends before it has found out is lost too.    *)
(***************************************************************************)
EXTENDS Naturals, Sequences, FiniteSets

CONSTANTS Clients,  \* login attempts for the account
          Maps,     \* map servers
          NoOne,    \* no client, no map server
          NoVersion, \* no copy of the character
          AccountId \* the account's number, as sent on the wire

ASSUME NoOneAssumption == NoOne \notin Clients \cup Maps
ASSUME NoVersionAssumption == NoVersion \notin Nat
ASSUME AccountIdAssumption == AccountId \in Nat

VARIABLES
    client,     \* where each client is: see ClientPlace
    toLogin,    \* char -> login
    fromLogin,  \* login -> char
    fromMap,    \* map m -> char
    toMap,      \* char -> map m
    loginWire,  \* is the char-login connection intact?
    mapWire     \* is the char-map connection of m intact?

queueVars == <<toLogin, fromLogin, fromMap, toMap>>
wireVars  == <<loginWire, mapWire>>

(* home   : has not logged in           ticket : holds login ids, goes to the char server
   char   : connected to the char server  ready  : was told to go to map server m
   map    : connected to map server m     gone   : refused, kicked or left                *)
ClientPlace ==
    [at : {"home", "ticket", "char", "gone"}, m : {NoOne}] \cup [at : {"ready", "map"}, m : Maps]

Home      == [at |-> "home",   m |-> NoOne]
Ticket    == [at |-> "ticket", m |-> NoOne]
AtChar    == [at |-> "char",   m |-> NoOne]
Gone      == [at |-> "gone",   m |-> NoOne]
ReadyFor(m) == [at |-> "ready", m |-> m]
AtMap(m)    == [at |-> "map",   m |-> m]

(* The client learns that its connection to the server it is at was refused or closed. *)
Refuse(c, place) == client' = [client EXCEPT ![c] = IF @ = place THEN Gone ELSE @]

NoMail == [m \in Maps |-> <<>>]
MailTo(m, msgs) == [NoMail EXCEPT ![m] = msgs]

LinksInit ==
    /\ toLogin = <<>> /\ fromLogin = <<>>
    /\ fromMap = NoMail /\ toMap = NoMail
    /\ loginWire = TRUE
    /\ mapWire = [m \in Maps |-> TRUE]

CutLoginWire ==
    /\ loginWire
    /\ loginWire' = FALSE
    /\ toLogin' = <<>> /\ fromLogin' = <<>>
    /\ UNCHANGED <<client, fromMap, toMap, mapWire>>

CutMapWire(m) ==
    /\ mapWire[m]
    /\ mapWire' = [mapWire EXCEPT ![m] = FALSE]
    /\ fromMap' = [fromMap EXCEPT ![m] = <<>>]
    /\ toMap' = [toMap EXCEPT ![m] = <<>>]
    /\ UNCHANGED <<client, toLogin, fromLogin, loginWire>>
=============================================================================
