------------------------------ MODULE InterLink ------------------------------
(***************************************************************************)
(* The connection over which the map servers share data that the char      *)
(* server keeps for all of them: packets 0x30xx to the char server         *)
(* (intif.c), 0x38xx back (the mapif_* functions of char_sql/int_*.c).     *)
(* First in, first out; a cut loses what is in flight, the map server      *)
(* finds out in a step of its own and connects again.                      *)
(***************************************************************************)
EXTENDS Naturals, Sequences, FiniteSets

CONSTANTS MapServers, \* the map servers
          MaxCuts,    \* how often the connections may fail, all together
          Window      \* bound: players start nothing new with that many packets on the link

ASSUME MaxCutsAssumption == MaxCuts \in Nat
ASSUME WindowAssumption == Window \in Nat \ {0}

VARIABLES toInter,   \* per map server: packets to the char server
          fromInter, \* per map server: packets of the char server
          wire,      \* per map server: is the connection intact?
          joined,    \* per map server: !CheckForCharServer()
          cuts       \* how many connections have failed

linkVars == <<toInter, fromInter, wire, joined, cuts>>
pipes == <<toInter, fromInter>>
ends  == <<wire, joined, cuts>>

LinkTypeOK ==
    /\ wire \in [MapServers -> BOOLEAN]
    /\ joined \in [MapServers -> BOOLEAN]
    /\ cuts \in 0 .. MaxCuts

LinkInit ==
    /\ toInter = [m \in MapServers |-> <<>>]
    /\ fromInter = [m \in MapServers |-> <<>>]
    /\ wire = [m \in MapServers |-> TRUE]
    /\ joined = [m \in MapServers |-> TRUE]
    /\ cuts = 0

Room(m) == Len(toInter[m]) + Len(fromInter[m]) < Window

(* intif_*: nothing is sent while CheckForCharServer(); a send on a dead wire is lost. *)
Sent(m, msgs) ==
    IF joined[m] /\ wire[m] THEN [toInter EXCEPT ![m] = @ \o msgs] ELSE toInter
Send(m, msgs) == toInter' = Sent(m, msgs)

(* WFIFOSET on the connection of one map server. *)
Reply(m, msgs) ==
    fromInter' = IF wire[m] THEN [fromInter EXCEPT ![m] = @ \o msgs] ELSE fromInter

(* mapif_sendall *)
ToAll(msgs) ==
    fromInter' = [m \in MapServers |-> IF wire[m] THEN fromInter[m] \o msgs ELSE fromInter[m]]

TakenBy(m)   == fromInter' = [fromInter EXCEPT ![m] = Tail(@)]
TakenFrom(m) == toInter' = [toInter EXCEPT ![m] = Tail(@)]

(* The map server has nothing more to read, the char server nothing of its. *)
Quiet(m) == joined[m] /\ wire[m] /\ toInter[m] = <<>> /\ fromInter[m] = <<>>

CutWire(m) ==
    /\ wire[m] /\ cuts < MaxCuts
    /\ wire' = [wire EXCEPT ![m] = FALSE]
    /\ cuts' = cuts + 1
    /\ toInter' = [toInter EXCEPT ![m] = <<>>]
    /\ fromInter' = [fromInter EXCEPT ![m] = <<>>]
    /\ UNCHANGED joined

(* chrif_on_disconnect *)
LinkLost(m) ==
    /\ joined[m] /\ ~wire[m]
    /\ joined' = [joined EXCEPT ![m] = FALSE]
    /\ UNCHANGED <<pipes, wire, cuts>>

(* check_connect_char_server and the handshake; msgs are sent by chrif_on_ready. *)
LinkReady(m, msgs) ==
    /\ ~joined[m]
    /\ joined' = [joined EXCEPT ![m] = TRUE]
    /\ wire' = [wire EXCEPT ![m] = TRUE]
    /\ toInter' = [toInter EXCEPT ![m] = msgs]
    /\ UNCHANGED <<fromInter, cuts>>
=============================================================================
