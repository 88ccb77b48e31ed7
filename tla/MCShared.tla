------------------------------ MODULE MCShared ------------------------------
(* One TLC instance for the components that share data over the link to the char server: in
   each behaviour one of them moves, on the same constants, and the others rest. *)
EXTENDS GuildStorage, Party, PartyShare, Guild

VARIABLE scene
vars == <<scene, linkVars, storageVars, partyVars, shareVars, guildVars>>

StorageRests == StorageInit /\ (\A p \in Members : member[p].at = CHOOSE m \in StorageServers : TRUE)
                            /\ carried[CHOOSE p \in Members : TRUE] = Goods
PartyRests   == PartyInit /\ created = 0 /\ \A p \in Players : sessions[p].at = Away
ShareRests   == ShareInit /\ child = NoChild /\ inParty = {CHOOSE p \in Sharers : TRUE}
                          /\ \A p \in Sharers : level[p] = 1
GuildRests   == GuildInit /\ founded = 0 /\ \A p \in Guildsmen : guildsman[p].at = Elsewhere

Init ==
    \/ scene = "storage" /\ StorageInit /\ PartyRests /\ ShareRests /\ GuildRests
    \/ scene = "party" /\ PartyInit /\ StorageRests /\ ShareRests /\ GuildRests
    \/ scene = "share" /\ ShareInit /\ StorageRests /\ PartyRests /\ GuildRests
    \/ scene = "guild" /\ GuildInit /\ StorageRests /\ PartyRests /\ ShareRests

StorageMoves == scene = "storage" /\ StorageNext /\ UNCHANGED <<scene, partyVars, shareVars, guildVars>>
PartyMoves   == scene = "party" /\ PartyNext /\ UNCHANGED <<scene, storageVars, shareVars, guildVars>>
ShareMoves   == scene = "share" /\ ShareNext /\ UNCHANGED <<scene, linkVars, storageVars, partyVars, guildVars>>
GuildMoves   == scene = "guild" /\ GuildNext /\ UNCHANGED <<scene, storageVars, partyVars, shareVars>>

Next == StorageMoves \/ PartyMoves \/ ShareMoves \/ GuildMoves

(* Both ends of a link read what arrives, and a map server notices a dead link and connects
   again: do_sockets and the timer of check_connect_char_server run for ever. *)
LinkMoves ==
    \/ scene = "storage" /\ (\E m \in StorageServers : StorageLink(m))
                         /\ UNCHANGED <<scene, partyVars, shareVars, guildVars>>
    \/ scene = "party" /\ ~halted /\ (\E m \in MapServers : PartyLink(m))
                       /\ UNCHANGED <<scene, storageVars, shareVars, guildVars>>

Spec == Init /\ [][Next]_vars /\ WF_vars(LinkMoves)

(* Every variable has its shape, bounds of tables and levels included. *)
SharedTypeOK == LinkTypeOK /\ StorageTypeOK /\ PartyTypeOK /\ ShareTypeOK /\ GuildTypeOK
=============================================================================
