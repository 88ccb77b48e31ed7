------------------------------ MODULE MCPlayers ------------------------------
(* One TLC instance for what players do with each other and for their companions: in each
   behaviour there are trades, or pets, or a homunculus and a mercenary, and the rest rests. *)
EXTENDS MCTrade, Companions

CONSTANTS k1, k2    \* characters

VARIABLE scene
playersVars == <<scene, vars, linkVars, companionVars>>

PlayersInit == scene \in {"trades", "pets", "lures", "servants"} /\ Init /\ CompanionInit

TradeMoves == scene = "trades" /\ Next /\ UNCHANGED <<scene, linkVars, companionVars>>

(* Two keepers keep pets. *)
PetScene == /\ scene = "pets"
            /\ \/ CharServes
               \/ \E p \in Keepers : KeeperMoves(p) \/ PetKeeping(p)
               \/ \E egg \in floor : EggRots(egg)
            /\ UNCHANGED <<scene, vars>>

(* One keeper gets more of them. *)
LureScene == /\ scene = "lures"
             /\ \/ CharServes \/ PetCatching(k1) \/ PetKeeping(k1) \/ KeeperMoves(k1)
                \/ \E egg \in floor : EggRots(egg)
             /\ UNCHANGED <<scene, vars>>

ServantScene == /\ scene = "servants"
                /\ CharServes \/ KeeperMoves(k1) \/ HomMoves(k1) \/ MerMoves(k1)
                /\ UNCHANGED <<scene, vars>>

PlayersNext == TradeMoves \/ PetScene \/ LureScene \/ ServantScene
PlayersSpec == PlayersInit /\ [][PlayersNext]_playersVars
=============================================================================
