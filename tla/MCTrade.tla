------------------------------ MODULE MCTrade ------------------------------
EXTENDS Trade, TLC
CONSTANTS p1, p2, p3, herb, sword

(* Three players; the first has two swords (which do not stack) and one zeny. *)
StartThree == [p \in Players |-> [s \in Slots |->
                  IF p = p1 THEN [item |-> sword, amount |-> 1] ELSE Empty]]
ZenyOfOne  == [p \in Players |-> IF p = p1 THEN 1 ELSE 0]
Interchangeable == Permutations(Players \ {p1})

(* Two players: herbs and one zeny against a sword. *)
StartTwo == [p \in Players |-> [s \in Slots |->
                IF s # 0 THEN Empty
                ELSE IF p = p1 THEN [item |-> herb, amount |-> 2] ELSE [item |-> sword, amount |-> 1]]]
=============================================================================
