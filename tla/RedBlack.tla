------------------------------ MODULE RedBlack ------------------------------
(***************************************************************************)
(* The red-black trees of common/db.c, as operators on a tree: left and    *)
(* right child, parent and colour of every node, as the pointers have it.  *)
(* The code treats left and right in mirrored branches; here a side s and  *)
(* its Other(s) stand for both.                                            *)
(***************************************************************************)
EXTENDS Integers, Sequences, FiniteSets

CONSTANT Nodes             \* memory for nodes, by positive numbers

NoNode == 0                \* NULL
ASSUME NodesAssumption == Nodes \subseteq Nat \ {NoNode} /\ IsFiniteSet(Nodes)

EmptyTree == [root |-> NoNode,
              child |-> [s \in {"left", "right"} |-> [n \in Nodes |-> NoNode]],
              parent |-> [n \in Nodes |-> NoNode],
              red |-> [n \in Nodes |-> FALSE]]

Other(s) == IF s = "left" THEN "right" ELSE "left"
SideOf(t, n) == IF n = t.child["left"][t.parent[n]] THEN "left" ELSE "right"
IsRed(t, n) == n # NoNode /\ t.red[n]

SetParent(t, n, p) == IF n = NoNode THEN t ELSE [t EXCEPT !.parent[n] = p]
SetBlack(t, n) == IF n = NoNode THEN t ELSE [t EXCEPT !.red[n] = FALSE]
InPlaceOf(t, n, y) ==    \* links y where n was
    IF n = t.root THEN [t EXCEPT !.root = y] ELSE [t EXCEPT !.child[SideOf(t, n)][t.parent[n]] = y]

(* db_rotate_left(n) for s = "left", db_rotate_right(n) for "right" *)
Rotated(t, n, s) ==
    LET y == t.child[Other(s)][n]
        inner == t.child[s][y]
        moved == SetParent([t EXCEPT !.child[Other(s)][n] = inner], inner, n)
        linked == InPlaceOf([moved EXCEPT !.parent[y] = t.parent[n]], n, y)
    IN [linked EXCEPT !.child[s][y] = n, !.parent[n] = y]

(* db_rebalance: n is red; from here up. *)
RECURSIVE Rebalanced(_, _)
Rebalanced(t, n) ==
    IF n = t.root \/ ~t.red[t.parent[n]] THEN [t EXCEPT !.red[t.root] = FALSE]
    ELSE LET p == t.parent[n]
             g == t.parent[p]
             s == SideOf(t, p)
             uncle == t.child[Other(s)][g]
             inside == n = t.child[Other(s)][p]
             turned == IF inside THEN Rotated(t, p, s) ELSE t
             n1 == IF inside THEN p ELSE n
             p1 == turned.parent[n1]
         IN IF IsRed(t, uncle)
            THEN Rebalanced([t EXCEPT !.red[p] = FALSE, !.red[uncle] = FALSE, !.red[g] = TRUE], g)
            ELSE Rebalanced(Rotated([turned EXCEPT !.red[p1] = FALSE, !.red[g] = TRUE], g, Other(s)), n1)

(* The node with key k, or the one a new node for it hangs under, and on which side. *)
RECURSIVE SearchFrom(_, _, _, _, _, _)
SearchFrom(t, key, k, n, p, s) ==
    IF n = NoNode \/ key[n] = k THEN [found |-> n, under |-> p, side |-> s]
    ELSE LET down == IF k < key[n] THEN "left" ELSE "right"
         IN SearchFrom(t, key, k, t.child[down][n], n, down)
Search(t, key, k) == SearchFrom(t, key, k, t.root, NoNode, "left")

(* db_obj_put and db_obj_vensure: n becomes a leaf where the search ended. *)
LeafAdded(t, n, place) ==
    LET p == place.under
        s == place.side
        fresh == [t EXCEPT !.child["left"][n] = NoNode, !.child["right"][n] = NoNode, !.parent[n] = p]
    IN IF p = NoNode THEN [fresh EXCEPT !.root = n, !.red[n] = FALSE]
       ELSE LET hung == [fresh EXCEPT !.child[s][p] = n, !.red[n] = TRUE]
            IN IF t.red[p] THEN Rebalanced(hung, n) ELSE hung

RECURSIVE Outermost(_, _, _)
Outermost(t, n, s) == IF t.child[s][n] = NoNode THEN n ELSE Outermost(t, t.child[s][n], s)

(* db_rebalance_erase, the loop: the subtree of x, below p, lacks one black node. *)
FarBlackKept(t, w, o) == t                              \* a mistake the runs must notice
FarBlack(t, w, o) == SetBlack(t, t.child[o][w])

RECURSIVE Mended(_, _, _)
Mended(t, x, p) ==
    IF x = t.root \/ IsRed(t, x) THEN SetBlack(t, x)
    ELSE LET s == IF x = t.child["left"][p] THEN "left" ELSE "right"
             o == Other(s)
             w0 == t.child[o][p]
             t1 == IF t.red[w0] THEN Rotated([t EXCEPT !.red[w0] = FALSE, !.red[p] = TRUE], p, s) ELSE t
             w1 == t1.child[o][p]
             near == t1.child[s][w1]
             t2 == IF IsRed(t1, t1.child[o][w1]) THEN t1
                   ELSE Rotated([SetBlack(t1, near) EXCEPT !.red[w1] = TRUE], w1, o)
             w2 == t2.child[o][p]
             t3 == FarBlack([t2 EXCEPT !.red[w2] = t2.red[p], !.red[p] = FALSE], w2, o)
         IN IF ~IsRed(t1, near) /\ ~IsRed(t1, t1.child[o][w1])
            THEN Mended([t1 EXCEPT !.red[w1] = TRUE], p, t1.parent[p])
            ELSE SetBlack(Rotated(t3, p, s), x)

Blanked(t, n) ==    \* the memory of n is free, what it holds does not matter any more
    [t EXCEPT !.child["left"][n] = NoNode, !.child["right"][n] = NoNode, !.parent[n] = NoNode, !.red[n] = FALSE]

(* db_rebalance_erase: a node with two children gives its place to y, the next in order. *)
Erased(t, n) ==
    LET l == t.child["left"][n]
        r == t.child["right"][n]
        both == l # NoNode /\ r # NoNode
        y == IF both THEN Outermost(t, r, "left") ELSE n
        x == IF both THEN t.child["right"][y] ELSE IF l = NoNode THEN r ELSE l
        direct == y = r
        left == [t EXCEPT !.parent[l] = y, !.child["left"][y] = l]
        right == IF direct THEN left
                 ELSE [SetParent(left, x, t.parent[y]) EXCEPT !.child["left"][t.parent[y]] = x,
                                                              !.child["right"][y] = r, !.parent[r] = y]
        swapped == [InPlaceOf(right, n, y) EXCEPT !.parent[y] = t.parent[n], !.red[y] = t.red[n]]
        out == IF both THEN swapped ELSE InPlaceOf(SetParent(t, x, t.parent[n]), n, x)
        mended == IF t.red[y] THEN out ELSE Mended(out, x, IF both /\ direct THEN y ELSE t.parent[y])
    IN Blanked(mended, n)

----------------------------------------------------------------------------
(* Where an iteration goes: dbit_obj_next (s = "right") and dbit_obj_prev (s = "left"), and the
   order "current node, left tree, right tree" of vforeach. *)

ClimbedNever(t, n, s) == NoNode                         \* a mistake the runs must notice

RECURSIVE Climbed(_, _, _)
Climbed(t, n, s) ==    \* up to the first ancestor that n is not on the s side of
    LET p == t.parent[n] IN IF p = NoNode \/ t.child[s][p] # n THEN p ELSE Climbed(t, p, s)

Beside(t, n, s) ==
    IF n = NoNode THEN IF t.root = NoNode THEN NoNode ELSE Outermost(t, t.root, Other(s))
    ELSE IF t.child[s][n] # NoNode THEN Outermost(t, t.child[s][n], Other(s))
    ELSE Climbed(t, n, s)

RECURSIVE AcrossRight(_, _)
AcrossRight(t, n) ==
    LET p == t.parent[n] IN
    IF p = NoNode THEN NoNode
    ELSE IF t.child["right"][p] # NoNode /\ t.child["left"][p] = n THEN t.child["right"][p]
    ELSE AcrossRight(t, p)

PreOrderNext(t, n) ==
    IF t.child["left"][n] # NoNode THEN t.child["left"][n]
    ELSE IF t.child["right"][n] # NoNode THEN t.child["right"][n]
    ELSE AcrossRight(t, n)

(* A tree alone, for the runs: its nodes are its keys. *)
KeyOf == [n \in Nodes |-> n]
TreePut(t, k) == LeafAdded(t, k, Search(t, KeyOf, k))

----------------------------------------------------------------------------
(* What db.c promises of the trees, for the nodes that are in one. *)

RECURSIVE InOrder(_, _)
InOrder(t, n) == IF n = NoNode THEN <<>>
                 ELSE InOrder(t, t.child["left"][n]) \o <<n>> \o InOrder(t, t.child["right"][n])

RECURSIVE BlackHeights(_, _)
BlackHeights(t, n) ==    \* black nodes on the ways down from n
    IF n = NoNode THEN {0}
    ELSE {h + (IF t.red[n] THEN 0 ELSE 1) : h \in BlackHeights(t, t.child["left"][n])
                                                 \cup BlackHeights(t, t.child["right"][n])}

Linked(t, members) ==
    /\ t.root # NoNode => t.parent[t.root] = NoNode
    /\ \A n \in members, s \in {"left", "right"} : t.child[s][n] # NoNode => t.parent[t.child[s][n]] = n

Coloured(t, members) ==
    /\ ~IsRed(t, t.root)
    /\ \A n \in members, s \in {"left", "right"} : t.red[n] => ~IsRed(t, t.child[s][n])
    /\ Cardinality(BlackHeights(t, t.root)) = 1
=============================================================================
