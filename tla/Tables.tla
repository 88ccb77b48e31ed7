------------------------------- MODULE Tables -------------------------------
(***************************************************************************)
(* The tables of common/db.c (DBMap) and the memory of their nodes         *)
(* (common/ers.c): a tree, a cache of one node, and nodes that stay in the *)
(* tree, marked deleted, while somebody iterates.  One hash of the table   *)
(* is modelled; the others are trees like it that iterations visit in      *)
(* turn.  Keys are integers, so nothing is copied or released with them.   *)
(***************************************************************************)
EXTENDS RedBlack, SequencesExt

CONSTANTS Keys,      \* keys that are used
          Values,    \* data
          Iterators, \* iterations that may be open together
          MaxPuts,   \* bound: how many entries are made while somebody iterates
          Block,     \* the nodes in the memory of the table
          NoValue,   \* NULL
          CarefulCallers \* TRUE: nobody ensures a key that was removed during an iteration that is
                         \* still open, or makes new entries inside of a foreach

ASSUME TablesAssumption == Block \subseteq Nodes /\ Keys \subseteq Int /\ NoValue \notin Values /\ CarefulCallers \in BOOLEAN

VARIABLES tree,      \* ht[hash]
          node,      \* per node: key, data, deleted
          reuse,     \* ERS: freed nodes, the last one first
          cache,     \* db->cache
          free_list, \* deleted nodes to free at the last unlock
          iterator,  \* per iterator: the node it is at and, for the properties, what it must still show
          made,      \* entries made during the open iterations
          agrees     \* did the last operation answer as a table should? for the properties only

tableVars == <<tree, node, reuse, cache, free_list, iterator, made, agrees>>

InTree == ToSet(InOrder(tree, tree.root))
Alive == {n \in InTree : ~node[n].deleted}
Content == [k \in Keys |-> IF \E n \in Alive : node[n].key = k
                           THEN node[CHOOSE n \in Alive : node[n].key = k].data ELSE NoValue]
Present(content) == {k \in Keys : content[k] # NoValue}

Blank == [key |-> CHOOSE k \in Keys : TRUE, data |-> NoValue, deleted |-> FALSE]
Closed == [open |-> FALSE, how |-> "iterator", at |-> NoNode, started |-> FALSE, owed |-> {}, shown |-> {}, again |-> FALSE]
Locked == \E i \in Iterators : iterator[i].open       \* free_lock > 0 between operations

InForeach == \E i \in Iterators : iterator[i].open /\ iterator[i].how = "foreach"

TableTypeOK ==
    /\ node \in [Nodes -> [key : Keys \cup Nodes, data : Values \cup {NoValue}, deleted : BOOLEAN]]
    /\ cache \in Nodes \cup {NoNode} /\ ToSet(reuse) \subseteq Nodes /\ ToSet(free_list) \subseteq InTree
    /\ \A i \in Iterators : iterator[i].at \in InTree \cup {NoNode}

TableInit ==
    /\ tree = EmptyTree
    /\ node = [n \in Nodes |-> Blank]
    /\ reuse = SetToSortSeq(Block, <)                 \* unused entries of a block
    /\ cache = NoNode /\ free_list = <<>> /\ made = 0
    /\ iterator = [i \in Iterators |-> Closed]
    /\ agrees = TRUE

----------------------------------------------------------------------------
(* The search of a key: the node that has it, deleted or not, else the leaf it would hang under. *)
Lookup(k) == Search(tree, [n \in Nodes |-> node[n].key], k)
Hit(k) == cache # NoNode /\ node[cache].key = k

(* What the iterations owe after the content changed: a key that is gone need not be shown, one
   that came may be, but not twice. *)
Owing(left) == iterator' = [i \in Iterators |-> [iterator[i] EXCEPT !.owed = @ \cap left]]

Answer(value, due) == agrees' = (value = due)

(* db_obj_get, db_obj_exists *)
get(k) ==
    /\ LET found == Lookup(k).found
           there == found # NoNode /\ ~node[found].deleted
       IN /\ Answer(IF Hit(k) THEN node[cache].data ELSE IF there THEN node[found].data ELSE NoValue, Content[k])
          /\ cache' = IF ~Hit(k) /\ there THEN found ELSE cache
    /\ UNCHANGED <<tree, node, reuse, free_list, iterator, made>>

(* A new node for k with value v, below where the search ended. *)
Hang(k, v) ==
    LET n == Head(reuse)
    IN /\ reuse # <<>> /\ (Locked => made < MaxPuts) /\ (InForeach => ~CarefulCallers)
       /\ tree' = LeafAdded(tree, n, Lookup(k))
       /\ node' = [node EXCEPT ![n] = [key |-> k, data |-> v, deleted |-> FALSE]]
       /\ reuse' = Tail(reuse)
       /\ cache' = n
       /\ made' = IF Locked THEN made + 1 ELSE 0
       /\ UNCHANGED <<free_list, iterator>>

(* db_obj_put: a deleted node that is still there lives again (db_free_remove). *)
Without(s, n) == LET i == CHOOSE j \in 1 .. Len(s) : s[j] = n
                 IN Front([s EXCEPT ![i] = Last(s)])

put(k, v) ==
    LET n == Lookup(k).found IN
    /\ IF n = NoNode THEN Hang(k, v)
       ELSE /\ node' = [node EXCEPT ![n].data = v, ![n].deleted = FALSE]
            /\ free_list' = IF node[n].deleted THEN Without(free_list, n) ELSE free_list
            /\ cache' = n
            /\ UNCHANGED <<tree, reuse, iterator, made>>
    /\ Answer(v, v)

(* db_obj_vensure: a node that is found is taken as it is. *)
ensure(k, v) ==
    LET n == Lookup(k).found
        gone == n # NoNode /\ node[n].deleted
    IN /\ gone => ~CarefulCallers
       /\ IF Hit(k) THEN /\ Answer(node[cache].data, IF Content[k] = NoValue THEN v ELSE Content[k])
                         /\ UNCHANGED <<tree, node, reuse, cache, free_list, iterator, made>>
          ELSE IF n = NoNode THEN Hang(k, v) /\ Answer(v, v)
          ELSE /\ cache' = n
               /\ Answer(node[n].data, IF gone THEN v ELSE node[n].data)
               /\ UNCHANGED <<tree, node, reuse, free_list, iterator, made>>

(* db_free_unlock of the last lock: the deleted nodes leave the tree one after the other. *)
RECURSIVE TreeWithout(_, _)
TreeWithout(t, list) == IF list = <<>> THEN t ELSE TreeWithout(Erased(t, Head(list)), Tail(list))
Free(list, nodes) ==
    /\ tree' = TreeWithout(tree, list)
    /\ node' = [n \in Nodes |-> IF n \in ToSet(list) THEN Blank ELSE nodes[n]]
    /\ reuse' = Reverse(list) \o reuse
    /\ free_list' = <<>>

(* db_free_add; it is freed at once when nobody iterates. *)
Release(n) == IF Locked THEN /\ free_list' = Append(free_list, n)
                             /\ node' = [node EXCEPT ![n].deleted = TRUE]
                             /\ UNCHANGED <<tree, reuse>>
              ELSE Free(<<n>>, node)

CacheKept(n) == cache                                  \* a mistake the runs must notice
CacheWithout(n) == IF cache = n THEN NoNode ELSE cache
Delete(n) == Release(n) /\ cache' = CacheWithout(n) /\ Owing(Keys \ {node[n].key})

(* db_obj_remove *)
remove(k) ==
    LET n == Lookup(k).found
        there == n # NoNode /\ ~node[n].deleted
    IN /\ IF there THEN Delete(n)
          ELSE UNCHANGED <<tree, node, reuse, cache, free_list, iterator>>
       /\ Answer(IF there THEN node[n].data ELSE NoValue, Content[k])
       /\ UNCHANGED made

----------------------------------------------------------------------------
(* Iterators. *)

db_obj_iterator(i) ==
    /\ ~iterator[i].open
    /\ \E how \in {"iterator", "foreach"} :
       iterator' = [iterator EXCEPT ![i] = [Closed EXCEPT !.open = TRUE, !.how = how, !.owed = Present(Content)]]
    /\ UNCHANGED <<tree, node, reuse, cache, free_list, made, agrees>>

(* dbit_obj_next: the next node in order that is not deleted *)
Step(n, how) == IF how = "iterator" THEN Beside(tree, n, "right") ELSE IF n = NoNode THEN tree.root ELSE PreOrderNext(tree, n)
RECURSIVE NextAlive(_, _)
NextAlive(n, how) == IF n = NoNode \/ ~node[n].deleted THEN n ELSE NextAlive(Step(n, how), how)

dbit_obj_next(i) ==
    /\ iterator[i].open /\ (iterator[i].started => iterator[i].at # NoNode)
    /\ LET n == NextAlive(Step(iterator[i].at, iterator[i].how), iterator[i].how)
           k == IF n = NoNode THEN {} ELSE {node[n].key}
       IN iterator' = [iterator EXCEPT ![i] = [@ EXCEPT !.at = n, !.started = TRUE, !.owed = @ \ k,
                                                        !.again = @ \/ k \cap iterator[i].shown # {},
                                                        !.shown = @ \cup k]]
    /\ UNCHANGED <<tree, node, reuse, cache, free_list, made, agrees>>

(* dbit_obj_remove: the current entry; the iterator stays at its node. *)
dbit_obj_remove(i) ==
    /\ iterator[i].open /\ iterator[i].at # NoNode /\ ~node[iterator[i].at].deleted
    /\ Delete(iterator[i].at)
    /\ UNCHANGED <<made, agrees>>

dbit_obj_destroy(i) ==
    /\ iterator[i].open
    /\ iterator' = [iterator EXCEPT ![i] = Closed]
    /\ IF \E j \in Iterators \ {i} : iterator[j].open THEN UNCHANGED <<tree, node, reuse, free_list, made>>
       ELSE Free(free_list, node) /\ made' = 0
    /\ UNCHANGED <<cache, agrees>>

(* db_obj_vclear, while nobody iterates: every tree is taken down from the leaves. *)
vclear ==
    /\ ~Locked /\ tree.root # NoNode
    /\ tree' = EmptyTree /\ reuse' = InOrder(tree, tree.root) \o reuse
    /\ cache' = NoNode /\ node' = [n \in Nodes |-> Blank]
    /\ UNCHANGED <<free_list, iterator, made, agrees>>

TableNext ==
    \/ \E k \in Keys : get(k) \/ remove(k) \/ \E v \in Values : put(k, v) \/ ensure(k, v)
    \/ \E i \in Iterators : db_obj_iterator(i) \/ dbit_obj_next(i) \/ dbit_obj_remove(i) \/ dbit_obj_destroy(i)
    \/ vclear

----------------------------------------------------------------------------
(* The trees keep the properties that db.c states of them: keys in order, no red node below a red
   one, as many black nodes on every way down, a black root; and the pointers agree. *)
TreesAreRedBlack ==
    LET order == InOrder(tree, tree.root) IN
    /\ \A i \in 1 .. Len(order) - 1 : node[order[i]].key < node[order[i + 1]].key
    /\ Linked(tree, ToSet(order)) /\ Coloured(tree, ToSet(order))

(* Every operation answers as a table of the content would, through the cache and among deleted
   nodes; the cache never points to memory that was freed, nor to a deleted entry. *)
TablesAnswer == agrees /\ (cache # NoNode => cache \in Alive)

(* An iteration shows every entry that was there all the time, whatever is put, removed or
   balanced meanwhile, and no key twice. *)
IterationsShowAll ==
    \A i \in Iterators : /\ ~iterator[i].again
                         /\ (iterator[i].started /\ iterator[i].at = NoNode) => iterator[i].owed = {}
=============================================================================
