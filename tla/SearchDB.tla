------------------------------ MODULE SearchDB ------------------------------
(***************************************************************************)
(* Search_DB of search_db.cpp: a B+ tree in a file.                        *)
(*                                                                         *)
(* Leaves hold sorted records and form a doubly linked chain; an internal  *)
(* node holds as many keys as children, of which the last key takes no     *)
(* part in a search.  Every block names its parent and its siblings.  The  *)
(* sizes are those of a build whose off_t and size_t have the four bytes   *)
(* that map and unmap move.                                                *)
(*                                                                         *)
(* An operation changes the leaves in one step.  The functions that then   *)
(* call themselves one level up (insert_key_to_index, remove_from_index,   *)
(* change_parent_child) take one step per level, told apart by pc.         *)
(***************************************************************************)
EXTENDS Integers, FiniteSets, SequencesExt

CONSTANTS
    Keys,        \* keys of records
    Values,      \* values of records
    Order,       \* BP_ORDER: most entries of a block (20 in the code)
    KeyMod,      \* keys are unsigned: keycmp subtracts modulo KeyMod
    Callers      \* programs that use the database: the keys a caller inserts
                 \* first in order; the keys, values and reopening of its calls
                 \* after that; and the bound: no leaf is split once that many
                 \* blocks have been handed out

ASSUME TreeAssumption ==
    /\ Keys \subseteq 1 .. KeyMod - 1
    /\ Order \in Nat /\ Order % 2 = 0 /\ Order >= 4
    /\ KeyMod \in Nat \ {0} /\ KeyMod % 2 = 0
    /\ \A c \in Callers :
          /\ c.loading \in Seq(Keys)
          /\ c.keys \subseteq Keys
          /\ c.values \subseteq Values
          /\ c.reopens \in BOOLEAN
          /\ c.slots \in Nat

VARIABLES
    pc,       \* "idle", or the function working its way up the tree
    arg,      \* its arguments
    meta,     \* the meta block
    nodes,    \* internal nodes of the file, by offset
    leafs,    \* leaf nodes of the file, by offset
    stored,   \* history: the records of the calls since the file was emptied
    caller,   \* the caller, fixed
    loaded    \* history: how many keys it has inserted in order

vars == <<pc, arg, meta, nodes, leafs, stored, caller, loaded>>

NoArg == << >>

\* The key of an entry nobody has written yet.
Garbage == 0

\* keycmp subtracts unsigned keys and returns an int.
keycmp(a, b) == ((a - b + KeyMod \div 2) % KeyMod) - (KeyMod \div 2)

-----------------------------------------------------------------------------
(* std::lower_bound and std::upper_bound, as a number of entries passed.   *)

Bisect(s, Passes(_)) ==
    LET at[r \in {q \in (0 .. Len(s)) \X (0 .. Len(s)) : q[1] + q[2] =< Len(s)}] ==
            LET first == r[1]
                half == r[2] \div 2
            IN  IF r[2] = 0 THEN first
                ELSE IF Passes(s[first + half + 1])
                THEN at[<<first + half + 1, r[2] - half - 1>>]
                ELSE at[<<first, half>>]
    IN  at[<<0, Len(s)>>]

upper_bound(s, k) == Bisect(s, LAMBDA e : keycmp(k, e) >= 0)

lower_bound(s, k) == Bisect(s, LAMBDA e : keycmp(e, k) < 0)

RecordKeys(leaf) == [i \in DOMAIN leaf.recs |-> leaf.recs[i].key]

\* binary_search of a leaf.
Holds(leaf, k) ==
    LET i == lower_bound(RecordKeys(leaf), k) + 1
    IN  i \in DOMAIN leaf.recs /\ keycmp(k, leaf.recs[i].key) >= 0

\* find: the entry of an internal node under which k belongs.
FindEntry(node, k) == upper_bound(Front(node.keys), k) + 1

search_leaf_below(off, k) == nodes[off].kids[FindEntry(nodes[off], k)]

\* The lowest internal node on the way to k.
search_index(k) ==
    LET down[h \in 1 .. meta.height] ==
            IF h = meta.height THEN meta.root_offset
            ELSE search_leaf_below(down[h + 1], k)
    IN  down[1]

search_leaf(k) == search_leaf_below(search_index(k), k)

\* search of a stored key: its record's value, or that there is none.
Lookup(k) ==
    LET leaf == leafs[search_leaf(k)]
        i == lower_bound(RecordKeys(leaf), k) + 1
    IN  IF i \in DOMAIN leaf.recs /\ leaf.recs[i].key = k
        THEN {leaf.recs[i].value}
        ELSE {}

-----------------------------------------------------------------------------
(* The constructor.                                                        *)

\* init_from_empty.
EmptyMeta ==
    [root_offset |-> 1, leaf_offset |-> 2, height |-> 1, slot |-> 3,
     internal_node_num |-> 1, leaf_node_num |-> 1]

EmptyNodes ==
    [o \in {1} |-> [parent |-> 0, next |-> 0, prev |-> 0,
                    keys |-> <<Garbage>>, kids |-> <<2>>]]

EmptyLeafs ==
    [o \in {2} |-> [parent |-> 1, next |-> 0, prev |-> 0, recs |-> << >>]]

\* With force_empty: of a file that does not exist nothing else works.
Init ==
    /\ pc = "idle"
    /\ arg = NoArg
    /\ meta = EmptyMeta
    /\ nodes = EmptyNodes
    /\ leafs = EmptyLeafs
    /\ stored = << >>
    /\ caller \in Callers
    /\ loaded = 0

\* The caller is free to call what it likes.
Idle == pc = "idle" /\ loaded = Len(caller.loading)

\* Without it: map returns the number of meta blocks it read, one, which is
\* not 0, so the file is emptied.
Open ==
    /\ Idle
    /\ caller.reopens
    /\ meta' = EmptyMeta
    /\ nodes' = EmptyNodes
    /\ leafs' = EmptyLeafs
    /\ stored' = << >>
    /\ UNCHANGED <<pc, arg, caller, loaded>>

-----------------------------------------------------------------------------
(* insert.                                                                 *)

\* Mutant: the last child keeps its parent.
ReparentButLast(blocks, kids, parent) ==
    [o \in DOMAIN blocks |->
        IF \E i \in 1 .. Len(kids) - 1 : kids[i] = o
        THEN [blocks[o] EXCEPT !.parent = parent] ELSE blocks[o]]

\* Blocks of one kind after children have got a new parent.
\* (reset_index_children_parent writes nothing but the parent.)
Reparent(blocks, kids, parent) ==
    [o \in DOMAIN blocks |->
        IF \E i \in DOMAIN kids : kids[i] = o
        THEN [blocks[o] EXCEPT !.parent = parent] ELSE blocks[o]]

Extend(blocks, off, block) ==
    [o \in DOMAIN blocks \cup {off} |-> IF o = off THEN block ELSE blocks[o]]

\* Mutant: the old next block still names off.
node_createOneWay(blocks, off, new, left, right) ==
    LET old == blocks[off]
    IN  Extend([blocks EXCEPT ![off] = [left EXCEPT !.next = new]], new,
               [right EXCEPT !.parent = old.parent, !.next = old.next, !.prev = off])

\* node_create: a new block behind off, linked between it and its next.
node_create(blocks, off, new, left, right) ==
    LET old == blocks[off]
        linked == [o \in DOMAIN blocks |->
                     IF o = off THEN [left EXCEPT !.next = new]
                     ELSE IF o = old.next THEN [blocks[o] EXCEPT !.prev = new]
                     ELSE blocks[o]]
    IN  Extend(linked, new, [right EXCEPT !.parent = old.parent,
                                          !.next = old.next, !.prev = off])

insert_record_no_split(leaf, k, v) ==
    [leaf EXCEPT !.recs =
        InsertAt(@, upper_bound(RecordKeys(leaf), k) + 1,
                 [key |-> k, value |-> v])]

\* The caller's next insertion in order, or any call after these.
Calls(k, v) ==
    /\ pc = "idle"
    /\ v \in caller.values
    /\ \/ /\ loaded < Len(caller.loading)
          /\ k = caller.loading[loaded + 1]
          /\ loaded' = loaded + 1
       \/ /\ loaded = Len(caller.loading)
          /\ k \in caller.keys
          /\ UNCHANGED loaded

\* A key that is there already is left alone, and 1 returned.
Absent(k) == ~Holds(leafs[search_leaf(k)], k)

InsertRecord(k, v) ==
    /\ Calls(k, v)
    /\ Absent(k)
    /\ LET off == search_leaf(k)
       IN  /\ Len(leafs[off].recs) < Order
           /\ leafs' = [leafs EXCEPT ![off] = insert_record_no_split(@, k, v)]
    /\ stored' = Extend(stored, k, v)
    /\ UNCHANGED <<pc, arg, meta, nodes, caller>>

\* A full leaf is split, and its new sibling's first key goes up.
InsertSplit(k, v) ==
    /\ Calls(k, v)
    /\ Absent(k)
    /\ meta.slot =< caller.slots
    /\ LET off == search_leaf(k)
           leaf == leafs[off]
           new == meta.slot
           mid == Len(leaf.recs) \div 2
           place_right == keycmp(k, leaf.recs[mid + 1].key) > 0
           point == IF place_right THEN mid + 1 ELSE mid
           l == [leaf EXCEPT !.recs = SubSeq(@, 1, point)]
           r == [leaf EXCEPT !.recs = SubSeq(@, point + 1, Len(@))]
           left == IF place_right THEN l ELSE insert_record_no_split(l, k, v)
           right == IF place_right THEN insert_record_no_split(r, k, v) ELSE r
       IN  /\ Len(leaf.recs) = Order
           /\ leafs' = node_create(leafs, off, new, left, right)
           /\ arg' = [node |-> search_index(k), key |-> right.recs[1].key,
                      old |-> off, after |-> new]
    /\ meta' = [meta EXCEPT !.slot = @ + 1, !.leaf_node_num = @ + 1]
    /\ pc' = "insert_key_to_index"
    /\ stored' = Extend(stored, k, v)
    /\ UNCHANGED <<nodes, caller>>

\* Mutant: the child is entered without its key.
insert_key_to_index_no_splitKeyless(node, k, after) ==
    [node EXCEPT !.kids = InsertAt(@, FindEntry(node, k) + 1, after)]

insert_key_to_index_no_split(node, k, after) ==
    LET i == FindEntry(node, k)
    IN  [node EXCEPT !.keys = InsertAt(@, i, k), !.kids = InsertAt(@, i + 1, after)]

\* The root was split: a new one over the two halves.
IndexRoot ==
    /\ pc = "insert_key_to_index"
    /\ arg.node = 0
    /\ LET root == meta.slot
           kids == <<arg.old, arg.after>>
       IN  /\ nodes' = Extend(Reparent(nodes, kids, root), root,
                              [parent |-> 0, next |-> 0, prev |-> 0,
                               keys |-> <<arg.key, Garbage>>, kids |-> kids])
           /\ leafs' = Reparent(leafs, kids, root)
           /\ meta' = [meta EXCEPT !.root_offset = root, !.height = @ + 1,
                                   !.slot = @ + 1, !.internal_node_num = @ + 1]
    /\ pc' = "idle"
    /\ arg' = NoArg
    /\ UNCHANGED <<stored, caller, loaded>>

IndexKey ==
    /\ pc = "insert_key_to_index"
    /\ arg.node # 0
    /\ Len(nodes[arg.node].kids) < Order
    /\ nodes' = [nodes EXCEPT ![arg.node] =
                   insert_key_to_index_no_split(@, arg.key, arg.after)]
    /\ pc' = "idle"
    /\ arg' = NoArg
    /\ UNCHANGED <<meta, leafs, stored, caller, loaded>>

\* A full node is split around a middle key, which goes further up.
IndexSplit ==
    /\ pc = "insert_key_to_index"
    /\ arg.node # 0
    /\ LET off == arg.node
           node == nodes[off]
           n == Len(node.kids)
           new == meta.slot
           mid == (n - 1) \div 2
           place_right == keycmp(arg.key, node.keys[mid + 1]) > 0
           point == IF place_right /\ keycmp(arg.key, node.keys[mid + 2]) >= 0
                    THEN mid + 2 ELSE mid + 1
           l == [node EXCEPT !.keys = SubSeq(@, 1, point),
                             !.kids = SubSeq(@, 1, point)]
           r == [node EXCEPT !.keys = SubSeq(@, point + 1, n),
                             !.kids = SubSeq(@, point + 1, n)]
           Add(half) == insert_key_to_index_no_split(half, arg.key, arg.after)
           left == IF place_right THEN l ELSE Add(l)
           right == IF place_right THEN Add(r) ELSE r
       IN  /\ n = Order
           /\ nodes' = Reparent(node_create(nodes, off, new, left, right),
                                right.kids, new)
           /\ leafs' = Reparent(leafs, right.kids, new)
           /\ arg' = [node |-> node.parent, key |-> node.keys[point],
                      old |-> off, after |-> new]
    /\ meta' = [meta EXCEPT !.slot = @ + 1, !.internal_node_num = @ + 1]
    /\ UNCHANGED <<pc, stored, caller, loaded>>

-----------------------------------------------------------------------------
(* update and remove.                                                      *)

Update(k, v) ==
    /\ Idle
    /\ k \in caller.keys
    /\ v \in caller.values
    /\ LET off == search_leaf(k)
           i == lower_bound(RecordKeys(leafs[off]), k) + 1
       IN  /\ i \in DOMAIN leafs[off].recs
           /\ keycmp(k, leafs[off].recs[i].key) = 0
           /\ leafs' = [leafs EXCEPT ![off].recs[i].value = v]
    /\ stored' = [stored EXCEPT ![k] = v]
    /\ UNCHANGED <<pc, arg, meta, nodes, caller, loaded>>

\* The fewest records of a leaf.
LeafMin == IF meta.leaf_node_num = 1 THEN 0 ELSE Order \div 2

WithoutKey(leaf, k) ==
    [leaf EXCEPT !.recs = RemoveAt(@, lower_bound(RecordKeys(leaf), k) + 1)]

Removes(k) ==
    /\ Idle
    /\ k \in caller.keys
    /\ ~Absent(k)
    /\ stored' = [q \in DOMAIN stored \ {k} |-> stored[q]]

\* Mutant: any neighbour lends.
CanLendAlways(off) == off # 0

\* Both code paths assert that a leaf is at least half full: Occupied.
CanLend(off) == off # 0 /\ Len(leafs[off].recs) # Order \div 2

RemoveRecord(k) ==
    /\ Removes(k)
    /\ LET off == search_leaf(k)
           rest == WithoutKey(leafs[off], k)
       IN  /\ Len(rest.recs) >= LeafMin
           /\ leafs' = [leafs EXCEPT ![off] = rest]
    /\ UNCHANGED <<pc, arg, meta, nodes, caller, loaded>>

\* borrow_key of a leaf, from its left and from its right neighbour.  The
\* separator the two share then changes.
BorrowLeft(k) ==
    /\ Removes(k)
    /\ LET off == search_leaf(k)
           rest == WithoutKey(leafs[off], k)
           lender == leafs[rest.prev]
           lent == Last(lender.recs)
       IN  /\ Len(rest.recs) < LeafMin
           /\ CanLend(rest.prev)
           /\ leafs' = [leafs EXCEPT
                          ![off] = [rest EXCEPT !.recs = <<lent>> \o @],
                          ![rest.prev].recs = Front(@)]
           /\ arg' = [node |-> lender.parent, from |-> lender.recs[1].key,
                      to |-> lent.key]
    /\ pc' = "change_parent_child"
    /\ UNCHANGED <<meta, nodes, caller, loaded>>

BorrowRight(k) ==
    /\ Removes(k)
    /\ LET off == search_leaf(k)
           rest == WithoutKey(leafs[off], k)
           lender == leafs[rest.next]
       IN  /\ Len(rest.recs) < LeafMin
           /\ ~CanLend(rest.prev)
           /\ CanLend(rest.next)
           /\ leafs' = [leafs EXCEPT
                          ![off] = [rest EXCEPT !.recs = Append(@, lender.recs[1])],
                          ![rest.next].recs = Tail(@)]
           /\ arg' = [node |-> rest.parent, from |-> rest.recs[1].key,
                      to |-> lender.recs[2].key]
    /\ pc' = "change_parent_child"
    /\ UNCHANGED <<meta, nodes, caller, loaded>>

\* node_remove: the block behind left leaves the chain.
node_remove(blocks, off, left, gone) ==
    [o \in DOMAIN blocks |->
        IF o = off THEN [left EXCEPT !.next = gone.next]
        ELSE IF o = gone.next THEN [blocks[o] EXCEPT !.prev = gone.prev]
        ELSE blocks[o]]

\* The leaf joins its left neighbour if it is its parent's last, else its
\* right neighbour joins it; the entry of the left one of the two goes.
RemoveMerge(k) ==
    /\ Removes(k)
    /\ LET parent == search_index(k)
           off == search_leaf(k)
           rest == WithoutKey(leafs[off], k)
           is_last == FindEntry(nodes[parent], k) = Len(nodes[parent].kids)
           l == IF is_last THEN leafs[rest.prev] ELSE rest
           r == IF is_last THEN rest ELSE leafs[rest.next]
       IN  /\ Len(rest.recs) < LeafMin
           /\ ~CanLend(rest.prev)
           /\ ~CanLend(rest.next)
           /\ leafs' = node_remove(leafs, IF is_last THEN rest.prev ELSE off,
                                   [l EXCEPT !.recs = @ \o r.recs], r)
           /\ arg' = [node |-> parent, key |-> l.recs[1].key]
    /\ meta' = [meta EXCEPT !.leaf_node_num = @ - 1]
    /\ pc' = "remove_from_index"
    /\ UNCHANGED <<nodes, caller, loaded>>

\* Mutant: goes on in the same node when it is done.
ChangeKeyEndless ==
    /\ pc = "change_parent_child"
    /\ LET node == nodes[arg.node]
           i == FindEntry(node, arg.from)
       IN  /\ nodes' = [nodes EXCEPT ![arg.node].keys[i] = arg.to]
           /\ arg' = IF i = Len(node.kids) THEN [arg EXCEPT !.node = node.parent]
                     ELSE arg
    /\ UNCHANGED <<pc, meta, leafs, stored, caller, loaded>>

\* The last entry's key counts in the node above.
ChangeKey ==
    /\ pc = "change_parent_child"
    /\ LET node == nodes[arg.node]
           i == FindEntry(node, arg.from)
       IN  /\ nodes' = [nodes EXCEPT ![arg.node].keys[i] = arg.to]
           /\ IF i = Len(node.kids)
              THEN arg' = [arg EXCEPT !.node = node.parent] /\ UNCHANGED pc
              ELSE arg' = NoArg /\ pc' = "idle"
    /\ UNCHANGED <<meta, leafs, stored, caller, loaded>>

-----------------------------------------------------------------------------
(* remove_from_index.                                                      *)

\* Mutant: it goes with its child.
WithoutEntryAndChild(node, k) ==
    LET i == FindEntry(node, k)
    IN  [node EXCEPT !.keys = RemoveAt(@, i), !.kids = RemoveAt(@, i)]

\* The child of the entry that goes moves to the next entry.  Of a full node's
\* last entry the code writes it behind the array, which is left out: the entry
\* is dropped either way.
WithoutEntry(node, k) ==
    LET i == FindEntry(node, k)
        n == Len(node.kids)
    IN  [node EXCEPT !.keys = RemoveAt(@, i),
                     !.kids = IF i < n THEN RemoveAt(@, i + 1) ELSE Front(@)]

Shrunk == WithoutEntry(nodes[arg.node], arg.key)

IsRoot(off) == off = meta.root_offset

NodeMin(off) == IF IsRoot(off) THEN 1 ELSE Order \div 2

Collapses ==
    /\ Len(Shrunk.kids) = 1
    /\ IsRoot(arg.node)
    /\ meta.internal_node_num # 1

\* Mutant: the old root stays counted.
ShrinkRootCounted ==
    /\ pc = "remove_from_index"
    /\ Collapses
    /\ meta' = [meta EXCEPT !.height = @ - 1, !.root_offset = Shrunk.kids[1]]
    /\ pc' = "idle"
    /\ arg' = NoArg
    /\ UNCHANGED <<nodes, leafs, stored, caller, loaded>>

\* The only child of the root becomes the root; its parent stays as it is.
ShrinkRoot ==
    /\ pc = "remove_from_index"
    /\ Collapses
    /\ meta' = [meta EXCEPT !.internal_node_num = @ - 1, !.height = @ - 1,
                            !.root_offset = Shrunk.kids[1]]
    /\ pc' = "idle"
    /\ arg' = NoArg
    /\ UNCHANGED <<nodes, leafs, stored, caller, loaded>>

ShrinkNode ==
    /\ pc = "remove_from_index"
    /\ ~Collapses
    /\ Len(Shrunk.kids) >= NodeMin(arg.node)
    /\ nodes' = [nodes EXCEPT ![arg.node] = Shrunk]
    /\ pc' = "idle"
    /\ arg' = NoArg
    /\ UNCHANGED <<meta, leafs, stored, caller, loaded>>

Underflows ==
    /\ pc = "remove_from_index"
    /\ ~Collapses
    /\ Len(Shrunk.kids) < NodeMin(arg.node)

LeftLends ==
    /\ arg.node # nodes[Shrunk.parent].kids[1]
    /\ Len(nodes[Shrunk.prev].kids) # Order \div 2

RightLends ==
    /\ arg.node # Last(nodes[Shrunk.parent].kids)
    /\ Len(nodes[Shrunk.next].kids) # Order \div 2

\* borrow_key of an internal node: from the left, the borrower's first key
\* becomes the separator before the lent entry is put in front of it.
NodeBorrowsLeft ==
    /\ Underflows
    /\ LeftLends
    /\ LET node == Shrunk
           lender == nodes[node.prev]
           where == FindEntry(nodes[lender.parent], lender.keys[1])
           separator == nodes[lender.parent].keys[where]
           lent == Last(lender.kids)
       IN  /\ nodes' = Reparent(
                 [nodes EXCEPT
                    ![arg.node] =
                        [node EXCEPT
                           !.keys = <<Last(lender.keys), separator>> \o Tail(@),
                           !.kids = <<lent>> \o @],
                    ![node.prev] = [lender EXCEPT !.keys = Front(@),
                                                  !.kids = Front(@)],
                    ![lender.parent].keys[where] = Last(Front(lender.keys))],
                 <<lent>>, arg.node)
           /\ leafs' = Reparent(leafs, <<lent>>, arg.node)
    /\ pc' = "idle"
    /\ arg' = NoArg
    /\ UNCHANGED <<meta, stored, caller, loaded>>

NodeBorrowsRight ==
    /\ Underflows
    /\ ~LeftLends
    /\ RightLends
    /\ LET node == Shrunk
           lender == nodes[node.next]
           where == lower_bound(Front(nodes[node.parent].keys), Last(node.keys)) + 1
           lent == lender.kids[1]
       IN  /\ nodes' = Reparent(
                 [nodes EXCEPT
                    ![arg.node] = [node EXCEPT !.keys = Append(@, lender.keys[1]),
                                               !.kids = Append(@, lent)],
                    ![node.next] = [lender EXCEPT !.keys = Tail(@),
                                                  !.kids = Tail(@)],
                    ![node.parent].keys[where] = lender.keys[1]],
                 <<lent>>, arg.node)
           /\ leafs' = Reparent(leafs, <<lent>>, arg.node)
    /\ pc' = "idle"
    /\ arg' = NoArg
    /\ UNCHANGED <<meta, stored, caller, loaded>>

\* merge_keys, and on to the parent with what was the node's first key.
NodeMerges ==
    /\ Underflows
    /\ ~LeftLends
    /\ ~RightLends
    /\ LET node == Shrunk
           is_last == arg.node = Last(nodes[node.parent].kids)
           left == IF is_last THEN node.prev ELSE arg.node
           l == IF is_last THEN nodes[node.prev] ELSE node
           r == IF is_last THEN node ELSE nodes[node.next]
           joined == [l EXCEPT !.keys = @ \o r.keys, !.kids = @ \o r.kids]
       IN  /\ nodes' = node_remove(Reparent(nodes, r.kids, left), left, joined, r)
           /\ leafs' = Reparent(leafs, r.kids, left)
           /\ arg' = [node |-> node.parent, key |-> nodes[arg.node].keys[1]]
    /\ meta' = [meta EXCEPT !.internal_node_num = @ - 1]
    /\ UNCHANGED <<pc, stored, caller, loaded>>

-----------------------------------------------------------------------------
Climb ==
    \/ IndexRoot
    \/ IndexKey
    \/ IndexSplit
    \/ ChangeKey
    \/ ShrinkRoot
    \/ ShrinkNode
    \/ NodeBorrowsLeft
    \/ NodeBorrowsRight
    \/ NodeMerges

Call ==
    \/ \E k \in Keys, v \in Values : InsertRecord(k, v)
    \/ \E k \in Keys, v \in Values : InsertSplit(k, v)
    \/ \E k \in Keys, v \in Values : Update(k, v)
    \/ \E k \in Keys : RemoveRecord(k)
    \/ \E k \in Keys : BorrowLeft(k)
    \/ \E k \in Keys : BorrowRight(k)
    \/ \E k \in Keys : RemoveMerge(k)
    \/ Open

Next == Call \/ Climb

\* A call, once made, runs to its end.
Spec == Init /\ [][Next]_vars /\ WF_vars(Climb)


-----------------------------------------------------------------------------
(* What the tree is.                                                       *)

\* The leaves from off on.
ChainFrom(off) ==
    LET from[o \in DOMAIN leafs \cup {0}] ==
            IF o = 0 THEN << >> ELSE <<o>> \o from[leafs[o].next]
    IN  from[off]

Chain == ChainFrom(meta.leaf_offset)

Records(offs) == FlattenSeq([i \in DOMAIN offs |-> leafs[offs[i]].recs])

\* The stored records with keys from left to right, in order.
Stored(left, right) ==
    LET keys == {k \in DOMAIN stored : left =< k /\ k =< right}
        nth(i) == CHOOSE k \in keys : Cardinality({q \in keys : q =< k}) = i
    IN  [i \in 1 .. Cardinality(keys) |-> [key |-> nth(i), value |-> stored[nth(i)]]]

\* The blocks h levels above the leaves, from left to right.
Level(h) ==
    LET at[g \in 0 .. meta.height] ==
            IF g = meta.height THEN <<meta.root_offset>>
            ELSE FlattenSeq([i \in DOMAIN at[g + 1] |-> nodes[at[g + 1][i]].kids])
    IN  at[h]

Internals == UNION {Range(Level(h)) : h \in 1 .. meta.height}

\* search_range: the leaves it copies from, of each the records it looks at,
\* the first max of them, and where to go on.  It says so only if it stopped
\* inside a leaf.
RangeLeaves(left, right) ==
    LET last == search_leaf(right)
        from[o \in DOMAIN leafs \cup {0}] ==
            IF o \in {0, last} THEN <<last>> ELSE <<o>> \o from[leafs[o].next]
    IN  from[search_leaf(left)]

\* Mutant: a record with the key right is left out.
RangePartOpen(leaves, i, left, right) ==
    LET leaf == leafs[leaves[i]]
        b == IF i \in {1, Len(leaves)} THEN lower_bound(RecordKeys(leaf), left) ELSE 0
        e == IF i = Len(leaves) THEN lower_bound(RecordKeys(leaf), right)
             ELSE Len(leaf.recs)
    IN  SubSeq(leaf.recs, b + 1, e)

RangePart(leaves, i, left, right) ==
    LET leaf == leafs[leaves[i]]
        b == IF i \in {1, Len(leaves)} THEN lower_bound(RecordKeys(leaf), left) ELSE 0
        e == IF i = Len(leaves) THEN upper_bound(RecordKeys(leaf), right)
             ELSE Len(leaf.recs)
    IN  SubSeq(leaf.recs, b + 1, e)

search_range(left, right, max) ==
    LET leaves == RangeLeaves(left, right)
        parts == [i \in DOMAIN leaves |-> RangePart(leaves, i, left, right)]
        all == FlattenSeq(parts)
        ends == {Len(FlattenSeq(SubSeq(parts, 1, i))) : i \in DOMAIN parts}
    IN  [values |-> SubSeq(all, 1, IF max < Len(all) THEN max ELSE Len(all)),
         next |-> max < Len(all) /\ max \notin ends]

-----------------------------------------------------------------------------
\* Every variable has its type.
TypeOK ==
    /\ pc \in {"idle", "insert_key_to_index", "change_parent_child",
               "remove_from_index"}
    /\ meta.slot = 1 + Cardinality(DOMAIN nodes \cup DOMAIN leafs)
    /\ DOMAIN nodes \cap DOMAIN leafs = {}
    /\ \A o \in DOMAIN nodes :
          /\ Len(nodes[o].keys) = Len(nodes[o].kids)
          /\ Range(nodes[o].keys) \subseteq Keys \cup {Garbage}
          /\ Range(nodes[o].kids) \subseteq 1 .. meta.slot - 1
          /\ nodes[o].parent \in DOMAIN nodes \cup {0}
    /\ \A o \in DOMAIN leafs :
          /\ Range(leafs[o].recs) \subseteq [key : Keys, value : Values]
          /\ leafs[o].parent \in DOMAIN nodes
          /\ {leafs[o].next, leafs[o].prev} \subseteq DOMAIN leafs \cup {0}
    /\ DOMAIN stored \subseteq Keys
    /\ loaded \in 0 .. Len(caller.loading)

\* search finds every stored record with its value, and no other ("finding
\* the record", search_db.cpp:61): the separators lead to the right leaf
\* after any sequence of splits, loans and merges.
FindsStored ==
    pc = "idle" => \A k \in Keys :
        Lookup(k) = IF k \in DOMAIN stored THEN {stored[k]} ELSE {}

\* The chain of leaves lists exactly the stored records in the order of their
\* keys, and backwards it is the same chain, even while an operation is still
\* on its way up the tree.
ChainIsMap ==
    /\ Records(Chain) = Stored(0, KeyMod)
    /\ \A i \in DOMAIN Chain :
          leafs[Chain[i]].prev = IF i = 1 THEN 0 ELSE Chain[i - 1]

\* The leaves under the internal nodes are the leaves of the chain, in the
\* same order, and the meta block counts both kinds of blocks.
TreeIsChain ==
    pc = "idle" =>
        /\ Level(0) = Chain
        /\ meta.leaf_node_num = Len(Chain)
        /\ meta.internal_node_num = Cardinality(Internals)

\* The assertions of remove, remove_from_index and borrow_key (search_db.cpp
\* :145, :278, :361, :410): no block is ever overfull, and none but the root
\* or an only leaf less than half full.
Occupied ==
    pc = "idle" =>
        /\ \A o \in Range(Chain) : Len(leafs[o].recs) \in LeafMin .. Order
        /\ \A o \in Internals : Len(nodes[o].kids) \in NodeMin(o) .. Order

\* Every block but the root names the block it hangs under as its parent:
\* insert_key_to_index and change_parent_child climb by that field.
ParentLinks ==
    pc = "idle" => \A o \in Internals : \A c \in Range(nodes[o].kids) :
        (IF c \in DOMAIN nodes THEN nodes[c] ELSE leafs[c]).parent = o

\* A range query returns the first records of the range, in order, however
\* the range and the page lie to the borders of leaves.
RangeIsPrefix ==
    pc = "idle" => \A left, right \in caller.keys, max \in 1 .. Order :
        left =< right =>
            LET all == Stored(left, right)
            IN  search_range(left, right, max).values
                    = SubSeq(all, 1, IF max < Len(all) THEN max ELSE Len(all))

\* "read tree from file" (search_db.cpp:43): opening an existing database
\* finds the records it holds.
OpenReads == [][Open => Records(Chain)' = Records(Chain)]_vars

\* An insertion or a removal that has to climb the tree gets to its end.
CallsEnd == pc # "idle" ~> pc = "idle"

=============================================================================
