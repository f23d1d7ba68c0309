--------------------------------- MODULE Tree ---------------------------------
(***************************************************************************)
(* The threaded AVL tree of src/tree.c.  A node is named by the key of its *)
(* item.  Where a node has no left (right) child, its left (right) pointer *)
(* is a thread to the node before (after) it in the order of the keys; the *)
(* sets lkid and rkid are the nodes whose left_child and right_child are   *)
(* set.  The operations are functions from tree to tree.                   *)
(***************************************************************************)
EXTENDS Integers, SequencesExt

CONSTANTS Key, NULL

ASSUME KeyAssumption == Key \subseteq Int /\ NULL \notin Key

VARIABLES tree,       \* struct tree and its nodes
          cursor,     \* the node a tree_cursor_type points to
          answer      \* what the last call returned

vars == <<tree, cursor, answer>>

\* tree_create; createnode and free give a node the initial fields.
Empty == [root |-> NULL, count |-> 0,
          left |-> [k \in Key |-> NULL], right |-> [k \in Key |-> NULL],
          lkid |-> {}, rkid |-> {}, balance |-> [k \in Key |-> 0]]

-----------------------------------------------------------------------------
(* Rotations, and the neighbours of a node.                                *)

\* Mutant: the balances of a single rotation of two right-heavy nodes.
RotateLeftFlat(t, a) ==
    LET b == t.right[a]
    IN [t EXCEPT !.right[a] = IF b \in t.lkid THEN t.left[b] ELSE @,
                 !.rkid = IF b \in t.lkid THEN @ ELSE @ \ {a},
                 !.lkid = @ \union {b},
                 !.left[b] = a,
                 !.balance = [@ EXCEPT ![a] = 0, ![b] = 0]]

\* rotateleft: the right child b comes up, a becomes its left child.
RotateLeft(t, a) ==
    LET b == t.right[a]
        abal == t.balance[a] - 1 - (IF t.balance[b] > 0 THEN t.balance[b] ELSE 0)
        bbal == t.balance[b] - 1 + (IF abal < 0 THEN abal ELSE 0)
    IN [t EXCEPT !.right[a] = IF b \in t.lkid THEN t.left[b] ELSE @,
                 !.rkid = IF b \in t.lkid THEN @ ELSE @ \ {a},
                 !.lkid = @ \union {b},
                 !.left[b] = a,
                 !.balance = [@ EXCEPT ![a] = abal, ![b] = bbal]]

RotateRight(t, a) ==
    LET b == t.left[a]
        abal == t.balance[a] + 1 - (IF t.balance[b] < 0 THEN t.balance[b] ELSE 0)
        bbal == t.balance[b] + 1 + (IF abal > 0 THEN abal ELSE 0)
    IN [t EXCEPT !.left[a] = IF b \in t.rkid THEN t.right[b] ELSE @,
                 !.lkid = IF b \in t.rkid THEN @ ELSE @ \ {a},
                 !.rkid = @ \union {b},
                 !.right[b] = a,
                 !.balance = [@ EXCEPT ![a] = abal, ![b] = bbal]]

\* The node a pointer to a's child points to after a rotation about a.
TopLeft(t, a)  == t.right[a]
TopRight(t, a) == t.left[a]

\* Mutant: the child is not rotated first.
RebalanceSingle(t, a) ==
    CASE t.balance[a] < -1 -> [tree |-> RotateRight(t, a), top |-> TopRight(t, a)]
      [] t.balance[a] > 1  -> [tree |-> RotateLeft(t, a), top |-> TopLeft(t, a)]
      [] OTHER -> [tree |-> t, top |-> a]

\* rebalance returns the changed tree and the node on top of it.
Rebalance(t, a) ==
    LET l == t.left[a]
        r == t.right[a]
        tl == IF t.balance[l] > 0
              THEN [RotateLeft(t, l) EXCEPT !.left[a] = TopLeft(t, l)] ELSE t
        tr == IF t.balance[r] < 0
              THEN [RotateRight(t, r) EXCEPT !.right[a] = TopRight(t, r)] ELSE t
    IN CASE t.balance[a] < -1 -> [tree |-> RotateRight(tl, a), top |-> TopRight(tl, a)]
         [] t.balance[a] > 1  -> [tree |-> RotateLeft(tr, a), top |-> TopLeft(tr, a)]
         [] OTHER -> [tree |-> t, top |-> a]

\* a, the node that next leads to from there, and so on while there is one.
Chain(next, a) ==
    LET down[k \in Key] == <<k>> \o (IF next[k] = NULL THEN <<>> ELSE down[next[k]])
    IN down[a]

LeftChild(t)  == [k \in Key |-> IF k \in t.lkid THEN t.left[k] ELSE NULL]
RightChild(t) == [k \in Key |-> IF k \in t.rkid THEN t.right[k] ELSE NULL]

\* The leftmost (rightmost) node at or below a is the last of them.
LeftSpine(t, a)  == Chain(LeftChild(t), a)
RightSpine(t, a) == Chain(RightChild(t), a)

FirstNode(t) == IF t.root = NULL THEN NULL ELSE Last(LeftSpine(t, t.root))
NextNode(t, a) == IF a \in t.rkid THEN Last(LeftSpine(t, t.right[a])) ELSE t.right[a]
PreviousNode(t, a) == IF a \in t.lkid THEN Last(RightSpine(t, t.left[a])) ELSE t.left[a]

-----------------------------------------------------------------------------
(* Descent and the way back up.                                            *)

\* Where the search for k goes on from a node, NULL where it ends.
Toward(t, k) == [n \in Key |-> CASE k < n -> LeftChild(t)[n]
                                 [] k > n -> RightChild(t)[n]
                                 [] OTHER -> NULL]

\* The nodes from the root to k, or to the one below which k belongs.
Path(t, k) == IF t.root = NULL THEN <<>> ELSE Chain(Toward(t, k), t.root)

Has(t, k) == t.root # NULL /\ Last(Path(t, k)) = k

\* The pointer to n in its parent p (the root, if p is NULL) becomes m.
IsLeft(t, p, n) == p # NULL /\ n = t.left[p]
Hang(t, p, n, m) == IF p = NULL THEN [t EXCEPT !.root = m]
                    ELSE IF IsLeft(t, p, n) THEN [t EXCEPT !.left[p] = m]
                    ELSE [t EXCEPT !.right[p] = m]

\* The side of p on which n hangs has grown by d.
Weigh(t, p, n, d) == [t EXCEPT !.balance[p] = IF IsLeft(t, p, n) THEN @ - d ELSE @ + d]

Uneven(t, n) == t.balance[n] < -1 \/ t.balance[n] > 1

\* Node n is rebalanced if need be; acc.node is what hangs below p then.
Settle(acc, p) ==
    IF ~Uneven(acc.tree, acc.node) THEN acc
    ELSE LET b == Rebalance(acc.tree, acc.node)
         IN [acc EXCEPT !.tree = Hang(b.tree, p, acc.node, b.top), !.node = b.top]

\* One turn of the loop of placenode, whose parent is p.
GrowStep(acc, p) ==
    IF acc.done THEN acc
    ELSE LET a == Settle(acc, p)
         IN IF a.tree.balance[a.node] = 0 THEN [a EXCEPT !.done = TRUE]
            ELSE [a EXCEPT !.tree = Weigh(a.tree, p, a.node, 1), !.node = p]

\* One turn of the loop of removenode; p is NULL at the root.
ShrinkStep(acc, p) ==
    IF acc.done THEN acc
    ELSE LET a == Settle(acc, p)
         IN IF p = NULL \/ a.tree.balance[a.node] # 0 THEN [a EXCEPT !.done = TRUE]
            ELSE [a EXCEPT !.tree = Weigh(a.tree, p, a.node, -1), !.node = p]

-----------------------------------------------------------------------------
(* placenode.                                                              *)

\* The new node below p, with the threads p had on that side.
Attach(t, p, k) ==
    IF k < p THEN [t EXCEPT !.left = [@ EXCEPT ![k] = t.left[p], ![p] = k],
                            !.right[k] = p,
                            !.lkid = @ \union {p},
                            !.balance[p] = @ - 1,
                            !.count = @ + 1]
    ELSE [t EXCEPT !.right = [@ EXCEPT ![k] = t.right[p], ![p] = k],
                   !.left[k] = p,
                   !.rkid = @ \union {p},
                   !.balance[p] = @ + 1,
                   !.count = @ + 1]

\* The loop goes from the last node of path up, and ends at the root without a
\* look at the root's own balance.
GrowUp(t, path) ==
    LET n == Len(path)
        turn[i \in 0..(n - 1)] ==
            IF i = 0 THEN [tree |-> t, node |-> path[n], done |-> FALSE]
            ELSE GrowStep(turn[i - 1], path[n - i])
    IN turn[n - 1].tree

Inserted(t, k) ==
    IF t.root = NULL THEN [t EXCEPT !.root = k, !.count = @ + 1]
    ELSE IF Has(t, k) THEN t
    ELSE LET path == Path(t, k)
         IN GrowUp(Attach(t, Last(path), k), path)

-----------------------------------------------------------------------------
(* removenode.                                                             *)

Dropped(t, k) == [t EXCEPT !.left[k] = NULL, !.right[k] = NULL,
                           !.lkid = @ \ {k}, !.rkid = @ \ {k}, !.balance[k] = 0,
                           !.count = @ - 1]

\* Mutant: the thread that came back to k stays.
UnhookUnthreaded(t, p, k) ==
    LET child == IF k \in t.lkid THEN t.left[k] ELSE t.right[k]
        leaf == k \notin t.lkid \union t.rkid
        below == IF ~leaf THEN child ELSE IF IsLeft(t, p, k) THEN t.left[k] ELSE t.right[k]
        hung == IF leaf /\ p = NULL THEN [t EXCEPT !.root = NULL]
                ELSE Hang(t, p, k, below)
    IN IF p = NULL THEN hung
       ELSE [hung EXCEPT !.lkid = IF leaf /\ IsLeft(t, p, k) THEN @ \ {p} ELSE @,
                         !.rkid = IF leaf /\ ~IsLeft(t, p, k) THEN @ \ {p} ELSE @,
                         !.balance[p] = IF IsLeft(t, p, k) THEN @ + 1 ELSE @ - 1]

\* k has at most one child, which takes its place below p; the thread that
\* came back to k from below goes past it.
Unhook(t, p, k) ==
    LET child == IF k \in t.lkid THEN t.left[k] ELSE t.right[k]
        leaf == k \notin t.lkid \union t.rkid
        past == CASE leaf -> t
                  [] k \in t.rkid -> [t EXCEPT !.left[NextNode(t, k)] = t.left[k]]
                  [] OTHER -> [t EXCEPT !.right[PreviousNode(t, k)] = t.right[k]]
        below == IF ~leaf THEN child ELSE IF IsLeft(t, p, k) THEN t.left[k] ELSE t.right[k]
        hung == IF leaf /\ p = NULL THEN [past EXCEPT !.root = NULL]
                ELSE Hang(past, p, k, below)
    IN IF p = NULL THEN hung
       ELSE [hung EXCEPT !.lkid = IF leaf /\ IsLeft(t, p, k) THEN @ \ {p} ELSE @,
                         !.rkid = IF leaf /\ ~IsLeft(t, p, k) THEN @ \ {p} ELSE @,
                         !.balance[p] = IF IsLeft(t, p, k) THEN @ + 1 ELSE @ - 1]

\* Mutant: the thread of the node before k is forgotten.
PutNextUnthreaded(t, p, k, spine) ==
    LET next == Last(spine)
        nextp == IF Len(spine) = 1 THEN k ELSE spine[Len(spine) - 1]
        out == IF nextp = k THEN [t EXCEPT !.balance[k] = @ - 1]
               ELSE [t EXCEPT !.left[nextp] = IF next \in t.rkid THEN t.right[next] ELSE @,
                              !.lkid = IF next \in t.rkid THEN @ ELSE @ \ {nextp},
                              !.balance[nextp] = @ + 1,
                              !.rkid = @ \union {next},
                              !.right[next] = t.right[k]]
    IN Hang([out EXCEPT !.lkid = @ \union {next},
                        !.left[next] = t.left[k],
                        !.balance[next] = out.balance[k]], p, k, next)

\* k has two children: the next node, the last of spine, takes its place and
\* its balance.
PutNext(t, p, k, spine) ==
    LET next == Last(spine)
        prev == Last(RightSpine(t, t.left[k]))
        nextp == IF Len(spine) = 1 THEN k ELSE spine[Len(spine) - 1]
        out == IF nextp = k THEN [t EXCEPT !.balance[k] = @ - 1]
               ELSE [t EXCEPT !.left[nextp] = IF next \in t.rkid THEN t.right[next] ELSE @,
                              !.lkid = IF next \in t.rkid THEN @ ELSE @ \ {nextp},
                              !.balance[nextp] = @ + 1,
                              !.rkid = @ \union {next},
                              !.right[next] = t.right[k]]
    IN Hang([out EXCEPT !.right[prev] = next,
                        !.lkid = @ \union {next},
                        !.left[next] = t.left[k],
                        !.balance[next] = out.balance[k]], p, k, next)

\* The changed tree, and the path to the node whose side became lower.
TakeOut(t, path) ==
    LET k == Last(path)
        p == IF Len(path) = 1 THEN NULL ELSE path[Len(path) - 1]
        spine == LeftSpine(t, t.right[k])
    IN IF k \in t.lkid \intersect t.rkid
       THEN [tree |-> PutNext(t, p, k, spine),
             path |-> Front(path) \o <<Last(spine)>> \o Front(spine)]
       ELSE [tree |-> Unhook(t, p, k), path |-> Front(path)]

Removed(t, k) ==
    IF ~Has(t, k) THEN t
    ELSE LET out == TakeOut(t, Path(t, k))
             up == Reverse(<<NULL>> \o out.path)
         IN Dropped(IF out.path = <<>> THEN out.tree
                    ELSE FoldLeft(ShrinkStep,
                                  [tree |-> out.tree, node |-> Head(up), done |-> FALSE],
                                  Tail(up)).tree, k)

-----------------------------------------------------------------------------
(* The calls.                                                              *)

Init == tree = Empty /\ cursor = NULL /\ answer = NULL

TreeInsert(k) == /\ tree' = Inserted(tree, k)
                 /\ answer' = IF Has(tree, k) THEN 0 ELSE 1
                 /\ UNCHANGED cursor

Found(k) == IF Has(tree, k) THEN k ELSE NULL

\* The node a cursor points to is not removed: it would be freed under it.
TreeRemove(k) == /\ k # cursor
                 /\ tree' = Removed(tree, k)
                 /\ answer' = Found(k)
                 /\ UNCHANGED cursor

TreeLookup(k) == answer' = Found(k) /\ UNCHANGED <<tree, cursor>>

MoveTo(n) == cursor' = n /\ answer' = n /\ UNCHANGED tree

LookupFirstCursor == MoveTo(FirstNode(tree))
CursorNext == cursor # NULL /\ MoveTo(NextNode(tree, cursor))

Next == \/ \E k \in Key : TreeInsert(k) \/ TreeRemove(k) \/ TreeLookup(k)
        \/ LookupFirstCursor \/ CursorNext

Spec == Init /\ [][Next]_vars

\* A tree from which nothing is taken, as the maps of a session in
\* dbsimplebase.c are: their callers put in, look up and walk.
GrowNext == \/ \E k \in Key : TreeInsert(k) \/ TreeLookup(k)
            \/ LookupFirstCursor \/ CursorNext

GrowSpec == Init /\ [][GrowNext]_vars

-----------------------------------------------------------------------------
(* Properties.                                                             *)

\* The nodes of t below and including n, and the height of what hangs there.
Below(t, n) ==
    LET down[k \in Key] == {k} \union (IF k \in t.lkid THEN down[t.left[k]] ELSE {})
                              \union (IF k \in t.rkid THEN down[t.right[k]] ELSE {})
    IN IF n = NULL THEN {} ELSE down[n]

Height(t, n) ==
    LET high[k \in Key] ==
            LET l == IF k \in t.lkid THEN high[t.left[k]] ELSE 0
                r == IF k \in t.rkid THEN high[t.right[k]] ELSE 0
            IN 1 + (IF l > r THEN l ELSE r)
    IN IF n = NULL THEN 0 ELSE high[n]

Members == Below(tree, tree.root)

LeftHeight(n)  == IF n \in tree.lkid THEN Height(tree, tree.left[n]) ELSE 0
RightHeight(n) == IF n \in tree.rkid THEN Height(tree, tree.right[n]) ELSE 0

TypeOK == /\ tree.root \in Key \union {NULL}
          /\ tree.count = Cardinality(Members)
          /\ cursor \in Members \union {NULL}

Set == INSTANCE OrderedSet WITH items <- Members

\* Through every rotation and relinking the tree is the set of keys its
\* callers put in, and a cursor goes on in order.
ImplementsSet == Set!SetSpec

Before(n) == {k \in Members : k < n}
After(n)  == {k \in Members : k > n}
Greatest(S) == IF S = {} THEN NULL ELSE CHOOSE k \in S : \A l \in S : l <= k

\* Every node's threads lead to the keys next to its own, in both directions.
ThreadsInOrder ==
    \A n \in Members : /\ NextNode(tree, n) = Set!Least(After(n))
                       /\ PreviousNode(tree, n) = Greatest(Before(n))

\* What rotateleft, rotateright and placenode compute without measuring:
\* balance is the difference of the heights of the two sides.
BalanceExact == \A n \in Members : tree.balance[n] = RightHeight(n) - LeftHeight(n)

\* placenode rebalances every node on its way up, but never the root.
BalancedBelowRoot == \A n \in Members \ {tree.root} : tree.balance[n] \in -1..1

\* What every function of tree.c relies on and leaves behind, whatever was put
\* in and taken out before: the number of nodes is right, the threads are those
\* of the order, the recorded balances are true, and nothing below the root is
\* out of balance.
TreeInv == TypeOK /\ ThreadsInOrder /\ BalanceExact /\ BalancedBelowRoot

\* The assertions of tree_cursornext: the node after a node is another one.
NextIsAnother == \A n \in Key : tree.right[n] # n
=============================================================================
