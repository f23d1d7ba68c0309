------------------------------ MODULE OrderedSet ------------------------------
(***************************************************************************)
(* What the tree of tree.c promises its callers: a set of keys that is     *)
(* changed and asked one key at a time, and a cursor that walks through it *)
(* in ascending order, also while other keys come and go.                  *)
(***************************************************************************)
EXTENDS Integers

CONSTANTS Key, NULL

VARIABLES items,      \* the keys in the set
          cursor,     \* the key the cursor is at, or NULL
          answer      \* what the last call returned

svars == <<items, cursor, answer>>

SInit == items = {} /\ cursor = NULL /\ answer = NULL

\* tree_insert tells whether the key was new, tree_remove and tree_lookup
\* return the key if it was there.  A key is not removed under the cursor.
SInsert(k) == /\ items' = items \union {k}
              /\ answer' = IF k \in items THEN 0 ELSE 1
              /\ UNCHANGED cursor

Found(k) == IF k \in items THEN k ELSE NULL

SRemove(k) == /\ k # cursor
              /\ items' = items \ {k}
              /\ answer' = Found(k)
              /\ UNCHANGED cursor

SLookup(k) == /\ answer' = Found(k)
              /\ UNCHANGED <<items, cursor>>

\* tree_lookupfirstcursor, tree_cursornext: the least key, the next greater.
Least(S) == IF S = {} THEN NULL ELSE CHOOSE k \in S : \A l \in S : k <= l

SMove(S) == /\ cursor' = Least(S)
            /\ answer' = cursor'
            /\ UNCHANGED items

SFirst == SMove(items)
SNext  == cursor # NULL /\ SMove({k \in items : k > cursor})

SetNext == \/ \E k \in Key : SInsert(k) \/ SRemove(k) \/ SLookup(k)
           \/ SFirst \/ SNext

SetSpec == SInit /\ [][SetNext]_svars
=============================================================================
