------------------------------ MODULE TreeProofs ------------------------------
(***************************************************************************)
(* The tree of tree.c, for any set of integer keys and trees of any size.  *)
(* First, that a rotation computes the true balances from the recorded     *)
(* ones, and then that a tree from which nothing is taken stays a threaded *)
(* AVL tree and is an ordered set: insertion goes down to the place of the *)
(* key, hangs the node there, and settles every node on the way back up.   *)
(***************************************************************************)
EXTENDS Tree, WellFoundedInduction, FiniteSetTheorems, TLAPS

TreeType == [root : Key \union {NULL}, count : Int,
             left : [Key -> Key \union {NULL}], right : [Key -> Key \union {NULL}],
             lkid : SUBSET Key, rkid : SUBSET Key, balance : [Key -> Int]]

-----------------------------------------------------------------------------
(* Rotations.                                                              *)

\* The heights of the two sides of n, if h tells the heights of its children.
OnLeft(t, h, n)  == IF n \in t.lkid THEN h[t.left[n]] ELSE 0
OnRight(t, h, n) == IF n \in t.rkid THEN h[t.right[n]] ELSE 0

\* h tells the height of n itself.
Measures(t, h, n) ==
    h[n] = 1 + (IF OnLeft(t, h, n) > OnRight(t, h, n) THEN OnLeft(t, h, n)
                ELSE OnRight(t, h, n))

\* balance is the difference of the heights of the two sides.
Exact(t, h, n) == t.balance[n] = OnRight(t, h, n) - OnLeft(t, h, n)

\* The fields of the tree after rotateleft.
LEMMA RotateLeftFields ==
    ASSUME NEW t \in TreeType, NEW a \in Key, NEW b \in Key,
           b = t.right[a], a # b, a \in t.rkid
    PROVE  LET u == RotateLeft(t, a)
           IN /\ u.left[b] = a /\ u.left[a] = t.left[a]
              /\ u.right[b] = t.right[b]
              /\ u.right[a] = IF b \in t.lkid THEN t.left[b] ELSE t.right[a]
              /\ b \in u.lkid /\ (a \in u.lkid <=> a \in t.lkid)
              /\ b \in u.rkid <=> b \in t.rkid
              /\ a \in u.rkid <=> b \in t.lkid
              /\ u.balance[a] = t.balance[a] - 1 - (IF t.balance[b] > 0 THEN t.balance[b] ELSE 0)
              /\ u.balance[b] = t.balance[b] - 1 + (IF u.balance[a] < 0 THEN u.balance[a] ELSE 0)
  BY DEF TreeType, RotateLeft

\* The fields of the tree after rotateright.
LEMMA RotateRightFields ==
    ASSUME NEW t \in TreeType, NEW a \in Key, NEW b \in Key,
           b = t.left[a], a # b, a \in t.lkid
    PROVE  LET u == RotateRight(t, a)
           IN /\ u.right[b] = a /\ u.right[a] = t.right[a]
              /\ u.left[b] = t.left[b]
              /\ u.left[a] = IF b \in t.rkid THEN t.right[b] ELSE t.left[a]
              /\ b \in u.rkid /\ (a \in u.rkid <=> a \in t.rkid)
              /\ b \in u.lkid <=> b \in t.lkid
              /\ a \in u.lkid <=> b \in t.rkid
              /\ u.balance[a] = t.balance[a] + 1 - (IF t.balance[b] < 0 THEN t.balance[b] ELSE 0)
              /\ u.balance[b] = t.balance[b] + 1 + (IF u.balance[a] > 0 THEN u.balance[a] ELSE 0)
  BY DEF TreeType, RotateRight

\* If the balances of a and of the child b that comes up are exact before a
\* rotation, they are exact after it, for balances of any size: all the
\* rotations made on the way up from an insertion or a removal are right.
THEOREM RotateLeftExact ==
    ASSUME NEW t \in TreeType, NEW a \in Key, NEW b \in Key,
           b = t.right[a], a # b, a \in t.rkid,
           NEW h \in [Key -> Nat], NEW h2 \in [Key -> Nat],
           a \in t.lkid => t.left[a] \in Key \ {a, b},
           b \in t.lkid => t.left[b] \in Key \ {a, b},
           b \in t.rkid => t.right[b] \in Key \ {a, b},
           \A k \in Key \ {a, b} : h2[k] = h[k],
           Measures(t, h, b), Exact(t, h, a), Exact(t, h, b),
           Measures(RotateLeft(t, a), h2, a)
    PROVE  Exact(RotateLeft(t, a), h2, a) /\ Exact(RotateLeft(t, a), h2, b)
<1> DEFINE u == RotateLeft(t, a)
           x == OnLeft(t, h, a)
           y == OnLeft(t, h, b)
           z == OnRight(t, h, b)
<1>1. x \in Nat /\ y \in Nat /\ z \in Nat
  BY DEF OnLeft, OnRight
<1>2. t.balance[b] = z - y
  BY DEF Exact
<1>3. t.balance[a] = 1 + (IF y > z THEN y ELSE z) - x
  <2>1. OnRight(t, h, a) = h[b]
    BY DEF OnRight
  <2>2. h[b] = 1 + (IF y > z THEN y ELSE z)
    BY DEF Measures
  <2>3. t.balance[a] = OnRight(t, h, a) - x
    BY DEF Exact
  <2>4. QED
    BY <1>1, <2>1, <2>2, <2>3
<1>4. OnLeft(u, h2, a) = x /\ OnRight(u, h2, a) = y /\ OnRight(u, h2, b) = z
  BY RotateLeftFields DEF OnLeft, OnRight
<1>5. OnLeft(u, h2, b) = 1 + (IF x > y THEN x ELSE y)
  BY <1>4, RotateLeftFields DEF OnLeft, Measures
<1>6. u.balance[a] = y - x
  BY <1>1, <1>2, <1>3, RotateLeftFields
<1>7. u.balance[b] = z - (1 + (IF x > y THEN x ELSE y))
  BY <1>1, <1>2, <1>6, RotateLeftFields
<1>8. u.balance[a] = OnRight(u, h2, a) - OnLeft(u, h2, a)
  BY <1>4, <1>6
<1>9. u.balance[b] = OnRight(u, h2, b) - OnLeft(u, h2, b)
  BY <1>1, <1>4, <1>5, <1>7
<1>10. QED
  BY <1>8, <1>9 DEF Exact

\* The same for rotateright, where the left child comes up.
THEOREM RotateRightExact ==
    ASSUME NEW t \in TreeType, NEW a \in Key, NEW b \in Key,
           b = t.left[a], a # b, a \in t.lkid,
           NEW h \in [Key -> Nat], NEW h2 \in [Key -> Nat],
           a \in t.rkid => t.right[a] \in Key \ {a, b},
           b \in t.lkid => t.left[b] \in Key \ {a, b},
           b \in t.rkid => t.right[b] \in Key \ {a, b},
           \A k \in Key \ {a, b} : h2[k] = h[k],
           Measures(t, h, b), Exact(t, h, a), Exact(t, h, b),
           Measures(RotateRight(t, a), h2, a)
    PROVE  Exact(RotateRight(t, a), h2, a) /\ Exact(RotateRight(t, a), h2, b)
<1> DEFINE u == RotateRight(t, a)
           x == OnRight(t, h, a)
           y == OnRight(t, h, b)
           z == OnLeft(t, h, b)
<1>1. x \in Nat /\ y \in Nat /\ z \in Nat
  BY DEF OnLeft, OnRight
<1>2. t.balance[b] = y - z
  BY DEF Exact
<1>3. t.balance[a] = x - (1 + (IF y > z THEN y ELSE z))
  <2>1. OnLeft(t, h, a) = h[b]
    BY DEF OnLeft
  <2>2. h[b] = 1 + (IF z > y THEN z ELSE y)
    BY DEF Measures
  <2>3. t.balance[a] = x - OnLeft(t, h, a)
    BY DEF Exact
  <2>4. QED
    BY <1>1, <2>1, <2>2, <2>3
<1>4. OnRight(u, h2, a) = x /\ OnLeft(u, h2, a) = y /\ OnLeft(u, h2, b) = z
  BY RotateRightFields DEF OnLeft, OnRight
<1>5. OnRight(u, h2, b) = 1 + (IF y > x THEN y ELSE x)
  BY <1>4, RotateRightFields DEF OnRight, Measures
<1>6. u.balance[a] = x - y
  BY <1>1, <1>2, <1>3, RotateRightFields
<1>7. u.balance[b] = 1 + (IF y > x THEN y ELSE x) - z
  BY <1>1, <1>2, <1>6, RotateRightFields
<1>8. u.balance[a] = OnRight(u, h2, a) - OnLeft(u, h2, a)
  BY <1>4, <1>6
<1>9. u.balance[b] = OnRight(u, h2, b) - OnLeft(u, h2, b)
  BY <1>1, <1>4, <1>5, <1>7
<1>10. QED
  BY <1>8, <1>9 DEF Exact

-----------------------------------------------------------------------------
(* Chains of nodes.                                                        *)

\* A set of naturals has a least member.
LEMMA Least ==
    ASSUME NEW W \in SUBSET Nat, W # {}
    PROVE  \E m \in W : \A n \in W : m <= n
<1>1. PICK m \in W : \A n \in W : ~(<<n, m>> \in OpToRel(<, Nat))
  BY NatLessThanWellFounded, WFMin
<1>2. \A n \in W : m <= n
  <2> TAKE n \in W
  <2>1. <<n, m>> \in Nat \X Nat /\ ~(n < m)
    BY <1>1 DEF OpToRel
  <2> QED BY <2>1
<1> QED BY <1>2

\* s is the chain of nodes from a on.
IsChain(next, a, s) ==
    /\ s \in Seq(Key) /\ Len(s) \in Nat \ {0}
    /\ s[1] = a
    /\ \A i \in 1..(Len(s) - 1) : next[s[i]] = s[i + 1]
    /\ next[s[Len(s)]] = NULL

Falls(next, rank) == /\ next \in [Key -> Key \union {NULL}]
                     /\ rank \in [Key -> Nat]
                     /\ \A k \in Key : next[k] # NULL => rank[next[k]] < rank[k]

\* A chain from the next node is one from this node, with it in front.
LEMMA ChainLonger ==
    ASSUME NEW next \in [Key -> Key \union {NULL}], NEW a \in Key, next[a] \in Key,
           NEW s, IsChain(next, next[a], s)
    PROVE  IsChain(next, a, <<a>> \o s)
<1> DEFINE r == <<a>> \o s
<1>1. s \in Seq(Key) /\ Len(s) \in Nat \ {0} /\ s[1] = next[a]
  BY DEF IsChain
<1>2. r \in Seq(Key) /\ Len(r) = Len(s) + 1 /\ r[1] = a
  BY <1>1
<1>3. \A i \in 2..Len(r) : r[i] = s[i - 1]
  BY <1>1, <1>2
<1> HIDE DEF r
<1>4. ASSUME NEW i \in 1..(Len(r) - 1) PROVE next[r[i]] = r[i + 1]
  <2>1. CASE i = 1
    BY <1>1, <1>2, <1>3, <2>1
  <2>2. CASE i # 1
    <3>1. i - 1 \in 1..(Len(s) - 1) /\ i + 1 \in 2..Len(r) /\ i \in 2..Len(r)
      BY <1>1, <1>2, <2>2
    <3>2. next[s[i - 1]] = s[(i - 1) + 1]
      BY <3>1 DEF IsChain
    <3> QED BY <1>1, <1>3, <3>1, <3>2
  <2> QED BY <2>1, <2>2
<1>5. next[r[Len(r)]] = NULL
  BY <1>1, <1>2, <1>3 DEF IsChain
<1>6. IsChain(next, a, r)
  BY <1>1, <1>2, <1>4, <1>5 DEF IsChain
<1> QED BY <1>6 DEF r

\* Where there is no next node the chain is the node.
LEMMA ChainEnds ==
    ASSUME NEW next, NEW a \in Key, next[a] = NULL
    PROVE  IsChain(next, a, <<a>>)
  BY DEF IsChain

\* There is one chain from a node.
LEMMA ChainUnique ==
    ASSUME NEW next \in [Key -> Key \union {NULL}], NEW a \in Key, NULL \notin Key,
           NEW r, NEW s, IsChain(next, a, r), IsChain(next, a, s)
    PROVE  r = s
<1>1. r \in Seq(Key) /\ s \in Seq(Key) /\ Len(r) \in Nat \ {0} /\ Len(s) \in Nat \ {0}
      /\ r[1] = a /\ s[1] = a
  BY DEF IsChain
<1>2. \A i \in Nat \ {0} : i <= Len(r) /\ i <= Len(s) => r[i] = s[i]
  <2> DEFINE W == {i \in Nat \ {0} : i <= Len(r) /\ i <= Len(s) /\ r[i] # s[i]}
  <2> SUFFICES ASSUME W # {} PROVE FALSE
    OBVIOUS
  <2>1. PICK i \in W : \A j \in W : i <= j
    BY Least
  <2>2. i # 1 /\ i - 1 \notin W /\ i - 1 \in Nat \ {0}
    BY <1>1, <2>1
  <2>3. r[i - 1] = s[i - 1]
    BY <1>1, <2>1, <2>2
  <2>4. i - 1 \in 1..(Len(r) - 1) /\ i - 1 \in 1..(Len(s) - 1)
    BY <1>1, <2>1, <2>2
  <2>5. next[r[i - 1]] = r[(i - 1) + 1] /\ next[s[i - 1]] = s[(i - 1) + 1]
    BY <2>4 DEF IsChain
  <2> QED BY <2>1, <2>3, <2>5
<1>3. ~(Len(r) < Len(s))
  <2> SUFFICES ASSUME Len(r) < Len(s) PROVE FALSE
    OBVIOUS
  <2>1. r[Len(r)] = s[Len(r)] /\ Len(r) \in 1..(Len(s) - 1)
    BY <1>1, <1>2
  <2>2. next[s[Len(r)]] = s[Len(r) + 1] /\ next[r[Len(r)]] = NULL
    BY <2>1 DEF IsChain
  <2>3. s[Len(r) + 1] \in Key
    BY <1>1, <2>1
  <2> QED BY <2>1, <2>2, <2>3
<1>4. ~(Len(s) < Len(r))
  <2> SUFFICES ASSUME Len(s) < Len(r) PROVE FALSE
    OBVIOUS
  <2>1. r[Len(s)] = s[Len(s)] /\ Len(s) \in 1..(Len(r) - 1)
    BY <1>1, <1>2
  <2>2. next[r[Len(s)]] = r[Len(s) + 1] /\ next[s[Len(s)]] = NULL
    BY <2>1 DEF IsChain
  <2>3. r[Len(s) + 1] \in Key
    BY <1>1, <2>1
  <2> QED BY <2>1, <2>2, <2>3
<1>5. Len(r) = Len(s)
  BY <1>1, <1>3, <1>4
<1>6. \A i \in 1..Len(r) : r[i] = s[i]
  BY <1>1, <1>2, <1>5
<1> QED BY <1>1, <1>5, <1>6

\* Where every step falls there is a chain from every node.
LEMMA ChainExists ==
    ASSUME NEW next, NEW rank, Falls(next, rank), NULL \notin Key
    PROVE  \A a \in Key : \E s : IsChain(next, a, s)
<1> DEFINE W == {n \in Nat : \E a \in Key : rank[a] = n /\ ~\E s : IsChain(next, a, s)}
<1> SUFFICES ASSUME W # {} PROVE FALSE
  BY DEF Falls
<1>1. PICK n \in W : \A m \in W : n <= m
  BY Least
<1>2. PICK a \in Key : rank[a] = n /\ ~\E s : IsChain(next, a, s)
  BY <1>1
<1>3. next[a] # NULL
  BY <1>2, ChainEnds
<1>4. next[a] \in Key /\ rank[next[a]] < n /\ rank[next[a]] \in Nat
  BY <1>2, <1>3 DEF Falls
<1>5. rank[next[a]] \notin W
  BY <1>1, <1>4
<1>6. PICK s : IsChain(next, next[a], s)
  BY <1>4, <1>5
<1>7. IsChain(next, a, <<a>> \o s)
  BY <1>4, <1>6, ChainLonger DEF Falls
<1> QED BY <1>2, <1>7

\* Chain, the loop of firstnode and lookupnode, goes down that chain.
LEMMA ChainIs ==
    ASSUME NEW next, NEW rank, Falls(next, rank), NEW a \in Key, NULL \notin Key
    PROVE  IsChain(next, a, Chain(next, a))
<1> DEFINE Down(f) == f = [k \in Key |-> <<k>> \o (IF next[k] = NULL THEN <<>> ELSE f[next[k]])]
           g == [k \in Key |-> CHOOSE s : IsChain(next, k, s)]
<1>1. \A k \in Key : IsChain(next, k, g[k])
  BY ChainExists
<1>2. ASSUME NEW k \in Key
      PROVE  g[k] = <<k>> \o (IF next[k] = NULL THEN <<>> ELSE g[next[k]])
  <2>1. CASE next[k] = NULL
    <3>1. <<k>> \o <<>> = <<k>>
      OBVIOUS
    <3>2. IsChain(next, k, <<k>>)
      BY <2>1, ChainEnds
    <3>3. g[k] = <<k>>
      BY <1>1, <3>2, ChainUnique DEF Falls
    <3> QED BY <2>1, <3>1, <3>3
  <2>2. CASE next[k] # NULL
    <3>1. next[k] \in Key
      BY <2>2 DEF Falls
    <3>2. IsChain(next, k, <<k>> \o g[next[k]])
      BY <1>1, <3>1, ChainLonger DEF Falls
    <3>3. g[k] = <<k>> \o g[next[k]]
      BY <1>1, <3>2, ChainUnique DEF Falls
    <3> QED BY <2>2, <3>3
  <2> QED BY <2>1, <2>2
<1>3. Down(g)
  <2> HIDE DEF g
  <2>1. g = [k \in Key |-> g[k]]
    BY DEF g
  <2> QED BY <1>2, <2>1
<1> DEFINE d == CHOOSE f : Down(f)
<1>4. Down(d)
  BY <1>3
<1>5. Chain(next, a) = d[a]
  BY DEF Chain
<1> HIDE DEF d, g
<1>6. \A k \in Key : IsChain(next, k, d[k])
  <2> DEFINE W == {n \in Nat : \E k \in Key : rank[k] = n /\ ~IsChain(next, k, d[k])}
  <2> SUFFICES ASSUME W # {} PROVE FALSE
    BY DEF Falls
  <2>1. PICK n \in W : \A m \in W : n <= m
    BY Least
  <2>2. PICK k \in Key : rank[k] = n /\ ~IsChain(next, k, d[k])
    BY <2>1
  <2>3. d[k] = <<k>> \o (IF next[k] = NULL THEN <<>> ELSE d[next[k]])
    BY <1>4
  <2>4. CASE next[k] = NULL
    <3>1. d[k] = <<k>>
      BY <2>3, <2>4
    <3> QED BY <2>2, <2>4, <3>1, ChainEnds
  <2>5. CASE next[k] # NULL
    <3>1. next[k] \in Key /\ rank[next[k]] < n /\ rank[next[k]] \in Nat
      BY <2>2, <2>5 DEF Falls
    <3>2. rank[next[k]] \notin W
      BY <2>1, <3>1
    <3>3. IsChain(next, next[k], d[next[k]])
      BY <3>1, <3>2
    <3>4. IsChain(next, k, <<k>> \o d[next[k]])
      BY <3>1, <3>3, ChainLonger DEF Falls
    <3> QED BY <2>2, <2>3, <2>5, <3>4
  <2> QED BY <2>4, <2>5
<1> QED BY <1>5, <1>6

-----------------------------------------------------------------------------
(* The shape of the tree, on either side of a node.                        *)

\* The two sides of a node, so that what is said of one is said of the other.
Side == {"left", "right"}
Opp(s) == IF s = "left" THEN "right" ELSE "left"
Ptr(t, s) == IF s = "left" THEN t.left ELSE t.right
Kid(t, s) == IF s = "left" THEN t.lkid ELSE t.rkid
Weight(t, s, n) == IF s = "left" THEN -t.balance[n] ELSE t.balance[n]

\* y is on side s of x; k has not passed the bound x on side s, NULL being none.
Off(s, x, y) == IF s = "left" THEN y < x ELSE x < y
Within(s, x, k) == x = NULL \/ Off(s, k, x)

\* bd[s][n] is the bound on side s of the nodes at and below n, up[n] the parent.
OnSide(t, M, bd, up, s, n) ==
    IF n \in Kid(t, s)
    THEN LET c == Ptr(t, s)[n]
         IN c \in M /\ bd[s][c] = bd[s][n] /\ bd[Opp(s)][c] = n /\ up[c] = n
    ELSE Ptr(t, s)[n] = bd[s][n] /\ \A m \in M : Off(s, n, m) => ~Within(s, bd[s][n], m)

Hangs(t, s, p, n) == p \in Kid(t, s) /\ Ptr(t, s)[p] = n

Node(t, M, bd, up, n) ==
    /\ up[n] \in M \union {NULL}
    /\ IF up[n] = NULL THEN n = t.root ELSE \E s \in Side : Hangs(t, s, up[n], n)
    /\ \A s \in Side : /\ bd[s][n] \in M \union {NULL}
                       /\ Within(s, bd[s][n], n)
                       /\ OnSide(t, M, bd, up, s, n)

Shape(t, M, bd, up) ==
    /\ t \in TreeType /\ M \in SUBSET Key
    /\ bd \in [Side -> [Key -> Key \union {NULL}]] /\ up \in [Key -> Key \union {NULL}]
    /\ \A s \in Side : Kid(t, s) \subseteq M
    /\ \A n \in M : Node(t, M, bd, up, n)
    /\ \A n \in Key \ M : t.left[n] = NULL /\ t.right[n] = NULL /\ t.balance[n] = 0
    /\ IF M = {} THEN t.root = NULL
       ELSE t.root \in M /\ up[t.root] = NULL /\ \A s \in Side : bd[s][t.root] = NULL

\* There are two sides, each opposite the other.
LEMMA SideFacts ==
    /\ \A s \in Side : Opp(s) \in Side /\ Opp(s) # s /\ Opp(Opp(s)) = s
    /\ \A s \in Side, r \in Side : r = s \/ r = Opp(s)
  BY DEF Side, Opp

\* To lie on a side of one another orders the keys.
LEMMA OffFacts ==
    ASSUME KeyAssumption
    PROVE  /\ \A s \in Side : \A x \in Key : ~Off(s, x, x)
           /\ \A s \in Side : \A x, y \in Key : Off(Opp(s), x, y) <=> Off(s, y, x)
           /\ \A s \in Side : \A x, y \in Key : x = y \/ Off(s, x, y) \/ Off(s, y, x)
           /\ \A s \in Side : \A x, y \in Key : Off(s, x, y) => ~Off(s, y, x)
           /\ \A s \in Side : \A x, y, z \in Key : Off(s, x, y) /\ Off(s, y, z) => Off(s, x, z)
<1>1. Key \subseteq Int /\ NULL \notin Key
  BY DEF KeyAssumption
<1> QED BY <1>1 DEF Side, Opp, Off

\* The fields of a tree, by side.
LEMMA TypeFacts ==
    ASSUME NEW t \in TreeType
    PROVE  /\ \A s \in Side : /\ Ptr(t, s) \in [Key -> Key \union {NULL}]
                              /\ Kid(t, s) \subseteq Key
                              /\ \A n \in Key : Weight(t, s, n) \in Int
                                             /\ Weight(t, Opp(s), n) = -Weight(t, s, n)
           /\ t.root \in Key \union {NULL} /\ t.count \in Int
           /\ t.balance \in [Key -> Int]
<1>1. \A n \in Key : t.balance[n] \in Int /\ -(-t.balance[n]) = t.balance[n]
  BY DEF TreeType
<1> QED BY <1>1 DEF TreeType, Side, Opp, Ptr, Kid, Weight

\* b, which hangs on side s of a, has come up below p, and a hangs below b.
Rotated(t, u, s, p, a, b) ==
    LET o == Opp(s)
        c == IF b \in Kid(t, o) THEN Ptr(t, o)[b] ELSE b
    IN /\ u \in TreeType
       /\ u.root = IF p = NULL THEN b ELSE t.root
       /\ u.count = t.count
       /\ \A n \in Key : Ptr(u, s)[n] = IF n = a THEN c
                                        ELSE IF n = p /\ Hangs(t, s, p, a) THEN b
                                        ELSE Ptr(t, s)[n]
       /\ \A n \in Key : Ptr(u, o)[n] = IF n = b THEN a
                                        ELSE IF n = p /\ Hangs(t, o, p, a) THEN b
                                        ELSE Ptr(t, o)[n]
       /\ Kid(u, s) = IF b \in Kid(t, o) THEN Kid(t, s) ELSE Kid(t, s) \ {a}
       /\ Kid(u, o) = Kid(t, o) \union {b}
       /\ Weight(u, s, a) = Weight(t, s, a) - 1
                            - (IF Weight(t, s, b) > 0 THEN Weight(t, s, b) ELSE 0)
       /\ Weight(u, s, b) = Weight(t, s, b) - 1
                            + (IF Weight(u, s, a) < 0 THEN Weight(u, s, a) ELSE 0)
       /\ \A n \in Key \ {a, b} : Weight(u, s, n) = Weight(t, s, n)

\* Where a node hangs below its parent.
LEMMA HangsFacts ==
    ASSUME KeyAssumption, NEW t, NEW M, NEW bd, NEW up, Shape(t, M, bd, up),
           NEW a \in M, NEW p, p = up[a], p # NULL
    PROVE  /\ p \in M /\ p # a
           /\ \A s \in Side : Hangs(t, s, p, a) => /\ Off(s, p, a)
                                                   /\ ~Hangs(t, Opp(s), p, a)
                                                   /\ Ptr(t, Opp(s))[p] # a
<1>1. /\ p \in M /\ M \subseteq Key /\ NULL \notin Key
      /\ Node(t, M, bd, up, a) /\ Node(t, M, bd, up, p)
  BY DEF Shape, Node, KeyAssumption
<1>2. ASSUME NEW s \in Side, Hangs(t, s, p, a)
      PROVE  Off(s, p, a)
  <2>1. bd[Opp(s)][a] = p
    BY <1>1, <1>2 DEF Node, OnSide, Hangs
  <2>2. Within(Opp(s), p, a)
    BY <1>1, <2>1, SideFacts DEF Node
  <2>3. Off(Opp(s), a, p)
    BY <2>2 DEF Within
  <2> QED BY <1>1, <2>3, OffFacts
<1>3. ASSUME NEW s \in Side, Hangs(t, s, p, a)
      PROVE  Ptr(t, Opp(s))[p] # a
  <2> SUFFICES ASSUME Ptr(t, Opp(s))[p] = a PROVE FALSE
    OBVIOUS
  <2>1. Opp(s) \in Side
    BY SideFacts
  <2>2. CASE p \in Kid(t, Opp(s))
    <3>1. Off(Opp(s), p, a)
      BY <1>2, <2>1, <2>2 DEF Hangs
    <3> QED BY <1>1, <1>2, <1>3, <3>1, OffFacts
  <2>3. CASE p \notin Kid(t, Opp(s))
    <3>1. bd[Opp(s)][p] = a
      BY <1>1, <2>1, <2>3 DEF Node, OnSide
    <3>2. Within(Opp(s), a, p)
      BY <1>1, <2>1, <3>1 DEF Node
    <3>3. Off(Opp(s), p, a)
      BY <1>1, <3>2 DEF Within
    <3> QED BY <1>1, <1>2, <1>3, <3>3, OffFacts
  <2> QED BY <2>2, <2>3
<1>4. p # a
  <2>1. PICK s \in Side : Hangs(t, s, p, a)
    BY <1>1 DEF Node
  <2> QED BY <1>1, <1>2, <2>1, OffFacts
<1> QED BY <1>1, <1>2, <1>3, <1>4 DEF Hangs

\* The code's question whether n is the left child of p, which compares it with
\* the pointer alone, has the right answer.
LEMMA IsLeftMeans ==
    ASSUME KeyAssumption, NEW t, NEW M, NEW bd, NEW up, Shape(t, M, bd, up),
           NEW a \in M, NEW p, p = up[a], p # NULL
    PROVE  /\ IsLeft(t, p, a) => Hangs(t, "left", p, a)
           /\ ~IsLeft(t, p, a) => Hangs(t, "right", p, a)
<1>1. \E s \in Side : Hangs(t, s, p, a)
  BY DEF Shape, Node
<1>2. Hangs(t, "right", p, a) => t.left[p] # a
  BY HangsFacts DEF Side, Opp, Ptr
<1> QED BY <1>1, <1>2 DEF Side, IsLeft, Hangs, Ptr

-----------------------------------------------------------------------------
(* What a rotation does to the pointers.                                   *)

\* rotateleft and rotateright, and the new pointer of the parent.
TurnedLeft(t, p, a)  == Hang(RotateLeft(t, a), p, a, t.right[a])
TurnedRight(t, p, a) == Hang(RotateRight(t, a), p, a, t.left[a])

\* The child that comes up is another node than the one it hangs from, and
\* than that one's parent.
LEMMA KidFacts ==
    ASSUME KeyAssumption, NEW t, NEW M, NEW bd, NEW up, Shape(t, M, bd, up),
           NEW a \in M, NEW s \in Side, a \in Kid(t, s), NEW b, b = Ptr(t, s)[a]
    PROVE  b \in M /\ b # a /\ b # up[a] /\ Off(s, a, b) /\ up[b] = a
<1>1. /\ M \subseteq Key /\ NULL \notin Key /\ Node(t, M, bd, up, a)
  BY DEF Shape, KeyAssumption
<1>2. b \in M /\ bd[s][b] = bd[s][a] /\ bd[Opp(s)][b] = a /\ up[b] = a
  BY <1>1 DEF Node, OnSide
<1>3. Hangs(t, s, a, b)
  BY DEF Hangs
<1>4. b # a /\ Off(s, a, b)
  BY <1>1, <1>2, <1>3, HangsFacts
<1>5. ASSUME b = up[a] PROVE FALSE
  <2>1. PICK r \in Side : Hangs(t, r, b, a)
    BY <1>1, <1>2, <1>5 DEF Node
  <2>2. Off(r, b, a)
    BY <1>1, <1>2, <1>5, <2>1, HangsFacts
  <2>2a. Node(t, M, bd, up, b)
    BY <1>2 DEF Shape
  <2>2b. bd[r][a] = bd[r][b]
    BY <2>1, <2>2a DEF Hangs, Node, OnSide
  <2>3. r = Opp(s)
    BY <1>1, <1>2, <1>4, <2>2, OffFacts, SideFacts
  <2>4. bd[r][a] = a
    BY <1>2, <2>2b, <2>3, SideFacts
  <2>5. Within(r, a, a)
    BY <1>1, <2>4 DEF Node
  <2> QED BY <1>1, <2>5, OffFacts DEF Within
<1> QED BY <1>2, <1>4, <1>5

\* Where the fields of a tree have their types.
LEMMA FieldsOfTheType ==
    ASSUME NEW t \in TreeType,
           NEW l \in [Key -> Key \union {NULL}], NEW r \in [Key -> Key \union {NULL}],
           NEW i \in SUBSET Key, NEW j \in SUBSET Key, NEW b \in [Key -> Int]
    PROVE  /\ [t EXCEPT !.right = r, !.rkid = j, !.lkid = i, !.left = l, !.balance = b] \in TreeType
           /\ [t EXCEPT !.left = l, !.lkid = i, !.rkid = j, !.right = r, !.balance = b] \in TreeType
  BY DEF TreeType

\* rotateleft and the new pointer of the parent, side by side.
LEMMA TurnedLeftIs ==
    ASSUME KeyAssumption, NEW t, NEW M, NEW bd, NEW up, Shape(t, M, bd, up),
           NEW a \in M, a \in t.rkid, NEW p, p = up[a]
    PROVE  Rotated(t, TurnedLeft(t, p, a), "right", p, a, t.right[a])
<1> DEFINE b == t.right[a]
           r == RotateLeft(t, a)
           u == TurnedLeft(t, p, a)
<1>0. /\ t \in TreeType /\ a \in Key /\ M \subseteq Key /\ NULL \notin Key
      /\ p = NULL \/ p \in M
  BY DEF Shape, Node, KeyAssumption
<1>1. b \in Key /\ b # a /\ b # p
  <2>1. \A s \in Side : a \in Kid(t, s) => LET d == Ptr(t, s)[a] IN d \in M /\ d # a /\ d # p
    BY KidFacts
  <2> QED BY <1>0, <2>1 DEF Side, Kid, Ptr
<1>2. /\ r.root = t.root /\ r.count = t.count
      /\ r.left = [t.left EXCEPT ![b] = a]
      /\ r.right = [t.right EXCEPT ![a] = IF b \in t.lkid THEN t.left[b] ELSE b]
      /\ r.lkid = t.lkid \union {b}
      /\ r.rkid = IF b \in t.lkid THEN t.rkid ELSE t.rkid \ {a}
  BY <1>0, <1>1 DEF RotateLeft, TreeType
<1>3. /\ r.balance[a] = t.balance[a] - 1 - (IF t.balance[b] > 0 THEN t.balance[b] ELSE 0)
      /\ r.balance[b] = t.balance[b] - 1 + (IF r.balance[a] < 0 THEN r.balance[a] ELSE 0)
      /\ \A n \in Key \ {a, b} : r.balance[n] = t.balance[n]
      /\ r.balance \in [Key -> Int]
  BY <1>0, <1>1 DEF RotateLeft, TreeType
<1>4. r \in TreeType
  <2>0. /\ t.left \in [Key -> Key \union {NULL}] /\ t.right \in [Key -> Key \union {NULL}]
        /\ t.lkid \subseteq Key /\ t.rkid \subseteq Key
        /\ t.root \in Key \union {NULL} /\ t.count \in Int
    BY <1>0 DEF TreeType
  <2>1. (IF b \in t.lkid THEN t.left[b] ELSE b) \in Key \union {NULL}
    BY <1>1, <2>0
  <2>2. /\ r.left \in [Key -> Key \union {NULL}] /\ r.right \in [Key -> Key \union {NULL}]
        /\ r.lkid \subseteq Key /\ r.rkid \subseteq Key
    BY <1>0, <1>1, <1>2, <2>0, <2>1
  <2>3. r = [t EXCEPT !.right = r.right, !.rkid = r.rkid, !.lkid = r.lkid, !.left = r.left,
                      !.balance = r.balance]
    BY <1>0, <1>1 DEF RotateLeft, TreeType
  <2> HIDE DEF r
  <2>4. [t EXCEPT !.right = r.right, !.rkid = r.rkid, !.lkid = r.lkid, !.left = r.left,
                  !.balance = r.balance] \in TreeType
    BY <1>0, <1>3, <2>2, FieldsOfTheType
  <2> QED BY <2>3, <2>4
<1>5. p # NULL => (IsLeft(r, p, a) <=> Hangs(t, "left", p, a))
  <2>1. p # NULL => (IsLeft(r, p, a) <=> IsLeft(t, p, a))
    BY <1>0, <1>1, <1>2 DEF IsLeft, TreeType
  <2>2. p # NULL => \E s \in Side : Hangs(t, s, p, a)
    BY <1>0 DEF Shape, Node
  <2> QED BY <2>1, <2>2, IsLeftMeans DEF Hangs, Ptr, IsLeft, Side
<1>6. p # NULL => (Hangs(t, "right", p, a) <=> ~Hangs(t, "left", p, a))
  BY HangsFacts, IsLeftMeans DEF Side, Opp
<1>7. u = IF p = NULL THEN [r EXCEPT !.root = b]
          ELSE IF Hangs(t, "left", p, a) THEN [r EXCEPT !.left[p] = b]
          ELSE [r EXCEPT !.right[p] = b]
  BY <1>5 DEF TurnedLeft, Hang
<1> HIDE DEF r, u, b
<1>8. /\ u \in TreeType
      /\ u.root = (IF p = NULL THEN b ELSE r.root) /\ u.count = r.count
      /\ u.lkid = r.lkid /\ u.rkid = r.rkid /\ u.balance = r.balance
  BY <1>0, <1>1, <1>4, <1>7 DEF TreeType
<1>9. /\ \A n \in Key : u.left[n] = IF n = p /\ Hangs(t, "left", p, a) THEN b ELSE r.left[n]
      /\ \A n \in Key : u.right[n] = IF n = p /\ Hangs(t, "right", p, a) THEN b ELSE r.right[n]
  BY <1>0, <1>1, <1>4, <1>6, <1>7 DEF TreeType
<1>10. \A n \in Key : u.left[n] = IF n = b THEN a
                                  ELSE IF n = p /\ Hangs(t, "left", p, a) THEN b ELSE t.left[n]
  BY <1>0, <1>1, <1>2, <1>9 DEF TreeType
<1>11. \A n \in Key : u.right[n] = IF n = a THEN IF b \in t.lkid THEN t.left[b] ELSE b
                                   ELSE IF n = p /\ Hangs(t, "right", p, a) THEN b
                                   ELSE t.right[n]
  <2>1. p # a
    BY <1>0, HangsFacts
  <2> QED BY <1>0, <1>1, <1>2, <1>9, <2>1 DEF TreeType
<1>12. Opp("right") = "left"
  BY DEF Opp
<1> QED BY <1>0, <1>1, <1>2, <1>3, <1>8, <1>10, <1>11, <1>12
        DEF Rotated, Ptr, Kid, Weight, u, b

\* rotateright and the new pointer of the parent, side by side.
LEMMA TurnedRightIs ==
    ASSUME KeyAssumption, NEW t, NEW M, NEW bd, NEW up, Shape(t, M, bd, up),
           NEW a \in M, a \in t.lkid, NEW p, p = up[a]
    PROVE  Rotated(t, TurnedRight(t, p, a), "left", p, a, t.left[a])
<1> DEFINE b == t.left[a]
           r == RotateRight(t, a)
           u == TurnedRight(t, p, a)
<1>0. /\ t \in TreeType /\ a \in Key /\ M \subseteq Key /\ NULL \notin Key
      /\ p = NULL \/ p \in M
  BY DEF Shape, Node, KeyAssumption
<1>1. b \in Key /\ b # a /\ b # p
  <2>1. \A s \in Side : a \in Kid(t, s) => LET d == Ptr(t, s)[a] IN d \in M /\ d # a /\ d # p
    BY KidFacts
  <2> QED BY <1>0, <2>1 DEF Side, Kid, Ptr
<1>2. /\ r.root = t.root /\ r.count = t.count
      /\ r.right = [t.right EXCEPT ![b] = a]
      /\ r.left = [t.left EXCEPT ![a] = IF b \in t.rkid THEN t.right[b] ELSE b]
      /\ r.rkid = t.rkid \union {b}
      /\ r.lkid = IF b \in t.rkid THEN t.lkid ELSE t.lkid \ {a}
  BY <1>0, <1>1 DEF RotateRight, TreeType
<1>3. /\ r.balance[a] = t.balance[a] + 1 - (IF t.balance[b] < 0 THEN t.balance[b] ELSE 0)
      /\ r.balance[b] = t.balance[b] + 1 + (IF r.balance[a] > 0 THEN r.balance[a] ELSE 0)
      /\ \A n \in Key \ {a, b} : r.balance[n] = t.balance[n]
      /\ r.balance \in [Key -> Int]
  BY <1>0, <1>1 DEF RotateRight, TreeType
<1>4. r \in TreeType
  <2>0. /\ t.left \in [Key -> Key \union {NULL}] /\ t.right \in [Key -> Key \union {NULL}]
        /\ t.lkid \subseteq Key /\ t.rkid \subseteq Key
        /\ t.root \in Key \union {NULL} /\ t.count \in Int
    BY <1>0 DEF TreeType
  <2>1. (IF b \in t.rkid THEN t.right[b] ELSE b) \in Key \union {NULL}
    BY <1>1, <2>0
  <2>2. /\ r.left \in [Key -> Key \union {NULL}] /\ r.right \in [Key -> Key \union {NULL}]
        /\ r.lkid \subseteq Key /\ r.rkid \subseteq Key
    BY <1>0, <1>1, <1>2, <2>0, <2>1
  <2>3. r = [t EXCEPT !.left = r.left, !.lkid = r.lkid, !.rkid = r.rkid, !.right = r.right,
                      !.balance = r.balance]
    BY <1>0, <1>1 DEF RotateRight, TreeType
  <2> HIDE DEF r
  <2>4. [t EXCEPT !.left = r.left, !.lkid = r.lkid, !.rkid = r.rkid, !.right = r.right,
                  !.balance = r.balance] \in TreeType
    BY <1>0, <1>3, <2>2, FieldsOfTheType
  <2> QED BY <2>3, <2>4
<1>5. p # NULL => (IsLeft(r, p, a) <=> Hangs(t, "left", p, a))
  <2>0. p # NULL => p # a
    BY HangsFacts
  <2>1. p # NULL => (IsLeft(r, p, a) <=> IsLeft(t, p, a))
    BY <1>0, <1>1, <1>2, <2>0 DEF IsLeft, TreeType
  <2>2. p # NULL => \E s \in Side : Hangs(t, s, p, a)
    BY <1>0 DEF Shape, Node
  <2> QED BY <2>1, <2>2, IsLeftMeans DEF Hangs, Ptr, IsLeft, Side
<1>6. p # NULL => (Hangs(t, "right", p, a) <=> ~Hangs(t, "left", p, a))
  BY HangsFacts, IsLeftMeans DEF Side, Opp
<1>7. u = IF p = NULL THEN [r EXCEPT !.root = b]
          ELSE IF Hangs(t, "left", p, a) THEN [r EXCEPT !.left[p] = b]
          ELSE [r EXCEPT !.right[p] = b]
  BY <1>5 DEF TurnedRight, Hang
<1> HIDE DEF r, u, b
<1>8. /\ u \in TreeType
      /\ u.root = (IF p = NULL THEN b ELSE r.root) /\ u.count = r.count
      /\ u.lkid = r.lkid /\ u.rkid = r.rkid /\ u.balance = r.balance
  BY <1>0, <1>1, <1>4, <1>7 DEF TreeType
<1>9. /\ \A n \in Key : u.left[n] = IF n = p /\ Hangs(t, "left", p, a) THEN b ELSE r.left[n]
      /\ \A n \in Key : u.right[n] = IF n = p /\ Hangs(t, "right", p, a) THEN b ELSE r.right[n]
  BY <1>0, <1>1, <1>4, <1>6, <1>7 DEF TreeType
<1>10. \A n \in Key : u.right[n] = IF n = b THEN a
                                   ELSE IF n = p /\ Hangs(t, "right", p, a) THEN b ELSE t.right[n]
  BY <1>0, <1>1, <1>2, <1>9 DEF TreeType
<1>11. \A n \in Key : u.left[n] = IF n = a THEN IF b \in t.rkid THEN t.right[b] ELSE b
                                  ELSE IF n = p /\ Hangs(t, "left", p, a) THEN b
                                  ELSE t.left[n]
  <2>1. p # a
    BY <1>0, HangsFacts
  <2> QED BY <1>0, <1>1, <1>2, <1>9, <2>1 DEF TreeType
<1>12. Opp("left") = "right"
  BY DEF Opp
<1>13. \A n \in Key : t.balance[n] \in Int /\ u.balance[n] \in Int
  BY <1>0, <1>8 DEF TreeType
<1>14. /\ u.balance[a] = t.balance[a] + 1 - (IF t.balance[b] < 0 THEN t.balance[b] ELSE 0)
       /\ u.balance[b] = t.balance[b] + 1 + (IF u.balance[a] > 0 THEN u.balance[a] ELSE 0)
       /\ \A n \in Key \ {a, b} : u.balance[n] = t.balance[n]
  BY <1>3, <1>8 DEF b
<1>15. /\ Weight(u, "left", a) = Weight(t, "left", a) - 1
              - (IF Weight(t, "left", b) > 0 THEN Weight(t, "left", b) ELSE 0)
       /\ Weight(u, "left", b) = Weight(t, "left", b) - 1
              + (IF Weight(u, "left", a) < 0 THEN Weight(u, "left", a) ELSE 0)
       /\ \A n \in Key \ {a, b} : Weight(u, "left", n) = Weight(t, "left", n)
  BY <1>0, <1>1, <1>13, <1>14 DEF Weight
<1> QED BY <1>0, <1>1, <1>2, <1>8, <1>10, <1>11, <1>12, <1>15
        DEF Rotated, Ptr, Kid, u, b

\* The bounds and the parents after b has come up above a.
BoundsAfter(bd, s, a, b) ==
    [r \in Side |-> [n \in Key |-> IF r = s /\ n = a THEN b
                                   ELSE IF r # s /\ n = b THEN bd[r][a] ELSE bd[r][n]]]
UpAfter(t, up, s, p, a, b) ==
    [n \in Key |-> IF n = a THEN b ELSE IF n = b THEN p
                   ELSE IF Hangs(t, Opp(s), b, n) THEN a ELSE up[n]]

\* A rotation leaves a threaded tree with the same nodes.
LEMMA RotatedShape ==
    ASSUME KeyAssumption, NEW t, NEW M, NEW bd, NEW up, Shape(t, M, bd, up),
           NEW a \in M, NEW s \in Side, a \in Kid(t, s), NEW b, b = Ptr(t, s)[a],
           NEW p, p = up[a], NEW u, Rotated(t, u, s, p, a, b)
    PROVE  Shape(u, M, BoundsAfter(bd, s, a, b), UpAfter(t, up, s, p, a, b))
<1> DEFINE o == Opp(s)
           c == Ptr(t, o)[b]
           bd2 == BoundsAfter(bd, s, a, b)
           up2 == UpAfter(t, up, s, p, a, b)
<1>0. /\ t \in TreeType /\ M \subseteq Key /\ NULL \notin Key /\ a \in Key
      /\ o \in Side /\ o # s /\ Opp(o) = s /\ Opp(s) = o /\ a \in Kid(t, s)
      /\ \A r \in Side : r = s \/ r = o
      /\ bd \in [Side -> [Key -> Key \union {NULL}]] /\ up \in [Key -> Key \union {NULL}]
      /\ p = NULL \/ p \in M
      /\ \A n \in M : Node(t, M, bd, up, n)
      /\ \A r \in Side : Kid(t, r) \subseteq M
  BY SideFacts DEF Shape, KeyAssumption, Node
<1>1. b \in M /\ b # a /\ b # p /\ Off(s, a, b) /\ up[b] = a
      /\ bd[s][b] = bd[s][a] /\ bd[o][b] = a
  <2>1. Node(t, M, bd, up, a)
    BY <1>0
  <2> QED BY <2>1, KidFacts DEF Node, OnSide
<1>2. b \in Kid(t, o) => /\ c \in M /\ c # b /\ c # a /\ up[c] = b /\ Off(o, b, c)
                         /\ bd[o][c] = a /\ bd[s][c] = b
  <2> SUFFICES ASSUME b \in Kid(t, o)
               PROVE  /\ c \in M /\ c # b /\ c # a /\ up[c] = b /\ Off(o, b, c)
                      /\ bd[o][c] = a /\ bd[s][c] = b
    OBVIOUS
  <2>1. Node(t, M, bd, up, b)
    BY <1>0, <1>1
  <2>2. bd[o][c] = bd[o][b] /\ bd[s][c] = b
    BY <1>0, <2>1 DEF Node, OnSide
  <2> QED BY <1>0, <1>1, <2>2, KidFacts
<1>3. p # NULL => p \in Key /\ p # a
  BY <1>0, HangsFacts
\* Which nodes have another parent than before, and which child is whose.
<1>4. ASSUME NEW n \in M, NEW r \in Side, n \in Kid(t, r)
      PROVE  LET d == Ptr(t, r)[n]
             IN /\ d \in M /\ up[d] = n /\ bd[r][d] = bd[r][n] /\ bd[Opp(r)][d] = n
                /\ d = a => n = p
                /\ d = b => n = a
                /\ Hangs(t, o, b, d) => n = b
  <2>1. Node(t, M, bd, up, n)
    BY <1>0
  <2>2. LET d == Ptr(t, r)[n]
        IN d \in M /\ up[d] = n /\ bd[r][d] = bd[r][n] /\ bd[Opp(r)][d] = n
    BY <1>4, <2>1 DEF Node, OnSide
  <2> QED BY <1>1, <1>2, <2>2 DEF Hangs
<1>5. /\ bd2 \in [Side -> [Key -> Key \union {NULL}]]
      /\ \A n \in Key : bd2[s][n] = IF n = a THEN b ELSE bd[s][n]
      /\ \A n \in Key : bd2[o][n] = IF n = b THEN bd[o][a] ELSE bd[o][n]
  BY <1>0, <1>1 DEF BoundsAfter
<1>6. /\ up2 \in [Key -> Key \union {NULL}]
      /\ up2[a] = b /\ up2[b] = p
      /\ b \in Kid(t, o) => up2[c] = a
      /\ \A n \in Key : n # a /\ n # b /\ ~Hangs(t, o, b, n) => up2[n] = up[n]
      /\ \A n \in M : up2[n] \in M \union {NULL}
  <2>1. \A n \in M : up[n] \in M \union {NULL}
    BY <1>0 DEF Node
  <2>2. \A n \in Key : up2[n] = IF n = a THEN b ELSE IF n = b THEN p
                                ELSE IF Hangs(t, o, b, n) THEN a ELSE up[n]
    BY DEF UpAfter
  <2>3. up2 \in [Key -> Key \union {NULL}]
    BY <1>0, <1>1 DEF UpAfter
  <2> HIDE DEF up2
  <2> QED BY <1>0, <1>1, <1>2, <2>1, <2>2, <2>3 DEF Hangs
<1>7. /\ u \in TreeType /\ u.root = (IF p = NULL THEN b ELSE t.root) /\ u.count = t.count
      /\ \A n \in Key : Ptr(u, s)[n] = IF n = a THEN IF b \in Kid(t, o) THEN c ELSE b
                                       ELSE IF n = p /\ Hangs(t, s, p, a) THEN b
                                       ELSE Ptr(t, s)[n]
      /\ \A n \in Key : Ptr(u, o)[n] = IF n = b THEN a
                                       ELSE IF n = p /\ Hangs(t, o, p, a) THEN b
                                       ELSE Ptr(t, o)[n]
      /\ Kid(u, s) = (IF b \in Kid(t, o) THEN Kid(t, s) ELSE Kid(t, s) \ {a})
      /\ Kid(u, o) = Kid(t, o) \union {b}
      /\ \A n \in Key \ {a, b} : Weight(u, s, n) = Weight(t, s, n)
  BY DEF Rotated
<1>7a. \A n : Hangs(t, o, b, n) <=> b \in Kid(t, o) /\ n = c
  BY DEF Hangs
<1> HIDE DEF o, c, bd2, up2
<1>8. \A r \in Side : Kid(u, r) \subseteq M
  BY <1>0, <1>1, <1>7
\* The bounds lie on their sides.
<1>9. ASSUME NEW n \in M, NEW r \in Side
      PROVE  bd2[r][n] \in M \union {NULL} /\ Within(r, bd2[r][n], n)
  <2>1. /\ bd[r][n] \in M \union {NULL} /\ Within(r, bd[r][n], n)
        /\ bd[r][a] \in M \union {NULL} /\ Within(r, bd[r][a], a)
    BY <1>0 DEF Node
  <2>2. CASE r = s /\ n = a
    BY <1>0, <1>1, <1>5, <2>2 DEF Within
  <2>3. CASE r = o /\ n = b
    <3>1. bd2[r][n] = bd[o][a]
      BY <1>0, <1>1, <1>5, <2>3
    <3>2. Off(o, b, a)
      BY <1>0, <1>1, OffFacts
    <3> QED BY <1>0, <1>1, <2>1, <2>3, <3>1, <3>2, OffFacts DEF Within
  <2>4. CASE ~(r = s /\ n = a) /\ ~(r = o /\ n = b)
    BY <1>0, <1>5, <2>1, <2>4
  <2> QED BY <2>2, <2>3, <2>4
\* The sides of a and of b that the rotation changes.
<1>10. OnSide(u, M, bd2, up2, s, a)
  <2>1. CASE b \in Kid(t, o)
    <3>1. a \in Kid(u, s) /\ Ptr(u, s)[a] = c
      BY <1>0, <1>7, <2>1
    <3>2. c \in M /\ c # a /\ c # b /\ c \in Key /\ up2[c] = a
      BY <1>0, <1>2, <1>6, <2>1
    <3>3. bd2[s][c] = b /\ bd2[s][a] = b /\ bd2[o][c] = a
      BY <1>0, <1>2, <1>5, <2>1, <3>2
    <3> QED BY <1>0, <3>1, <3>2, <3>3 DEF OnSide
  <2>2. CASE b \notin Kid(t, o)
    <3>1. \A m \in M : Off(o, b, m) => ~Within(o, a, m)
      BY <1>0, <1>1, <2>2 DEF Node, OnSide
    <3>2. \A m \in M : Off(s, a, m) => ~Within(s, b, m)
      BY <1>0, <1>1, <3>1, OffFacts DEF Within
    <3>3. a \notin Kid(u, s) /\ Ptr(u, s)[a] = b /\ bd2[s][a] = b
      BY <1>0, <1>5, <1>7, <2>2
    <3> QED BY <3>2, <3>3 DEF OnSide
  <2> QED BY <2>1, <2>2
<1>11. OnSide(u, M, bd2, up2, o, b)
  BY <1>0, <1>1, <1>5, <1>6, <1>7 DEF OnSide
\* The side of p on which a hung.
<1>12. ASSUME NEW r \in Side, p # NULL, Hangs(t, r, p, a)
       PROVE  OnSide(u, M, bd2, up2, r, p)
  <2>1. bd[r][a] = bd[r][p] /\ bd[Opp(r)][a] = p /\ p \in Kid(t, r) /\ p \in M
    BY <1>0, <1>4, <1>12 DEF Hangs
  <2>2. p \in Kid(u, r) /\ Ptr(u, r)[p] = b
    BY <1>0, <1>1, <1>3, <1>7, <1>12, <2>1
  <2>3. bd2[r][b] = bd[r][a] /\ bd2[Opp(r)][b] = bd[Opp(r)][a]
    BY <1>0, <1>1, <1>5
  <2>4. bd2[r][p] = bd[r][p]
    BY <1>0, <1>1, <1>3, <1>5, <1>12
  <2> QED BY <1>1, <1>6, <2>1, <2>2, <2>3, <2>4 DEF OnSide
\* The sides that stay as they are.
<1>13. ASSUME NEW n \in M, NEW r \in Side, ~(n = a /\ r = s), ~(n = b /\ r = o),
              ~(n = p /\ Hangs(t, r, p, a))
       PROVE  OnSide(u, M, bd2, up2, r, n)
  <2>1. OnSide(t, M, bd, up, r, n)
    BY <1>0 DEF Node
  <2>2. Ptr(u, r)[n] = Ptr(t, r)[n] /\ (n \in Kid(u, r) <=> n \in Kid(t, r))
    BY <1>0, <1>1, <1>7, <1>13
  <2>3. bd2[r][n] = bd[r][n]
    BY <1>0, <1>5, <1>13
  <2>4. CASE n \notin Kid(t, r)
    BY <2>1, <2>2, <2>3, <2>4 DEF OnSide
  <2>5. CASE n \in Kid(t, r)
    <3> DEFINE d == Ptr(t, r)[n]
    <3>1. d \in M /\ up[d] = n /\ bd[r][d] = bd[r][n] /\ bd[Opp(r)][d] = n
      BY <1>4, <2>5
    <3>2. d # a
      BY <1>4, <1>13, <2>5 DEF Hangs
    <3>3. d # b
      <4> SUFFICES ASSUME d = b PROVE FALSE
        OBVIOUS
      <4>1. n = a /\ r = o
        BY <1>0, <1>4, <1>13, <2>5
      <4>2. Off(o, a, b)
        BY <2>5, <4>1, KidFacts
      <4> QED BY <1>0, <1>1, <4>2, OffFacts
    <3>4. ~Hangs(t, o, b, d)
      <4> SUFFICES ASSUME Hangs(t, o, b, d) PROVE FALSE
        OBVIOUS
      <4>1. n = b /\ r = s
        BY <1>0, <1>4, <1>13, <2>5
      <4>2. Off(s, b, d)
        BY <1>0, <1>1, <2>5, <4>1, KidFacts
      <4>3. Off(o, b, d)
        BY <1>2, <1>7a
      <4>4. d \in Key /\ b \in Key
        BY <1>0, <1>1, <3>1
      <4> QED BY <1>0, <4>2, <4>3, <4>4, OffFacts
    <3>5. up2[d] = n /\ bd2[r][d] = bd[r][d] /\ bd2[Opp(r)][d] = bd[Opp(r)][d]
      <4>1. d \in Key /\ up2[d] = up[d]
        BY <1>0, <1>6, <3>1, <3>2, <3>3, <3>4
      <4>2. bd2[s][d] = bd[s][d] /\ bd2[o][d] = bd[o][d]
        BY <1>5, <3>2, <3>3, <4>1
      <4> QED BY <1>0, <3>1, <4>1, <4>2
    <3> QED BY <2>2, <2>3, <2>5, <3>1, <3>5 DEF OnSide
  <2> QED BY <2>4, <2>5
\* Every node hangs where its parent has it.
<1>14. ASSUME NEW n \in M
       PROVE  IF up2[n] = NULL THEN n = u.root ELSE \E r \in Side : Hangs(u, r, up2[n], n)
  <2>1. CASE n = a
    BY <1>0, <1>1, <1>6, <1>7, <2>1 DEF Hangs
  <2>2. CASE n = b
    <3>1. p # NULL => \E r \in Side : Hangs(t, r, p, a)
      BY <1>0 DEF Node
    <3>2. ASSUME p # NULL, NEW r \in Side, Hangs(t, r, p, a) PROVE Hangs(u, r, p, b)
      BY <1>0, <1>1, <1>3, <1>7, <3>2 DEF Hangs
    <3> QED BY <1>6, <1>7, <2>2, <3>1, <3>2
  <2>3. CASE n # b /\ Hangs(t, o, b, n)
    BY <1>0, <1>1, <1>2, <1>6, <1>7, <1>7a, <2>3 DEF Hangs
  <2>4. CASE n # a /\ n # b /\ ~Hangs(t, o, b, n)
    <3>1. up2[n] = up[n]
      BY <1>0, <1>6, <2>4
    <3>2. CASE up[n] = NULL
      <4>1. n = t.root
        BY <1>0, <3>2 DEF Node
      <4>2. p = NULL => a = t.root
        BY <1>0 DEF Node
      <4> QED BY <1>7, <2>4, <3>1, <3>2, <4>1, <4>2
    <3>3. CASE up[n] # NULL
      <4>1. PICK r \in Side : Hangs(t, r, up[n], n)
        BY <1>0, <3>3 DEF Node
      <4>2. up[n] \in M /\ up[n] \in Key
        BY <1>0, <3>3 DEF Node
      <4>3. ~(up[n] = a /\ r = s)
        BY <2>4, <4>1 DEF Hangs
      <4>4. ~(up[n] = b /\ r = o)
        BY <2>4, <4>1
      <4>5. ~(up[n] = p /\ Hangs(t, r, p, a))
        BY <2>4, <4>1 DEF Hangs
      <4>6. Hangs(u, r, up[n], n)
        BY <1>0, <1>1, <1>7, <4>1, <4>2, <4>3, <4>4, <4>5 DEF Hangs
      <4> QED BY <3>1, <3>3, <4>6
    <3> QED BY <3>2, <3>3
  <2> QED BY <2>1, <2>2, <2>3, <2>4
<1>15. \A n \in M : Node(u, M, bd2, up2, n)
  BY <1>0, <1>6, <1>9, <1>10, <1>11, <1>12, <1>13, <1>14 DEF Node
<1>16. \A n \in Key \ M : u.left[n] = NULL /\ u.right[n] = NULL /\ u.balance[n] = 0
  <2> TAKE n \in Key \ M
  <2>1. t.left[n] = NULL /\ t.right[n] = NULL /\ t.balance[n] = 0
    BY DEF Shape
  <2>2. n # a /\ n # b /\ n # p
    BY <1>0, <1>1
  <2>3. Ptr(u, s)[n] = Ptr(t, s)[n] /\ Ptr(u, o)[n] = Ptr(t, o)[n]
        /\ Weight(u, s, n) = Weight(t, s, n)
    BY <1>7, <2>2
  <2>4. u.balance[n] \in Int
    BY <1>7 DEF TreeType
  <2> QED BY <2>1, <2>3, <2>4 DEF Ptr, Weight, Side, Opp, o
<1>17. u.root \in M /\ up2[u.root] = NULL /\ \A r \in Side : bd2[r][u.root] = NULL
  <2>1. t.root \in M /\ up[t.root] = NULL /\ \A r \in Side : bd[r][t.root] = NULL
    BY DEF Shape
  <2>2. CASE p = NULL
    <3>1. a = t.root /\ u.root = b
      BY <1>0, <1>7, <2>2 DEF Node
    <3>2. bd2[s][b] = NULL /\ bd2[o][b] = NULL
      BY <1>0, <1>1, <1>5, <2>1, <3>1
    <3> QED BY <1>0, <1>1, <1>6, <2>2, <3>1, <3>2
  <2>3. CASE p # NULL
    <3>1. u.root = t.root /\ t.root # a /\ t.root # b
      BY <1>0, <1>1, <1>7, <2>1, <2>3
    <3>2. ~Hangs(t, o, b, t.root)
      BY <1>0, <1>1, <1>2, <1>7a, <2>1
    <3> QED BY <1>0, <1>5, <1>6, <2>1, <3>1, <3>2
  <2> QED BY <2>2, <2>3
<1> QED BY <1>0, <1>5, <1>6, <1>7, <1>8, <1>15, <1>16, <1>17 DEF Shape, bd2, up2

-----------------------------------------------------------------------------
(* What a rotation does to the balances.                                   *)

\* The height of side s of n, if h tells the heights of its children.
Tall(t, h, s, n) == IF n \in Kid(t, s) THEN h[Ptr(t, s)[n]] ELSE 0

\* The balance of n is exact, and h tells its height.
Sound(t, h, n) ==
    \A s \in Side : /\ Weight(t, s, n) = Tall(t, h, s, n) - Tall(t, h, Opp(s), n)
                    /\ Weight(t, s, n) >= 0 => h[n] = 1 + Tall(t, h, s, n)

\* The side of a the child comes up from.
Turned(t, s, p, a) == IF s = "left" THEN TurnedRight(t, p, a) ELSE TurnedLeft(t, p, a)

\* Either rotation is the one rotation, on its own side.
LEMMA TurnedIs ==
    ASSUME KeyAssumption, NEW t, NEW M, NEW bd, NEW up, Shape(t, M, bd, up),
           NEW a \in M, NEW s \in Side, a \in Kid(t, s), NEW p, p = up[a]
    PROVE  Rotated(t, Turned(t, s, p, a), s, p, a, Ptr(t, s)[a])
<1>1. CASE s = "left"
  <2>1. Rotated(t, TurnedRight(t, p, a), "left", p, a, t.left[a])
    BY <1>1, TurnedRightIs DEF Kid
  <2> QED BY <1>1, <2>1 DEF Turned, Ptr
<1>2. CASE s = "right"
  <2>1. Rotated(t, TurnedLeft(t, p, a), "right", p, a, t.right[a])
    BY <1>2, TurnedLeftIs DEF Kid
  <2> QED BY <1>2, <2>1 DEF Turned, Ptr
<1> QED BY <1>1, <1>2 DEF Side

\* u is t after b, on side s of a, has come up.
Turn(t, u, M, bd, up, s, a, b) ==
    /\ Shape(t, M, bd, up) /\ a \in M /\ s \in Side
    /\ a \in Kid(t, s) /\ b = Ptr(t, s)[a]
    /\ Rotated(t, u, s, up[a], a, b)

SameElsewhere(h, h2, a, b) == /\ h \in [Key -> Nat] /\ h2 \in [Key -> Nat]
                              /\ \A n \in Key \ {a, b} : h2[n] = h[n]

\* The heights of the sides after a rotation, from those before it.
LEMMA TallAfter ==
    ASSUME KeyAssumption, NEW t, NEW u, NEW M, NEW bd, NEW up, NEW s, NEW a, NEW b,
           Turn(t, u, M, bd, up, s, a, b), NEW h, NEW h2, SameElsewhere(h, h2, a, b)
    PROVE  /\ Tall(u, h2, s, a) = Tall(t, h, Opp(s), b)
           /\ Tall(u, h2, Opp(s), a) = Tall(t, h, Opp(s), a)
           /\ Tall(u, h2, Opp(s), b) = h2[a]
           /\ Tall(u, h2, s, b) = Tall(t, h, s, b)
           /\ \A r \in Side : \A n \in M \ {a, b} :
                 n # up[a] => Tall(u, h2, r, n) = Tall(t, h, r, n)
           /\ up[a] # NULL => \A r \in Side :
                 Tall(u, h2, r, up[a]) = Tall(t, [h EXCEPT ![a] = h2[b]], r, up[a])
<1> DEFINE o == Opp(s)
           p == up[a]
           c == Ptr(t, o)[b]
<1> USE DEF SameElsewhere
<1>00. /\ Shape(t, M, bd, up) /\ a \in M /\ s \in Side
       /\ a \in Kid(t, s) /\ b = Ptr(t, s)[a] /\ Rotated(t, u, s, p, a, b)
  BY DEF Turn
<1>0. /\ M \subseteq Key /\ NULL \notin Key /\ a \in Key
      /\ o \in Side /\ o # s /\ Opp(o) = s /\ \A r \in Side : r = s \/ r = o
      /\ \A n \in M : Node(t, M, bd, up, n)
  BY <1>00, SideFacts DEF Shape, KeyAssumption
<1>1. b \in M /\ b # a /\ b # p /\ Off(s, a, b) /\ up[b] = a /\ b \in Key
  <2>1. b \in M /\ b # a /\ b # up[a] /\ Off(s, a, b) /\ up[b] = a
    BY <1>00, KidFacts
  <2> QED BY <1>0, <1>00, <2>1
<1>2. p # NULL => p \in M /\ p # a
  BY <1>0, <1>00, HangsFacts
\* The child of a node, and on which side of it.
<1>3. ASSUME NEW n \in M, NEW r \in Side, n \in Kid(t, r)
      PROVE  LET d == Ptr(t, r)[n]
             IN /\ d \in M /\ d \in Key /\ up[d] = n /\ Off(r, n, d)
                /\ d = a => n = p
                /\ d = b => n = a /\ r = s
  <2>1. LET d == Ptr(t, r)[n] IN d \in M /\ up[d] = n /\ Off(r, n, d)
    BY <1>00, <1>3, KidFacts
  <2>2. ~Off(o, a, b)
    BY <1>0, <1>1, OffFacts
  <2> QED BY <1>0, <1>1, <2>1, <2>2
<1>4. /\ \A n \in Key : Ptr(u, s)[n] = IF n = a THEN IF b \in Kid(t, o) THEN c ELSE b
                                       ELSE IF n = p /\ Hangs(t, s, p, a) THEN b
                                       ELSE Ptr(t, s)[n]
      /\ \A n \in Key : Ptr(u, o)[n] = IF n = b THEN a
                                       ELSE IF n = p /\ Hangs(t, o, p, a) THEN b
                                       ELSE Ptr(t, o)[n]
      /\ Kid(u, s) = (IF b \in Kid(t, o) THEN Kid(t, s) ELSE Kid(t, s) \ {a})
      /\ Kid(u, o) = Kid(t, o) \union {b}
  BY <1>00 DEF Rotated
<1> HIDE DEF o, c, p
<1>5. Tall(u, h2, s, a) = Tall(t, h, o, b)
  <2>1. CASE b \in Kid(t, o)
    <3>1. c \in Key /\ c # a /\ c # b /\ c = Ptr(t, o)[b]
      BY <1>0, <1>1, <1>3, <2>1 DEF c
    <3>2. a \in Kid(u, s) /\ Ptr(u, s)[a] = c
      BY <1>0, <1>00, <1>4, <2>1
    <3> QED BY <2>1, <3>1, <3>2 DEF Tall
  <2>2. CASE b \notin Kid(t, o)
    BY <1>4, <2>2 DEF Tall
  <2> QED BY <2>1, <2>2
<1>6. Tall(u, h2, o, b) = h2[a]
  BY <1>1, <1>4 DEF Tall
\* What the rotation does not touch.
<1>7. ASSUME NEW n \in M, NEW r \in Side, ~(n = a /\ r = s), ~(n = b /\ r = o),
             ~(n = p /\ Hangs(t, r, p, a))
      PROVE  Tall(u, h2, r, n) = Tall(t, h, r, n)
  <2>1. Ptr(u, r)[n] = Ptr(t, r)[n] /\ (n \in Kid(u, r) <=> n \in Kid(t, r))
    BY <1>0, <1>1, <1>4, <1>7
  <2>2. CASE n \in Kid(t, r)
    <3>1. LET d == Ptr(t, r)[n] IN d \in Key /\ d # a /\ d # b
      BY <1>3, <1>7, <2>2 DEF Hangs
    <3> QED BY <2>1, <2>2, <3>1 DEF Tall
  <2>3. CASE n \notin Kid(t, r)
    BY <2>1, <2>3 DEF Tall
  <2> QED BY <2>2, <2>3
<1>8. Tall(u, h2, o, a) = Tall(t, h, o, a)
  <2>1. ~(a = p /\ Hangs(t, o, p, a))
    BY <1>0, <1>2
  <2> QED BY <1>0, <1>00, <1>1, <1>7, <2>1
<1>9. Tall(u, h2, s, b) = Tall(t, h, s, b)
  BY <1>0, <1>00, <1>1, <1>7
<1>10. ASSUME NEW r \in Side, p # NULL
       PROVE  Tall(u, h2, r, p) = Tall(t, [h EXCEPT ![a] = h2[b]], r, p)
  <2>1. CASE Hangs(t, r, p, a)
    <3>1. p \in Key /\ p # a /\ p # b
      BY <1>0, <1>1, <1>2, <1>10
    <3>2. p \in Kid(u, r) /\ Ptr(u, r)[p] = b
      BY <1>0, <1>4, <2>1, <3>1 DEF Hangs
    <3> QED BY <1>0, <2>1, <3>2 DEF Tall, Hangs
  <2>2. CASE ~Hangs(t, r, p, a)
    <3>1. Tall(u, h2, r, p) = Tall(t, h, r, p)
      BY <1>0, <1>1, <1>2, <1>7, <1>10, <2>2
    <3>2. CASE p \in Kid(t, r)
      <4>1. Ptr(t, r)[p] # a
        BY <2>2, <3>2 DEF Hangs
      <4>2. Ptr(t, r)[p] \in Key
        BY <1>2, <1>3, <1>10, <3>2
      <4> QED BY <3>1, <3>2, <4>1, <4>2 DEF Tall
    <3>3. CASE p \notin Kid(t, r)
      BY <3>1, <3>3 DEF Tall
    <3> QED BY <3>2, <3>3
  <2> QED BY <2>1, <2>2
<1>11. ASSUME NEW r \in Side, NEW n \in M \ {a, b}, n # p
       PROVE  Tall(u, h2, r, n) = Tall(t, h, r, n)
  BY <1>7, <1>11
<1> QED BY <1>5, <1>6, <1>8, <1>9, <1>10, <1>11 DEF o, p

\* What one side weighs more, the other weighs less.
LEMMA WeightFacts ==
    ASSUME NEW t \in TreeType, NEW s \in Side, NEW n \in Key
    PROVE  Weight(t, s, n) \in Int /\ Weight(t, Opp(s), n) = -Weight(t, s, n)
<1>1. t.balance[n] \in Int /\ -(-t.balance[n]) = t.balance[n]
  BY DEF TreeType
<1> QED BY <1>1 DEF Weight, Side, Opp

\* The height of a side is a natural number.
LEMMA TallFacts ==
    ASSUME KeyAssumption, NEW t, NEW M, NEW bd, NEW up, Shape(t, M, bd, up),
           NEW h \in [Key -> Nat], NEW s \in Side, NEW n \in M
    PROVE  Tall(t, h, s, n) \in Nat
<1>1. n \in Kid(t, s) => Ptr(t, s)[n] \in M
  BY KidFacts
<1> QED BY <1>1 DEF Tall, Shape

\* What is left true of the whole tree when node a alone is out of balance.
Outgrown(t, M, h, a, p) ==
    /\ h \in [Key -> Nat]
    /\ \A n \in M : n # p => Sound(t, h, n)
    /\ p # NULL => Sound(t, [h EXCEPT ![a] = h[a] - 1], p)

\* The child leans the same way: one rotation.
LEMMA SingleSound ==
    ASSUME KeyAssumption, NEW t, NEW u, NEW M, NEW bd, NEW up, NEW s, NEW a, NEW b,
           Turn(t, u, M, bd, up, s, a, b), up[a] # NULL,
           NEW h, Outgrown(t, M, h, a, up[a]),
           Weight(t, s, a) = 2, Weight(t, s, b) = 1
    PROVE  /\ Weight(u, s, a) = 0 /\ Weight(u, s, b) = 0
           /\ \E h2 \in [Key -> Nat] : \A n \in M : Sound(u, h2, n)
<1>00. /\ Shape(t, M, bd, up) /\ a \in M /\ s \in Side
       /\ a \in Kid(t, s) /\ b = Ptr(t, s)[a] /\ Rotated(t, u, s, up[a], a, b)
  BY DEF Turn
<1> DEFINE p == up[a]
<1> DEFINE o == Opp(s)
           h2 == [h EXCEPT ![a] = h[a] - 2, ![b] = h[a] - 1]
<1>0. /\ M \subseteq Key /\ NULL \notin Key /\ a \in Key /\ h \in [Key -> Nat]
      /\ o \in Side /\ o # s /\ Opp(o) = s /\ \A r \in Side : r = s \/ r = o
      /\ t \in TreeType /\ u \in TreeType
  BY <1>00, SideFacts DEF Shape, KeyAssumption, Outgrown, Rotated
<1>1. b \in M /\ b # a /\ b # p /\ b \in Key
  <2>1. b \in M /\ b # a /\ b # up[a]
    BY <1>00, KidFacts
  <2> QED BY <1>00, <1>0, <2>1
<1>2. p \in M /\ p # a
  BY <1>00, HangsFacts
<1>3. Sound(t, h, a) /\ Sound(t, h, b)
  BY <1>00, <1>1, <1>2 DEF Outgrown
<1>4. /\ Tall(t, h, s, a) = h[b] /\ Tall(t, h, o, a) = h[b] - 2 /\ h[a] = 1 + h[b]
      /\ h[b] = 1 + Tall(t, h, s, b) /\ Tall(t, h, o, b) = h[b] - 2
      /\ h[b] - 2 \in Nat
  <2>1. Tall(t, h, s, a) = h[b]
    BY <1>00 DEF Tall
  <2>2. /\ Weight(t, s, a) = Tall(t, h, s, a) - Tall(t, h, o, a)
        /\ Weight(t, s, a) >= 0 => h[a] = 1 + Tall(t, h, s, a)
        /\ Weight(t, s, b) = Tall(t, h, s, b) - Tall(t, h, o, b)
        /\ Weight(t, s, b) >= 0 => h[b] = 1 + Tall(t, h, s, b)
    BY <1>00, <1>3 DEF Sound
  <2>3. /\ Tall(t, h, o, a) \in Nat /\ Tall(t, h, s, b) \in Nat /\ Tall(t, h, o, b) \in Nat
        /\ h[a] \in Nat /\ h[b] \in Nat
    BY <1>0, <1>1, <1>00, TallFacts
  <2> QED BY <2>1, <2>2, <2>3
<1>5. /\ h2 \in [Key -> Nat] /\ h2[a] = h[b] - 1 /\ h2[b] = h[b]
      /\ \A n \in Key \ {a, b} : h2[n] = h[n]
  BY <1>0, <1>1, <1>4
<1>6. Weight(u, s, a) = 0 /\ Weight(u, s, b) = 0
  BY <1>00 DEF Rotated
<1>7. Weight(u, o, a) = 0 /\ Weight(u, o, b) = 0
  BY <1>0, <1>1, <1>6, <1>00, WeightFacts
<1>8a. /\ Tall(u, h2, s, a) = Tall(t, h, o, b) /\ Tall(u, h2, o, a) = Tall(t, h, o, a)
       /\ Tall(u, h2, o, b) = h2[a] /\ Tall(u, h2, s, b) = Tall(t, h, s, b)
       /\ \A r \in Side : \A n \in M \ {a, b} : n # p => Tall(u, h2, r, n) = Tall(t, h, r, n)
       /\ \A r \in Side : Tall(u, h2, r, p) = Tall(t, [h EXCEPT ![a] = h2[b]], r, p)
  <2> HIDE DEF h2, o
  <2>2. SameElsewhere(h, h2, a, b)
    BY <1>0, <1>5 DEF SameElsewhere
  <2> QED BY <2>2, TallAfter DEF o
<1> HIDE DEF h2, o, p
<1>8. /\ Tall(u, h2, s, a) = h[b] - 2 /\ Tall(u, h2, o, a) = h[b] - 2
      /\ Tall(u, h2, o, b) = h[b] - 1 /\ Tall(u, h2, s, b) = h[b] - 1
  <2>1. /\ Tall(u, h2, s, a) = Tall(t, h, o, b) /\ Tall(u, h2, o, a) = Tall(t, h, o, a)
        /\ Tall(u, h2, o, b) = h2[a] /\ Tall(u, h2, s, b) = Tall(t, h, s, b)
    BY <1>0, <1>1, <1>5, <1>8a
  <2>2. h[b] \in Nat /\ Tall(t, h, s, b) = h[b] - 1
    BY <1>0, <1>1, <1>4, <1>00, TallFacts
  <2> QED BY <1>4, <1>5, <2>1, <2>2
<1>9. Sound(u, h2, a) /\ Sound(u, h2, b)
  <2>1. h[b] \in Nat
    BY <1>0, <1>1
  <2> QED BY <1>0, <1>5, <1>6, <1>7, <1>8, <2>1 DEF Sound, o
<1>10. ASSUME NEW n \in M \ {a, b} PROVE Sound(u, h2, n)
  <2>1. \A r \in Side : Weight(u, r, n) = Weight(t, r, n)
    <3>1. Weight(u, s, n) = Weight(t, s, n)
      BY <1>0, <1>00 DEF Rotated
    <3> QED BY <1>0, <3>1, <1>00, WeightFacts
  <2>2. CASE n = p
    <3> DEFINE g == [h EXCEPT ![a] = h[a] - 1]
    <3>1. h2[b] = h[a] - 1
      BY <1>0, <1>1, <1>4, <1>5
    <3>2. \A r \in Side : Tall(u, h2, r, p) = Tall(t, g, r, p)
      BY <1>8a, <3>1
    <3>3. Sound(t, g, p)
      BY DEF Outgrown, p
    <3>4. h2[p] = g[p]
      BY <1>0, <1>1, <1>2, <1>5
    <3> HIDE DEF g
    <3> QED BY <2>1, <2>2, <3>2, <3>3, <3>4, SideFacts DEF Sound
  <2>3. CASE n # p
    <3>1. Sound(t, h, n) /\ h2[n] = h[n]
      BY <1>0, <1>5, <2>3 DEF Outgrown, p
    <3> QED BY <1>8a, <2>1, <2>3, <3>1, SideFacts DEF Sound
  <2> QED BY <2>2, <2>3
<1> QED BY <1>5, <1>6, <1>9, <1>10

\* The child b of a leans the other way: its child z comes up twice, first
\* above b and then above a.
TurnBelow(t, t1, M, bd, up, s, a, b, z) ==
    /\ Turn(t, t1, M, bd, up, Opp(s), b, z)
    /\ s \in Side /\ a \in M /\ a \in Kid(t, s) /\ b = Ptr(t, s)[a]

\* Where the nodes of a double rotation hang after the first one.
LEMMA TurnBelowFacts ==
    ASSUME KeyAssumption, NEW t, NEW t1, NEW M, NEW bd, NEW up, NEW s, NEW a, NEW b, NEW z,
           TurnBelow(t, t1, M, bd, up, s, a, b, z)
    PROVE  /\ up[b] = a
           /\ UpAfter(t, up, Opp(s), a, b, z)[a] = up[a]
           /\ Shape(t1, M, BoundsAfter(bd, Opp(s), b, z), UpAfter(t, up, Opp(s), a, b, z))
           /\ a \in Kid(t1, s) /\ Ptr(t1, s)[a] = z
           /\ b # a /\ z # b /\ z # a /\ b # up[a] /\ z # up[a] /\ z \in M /\ b \in M
<1> DEFINE o == Opp(s)
           p == up[a]
           up1 == UpAfter(t, up, o, a, b, z)
<1>0. /\ Shape(t, M, bd, up) /\ b \in M /\ o \in Side /\ o # s /\ Opp(o) = s
      /\ b \in Kid(t, o) /\ z = Ptr(t, o)[b] /\ Rotated(t, t1, o, up[b], b, z)
      /\ M \subseteq Key /\ NULL \notin Key /\ \A r \in Side : r = s \/ r = o
      /\ \A n \in M : Node(t, M, bd, up, n)
  BY SideFacts DEF TurnBelow, Turn, Shape, KeyAssumption
<1> USE DEF TurnBelow
<1> HIDE DEF o
<1>1. b # a /\ b # p /\ Off(s, a, b) /\ up[b] = a
  <2>1. LET d == Ptr(t, s)[a] IN d # a /\ d # up[a] /\ Off(s, a, d) /\ up[d] = a
    BY <1>0, KidFacts
  <2> QED BY <2>1
<1>2. z \in M /\ z # b /\ z # a /\ Off(o, b, z) /\ up[z] = b
  <2>1. LET d == Ptr(t, o)[b] IN d \in M /\ d # b /\ d # up[b] /\ Off(o, b, d) /\ up[d] = b
    BY <1>0, KidFacts
  <2> QED BY <1>0, <1>1, <2>1
<1>3. bd[s][z] = b /\ bd[o][z] = a /\ Within(o, a, z)
  <2>1. bd[o][b] = a
    BY <1>0 DEF Node, OnSide, o
  <2>2. bd[o][z] = bd[o][b] /\ bd[s][z] = b
    BY <1>0 DEF Node, OnSide
  <2>3. Within(o, bd[o][z], z)
    BY <1>0, <1>2 DEF Node
  <2> QED BY <2>1, <2>2, <2>3
<1>4. Off(s, a, z)
  BY <1>0, <1>2, <1>3, OffFacts DEF Within
\* z is below a, so it is not the parent of a.
<1>5. z # p
  <2> SUFFICES ASSUME z = p PROVE FALSE
    OBVIOUS
  <2>1. PICK r \in Side : Hangs(t, r, z, a)
    BY <1>0, <1>2 DEF Node
  <2>2. Off(r, z, a) /\ bd[r][a] = bd[r][z]
    <3>1. z \in Kid(t, r) /\ Ptr(t, r)[z] = a
      BY <2>1 DEF Hangs
    <3>2. Node(t, M, bd, up, z)
      BY <1>0, <1>2
    <3>3. bd[r][a] = bd[r][z]
      BY <3>1, <3>2 DEF Node, OnSide
    <3>4. Off(r, z, a)
      BY <1>0, <1>2, <3>1, KidFacts
    <3> QED BY <3>3, <3>4
  <2>3. CASE r = o
    <3>1. Within(o, a, a)
      BY <1>0, <1>3, <2>2, <2>3 DEF Node
    <3> QED BY <1>0, <3>1, OffFacts DEF Within
  <2>4. CASE r = s
    BY <1>0, <1>2, <1>4, <2>2, <2>4, OffFacts
  <2> QED BY <1>0, <2>3, <2>4
<1>6. up1[a] = p
  <2>1. ~Hangs(t, s, z, a)
    <3> SUFFICES ASSUME Hangs(t, s, z, a) PROVE FALSE
      OBVIOUS
    <3>1. z \in Kid(t, s) /\ Ptr(t, s)[z] = a
      BY DEF Hangs
    <3>2. Off(s, z, a)
      BY <1>0, <1>2, <3>1, KidFacts
    <3> QED BY <1>0, <1>2, <1>4, <3>2, OffFacts
  <2> QED BY <1>0, <1>1, <1>2, <2>1 DEF UpAfter
<1>7. Shape(t1, M, BoundsAfter(bd, o, b, z), up1)
  BY <1>0, <1>1, RotatedShape
<1>8. a \in Kid(t1, s) /\ Ptr(t1, s)[a] = z
  <2>1. a \in Key /\ Hangs(t, s, a, b)
    BY <1>0 DEF Hangs
  <2>2. a \in Kid(t1, s)
    BY <1>0 DEF Rotated
  <2>3. \A n \in Key : Ptr(t1, s)[n] = IF n = z THEN b
                                       ELSE IF n = a /\ Hangs(t, s, a, b) THEN z
                                       ELSE Ptr(t, s)[n]
    BY <1>0, <1>1 DEF Rotated
  <2> QED BY <1>2, <2>1, <2>2, <2>3
<1> QED BY <1>0, <1>1, <1>2, <1>5, <1>6, <1>7, <1>8 DEF o

\* The child leans the other way: two rotations, of t into t1 and into u.
Zigzag(t, t1, u, M, bd, up, h, s, a, b, z) ==
    /\ TurnBelow(t, t1, M, bd, up, s, a, b, z) /\ Rotated(t1, u, s, up[a], a, z)
    /\ up[a] # NULL /\ Outgrown(t, M, h, a, up[a])
    /\ Weight(t, s, a) = 2 /\ Weight(t, s, b) = -1 /\ Weight(t, s, z) \in -1..1

\* Two rotations settle a node whose child leans the other way.
LEMMA DoubleSound ==
    ASSUME KeyAssumption, NEW t, NEW t1, NEW u, NEW M, NEW bd, NEW up, NEW h,
           NEW s, NEW a, NEW b, NEW z, Zigzag(t, t1, u, M, bd, up, h, s, a, b, z)
    PROVE  /\ Weight(u, s, z) = 0 /\ Weight(u, s, a) \in -1..1 /\ Weight(u, s, b) \in -1..1
           /\ \E h2 \in [Key -> Nat] : \A n \in M : Sound(u, h2, n)
<1> SUFFICES ASSUME TurnBelow(t, t1, M, bd, up, s, a, b, z), Rotated(t1, u, s, up[a], a, z),
                    up[a] # NULL, Outgrown(t, M, h, a, up[a]),
                    Weight(t, s, a) = 2, Weight(t, s, b) = -1, Weight(t, s, z) \in -1..1
             PROVE  /\ Weight(u, s, z) = 0 /\ Weight(u, s, a) \in -1..1
                    /\ Weight(u, s, b) \in -1..1
                    /\ \E h2 \in [Key -> Nat] : \A n \in M : Sound(u, h2, n)
  BY DEF Zigzag
<1> DEFINE o == Opp(s)
           p == up[a]
           bd1 == BoundsAfter(bd, o, b, z)
           up1 == UpAfter(t, up, o, a, b, z)
           h1 == [h EXCEPT ![b] = h[a] - 2]
           h2 == [h EXCEPT ![b] = h[a] - 2, ![a] = h[a] - 2, ![z] = h[a] - 1]
<1>0. /\ Shape(t, M, bd, up) /\ b \in M /\ o \in Side /\ o # s /\ Opp(o) = s /\ Opp(s) = o
      /\ b \in Kid(t, o) /\ z = Ptr(t, o)[b] /\ Rotated(t, t1, o, up[b], b, z)
      /\ M \subseteq Key /\ NULL \notin Key /\ \A r \in Side : r = s \/ r = o
      /\ t \in TreeType /\ t1 \in TreeType /\ u \in TreeType
      /\ h \in [Key -> Nat]
  BY SideFacts DEF TurnBelow, Turn, Shape, KeyAssumption, Rotated, Outgrown
<1>1. /\ up[b] = a /\ up1[a] = p /\ Shape(t1, M, bd1, up1)
      /\ a \in Kid(t1, s) /\ Ptr(t1, s)[a] = z
      /\ b # a /\ z # b /\ z # a /\ b # p /\ z # p /\ z \in M
  BY TurnBelowFacts
<1>1a. s \in Side /\ a \in M /\ a \in Kid(t, s) /\ b = Ptr(t, s)[a]
  BY DEF TurnBelow
<1>2. p \in M /\ p # a
  BY <1>0, <1>1a, HangsFacts
<1>3. a \in Key /\ b \in Key /\ z \in Key /\ p \in Key
  BY <1>0, <1>1, <1>1a, <1>2
<1> HIDE DEF o, p, bd1, up1
<1>4. Turn(t, t1, M, bd, up, o, b, z) /\ Turn(t1, u, M, bd1, up1, s, a, z)
  BY <1>1, <1>1a DEF TurnBelow, Turn, o, p
<1>4a. Turn(t, t1, M, bd, up, o, b, z)
  BY <1>4
<1>4b. Turn(t1, u, M, bd1, up1, s, a, z)
  BY <1>4
\* The heights before.
<1>5. Sound(t, h, a) /\ Sound(t, h, b) /\ Sound(t, h, z)
  BY <1>0, <1>1, <1>1a, <1>2 DEF Outgrown, p
<1>6. Tall(t, h, s, a) = h[b] /\ Tall(t, h, o, b) = h[z]
  BY <1>0, <1>1a DEF Tall
<1>7. /\ Weight(t, o, b) = 1 /\ Weight(t, o, z) = -Weight(t, s, z) /\ Weight(t, s, z) \in Int
      /\ Weight(t, o, z) \in Int
  BY <1>0, <1>1a, <1>3, WeightFacts
<1>8. /\ h[a] \in Nat /\ h[b] \in Nat /\ h[z] \in Nat
      /\ Tall(t, h, o, a) \in Nat /\ Tall(t, h, s, b) \in Nat
      /\ Tall(t, h, s, z) \in Nat /\ Tall(t, h, o, z) \in Nat
  BY <1>0, <1>1, <1>1a, <1>3, TallFacts
<1>9. /\ Weight(t, s, a) = Tall(t, h, s, a) - Tall(t, h, o, a)
      /\ Weight(t, s, a) >= 0 => h[a] = 1 + Tall(t, h, s, a)
      /\ Weight(t, o, b) = Tall(t, h, o, b) - Tall(t, h, s, b)
      /\ Weight(t, o, b) >= 0 => h[b] = 1 + Tall(t, h, o, b)
      /\ Weight(t, s, z) = Tall(t, h, s, z) - Tall(t, h, o, z)
      /\ Weight(t, s, z) >= 0 => h[z] = 1 + Tall(t, h, s, z)
      /\ Weight(t, o, z) >= 0 => h[z] = 1 + Tall(t, h, o, z)
  BY <1>0, <1>1a, <1>5 DEF Sound
<1>10. /\ h[a] = h[z] + 2 /\ h[b] = h[z] + 1
       /\ Tall(t, h, o, a) = h[z] - 1 /\ Tall(t, h, s, b) = h[z] - 1
       /\ Weight(t, s, z) >= 0 => /\ Tall(t, h, s, z) = h[z] - 1
                                  /\ Tall(t, h, o, z) = h[z] - 1 - Weight(t, s, z)
       /\ Weight(t, s, z) <= 0 => /\ Tall(t, h, o, z) = h[z] - 1
                                  /\ Tall(t, h, s, z) = h[z] - 1 + Weight(t, s, z)
  <2>0. Weight(t, s, a) = 2 /\ Weight(t, o, b) = 1
    BY <1>7
  <2>0a. h[a] = 1 + h[b] /\ 2 = h[b] - Tall(t, h, o, a)
    BY <1>6, <1>9, <2>0
  <2>0b. h[b] = 1 + h[z] /\ 1 = h[z] - Tall(t, h, s, b)
    BY <1>6, <1>9, <2>0
  <2>1. h[a] = 1 + h[b] /\ h[b] = 1 + h[z]
        /\ Tall(t, h, o, a) = h[b] - 2 /\ Tall(t, h, s, b) = h[z] - 1
    BY <1>8, <2>0a, <2>0b
  <2>2. Weight(t, s, z) >= 0 => /\ Tall(t, h, s, z) = h[z] - 1
                                /\ Tall(t, h, o, z) = h[z] - 1 - Weight(t, s, z)
    BY <1>7, <1>8, <1>9
  <2>3. Weight(t, s, z) <= 0 => /\ Tall(t, h, o, z) = h[z] - 1
                                /\ Tall(t, h, s, z) = h[z] - 1 + Weight(t, s, z)
    BY <1>7, <1>8, <1>9
  <2> QED BY <1>8, <2>1, <2>2, <2>3
<1>11. /\ h1 \in [Key -> Nat] /\ h2 \in [Key -> Nat]
       /\ h1[b] = h[z] /\ h2[a] = h[z] /\ h2[b] = h[z] /\ h2[z] = h[z] + 1
       /\ \A n \in Key \ {b, z} : h1[n] = h[n]
       /\ \A n \in Key \ {a, z} : h2[n] = h1[n]
  BY <1>0, <1>1, <1>3, <1>8, <1>10
<1> HIDE DEF h1, h2
\* The heights of the sides after the first rotation, and after both.
<1>12. /\ Tall(t1, h1, o, b) = Tall(t, h, s, z) /\ Tall(t1, h1, s, b) = Tall(t, h, s, b)
       /\ Tall(t1, h1, s, z) = h1[b] /\ Tall(t1, h1, o, z) = Tall(t, h, o, z)
       /\ \A r \in Side : \A n \in M \ {b, z} : n # a => Tall(t1, h1, r, n) = Tall(t, h, r, n)
       /\ \A r \in Side : Tall(t1, h1, r, a) = Tall(t, [h EXCEPT ![b] = h1[z]], r, a)
  <2>1. SameElsewhere(h, h1, b, z)
    BY <1>0, <1>11 DEF SameElsewhere
  <2>2. a # NULL
    BY <1>0, <1>3
  <2>3. /\ Tall(t1, h1, o, b) = Tall(t, h, Opp(o), z)
        /\ Tall(t1, h1, Opp(o), b) = Tall(t, h, Opp(o), b)
        /\ Tall(t1, h1, Opp(o), z) = h1[b]
        /\ Tall(t1, h1, o, z) = Tall(t, h, o, z)
        /\ \A r \in Side : \A n \in M \ {b, z} :
              n # up[b] => Tall(t1, h1, r, n) = Tall(t, h, r, n)
        /\ up[b] # NULL => \A r \in Side :
              Tall(t1, h1, r, up[b]) = Tall(t, [h EXCEPT ![b] = h1[z]], r, up[b])
    BY <1>4a, <2>1, TallAfter
  <2> QED BY <1>0, <1>1, <2>2, <2>3
<1>13. Tall(t1, h1, o, a) = Tall(t, h, o, a)
  <2>1. a \in Kid(t, o) => Ptr(t, o)[a] # b /\ Ptr(t, o)[a] \in Key
    <3> SUFFICES ASSUME a \in Kid(t, o) PROVE Ptr(t, o)[a] # b /\ Ptr(t, o)[a] \in Key
      OBVIOUS
    <3>1. Off(o, a, Ptr(t, o)[a]) /\ Ptr(t, o)[a] \in M
      BY <1>0, <1>1a, KidFacts
    <3>2. Off(s, a, b)
      BY <1>0, <1>1a, KidFacts
    <3> QED BY <1>0, <1>1a, <1>3, <3>1, <3>2, OffFacts
  <2> QED BY <1>0, <1>12, <2>1 DEF Tall
<1>14. /\ Tall(u, h2, s, a) = Tall(t1, h1, o, z) /\ Tall(u, h2, o, a) = Tall(t1, h1, o, a)
       /\ Tall(u, h2, o, z) = h2[a] /\ Tall(u, h2, s, z) = Tall(t1, h1, s, z)
       /\ \A r \in Side : \A n \in M \ {a, z} : n # p => Tall(u, h2, r, n) = Tall(t1, h1, r, n)
       /\ \A r \in Side : Tall(u, h2, r, p) = Tall(t1, [h1 EXCEPT ![a] = h2[z]], r, p)
  <2>1. SameElsewhere(h1, h2, a, z)
    BY <1>11 DEF SameElsewhere
  <2>2. up1[a] # NULL
    BY <1>1 DEF p
  <2> QED BY <1>0, <1>1, <1>4b, <2>1, <2>2, TallAfter
<1>15. /\ Tall(u, h2, s, a) = Tall(t, h, o, z) /\ Tall(u, h2, o, a) = h[z] - 1
       /\ Tall(u, h2, o, b) = Tall(t, h, s, z) /\ Tall(u, h2, s, b) = h[z] - 1
       /\ Tall(u, h2, o, z) = h[z] /\ Tall(u, h2, s, z) = h[z]
  BY <1>0, <1>1, <1>1a, <1>10, <1>11, <1>12, <1>13, <1>14
\* The weights.
<1>16. /\ Weight(t1, o, b) = 1 - 1 - (IF Weight(t, o, z) > 0 THEN Weight(t, o, z) ELSE 0)
       /\ Weight(t1, o, z) = Weight(t, o, z) - 1
                             + (IF Weight(t1, o, b) < 0 THEN Weight(t1, o, b) ELSE 0)
       /\ \A n \in Key \ {b, z} : Weight(t1, o, n) = Weight(t, o, n)
  BY <1>0, <1>7 DEF Rotated
<1>17. /\ Weight(t1, s, z) = -Weight(t1, o, z) /\ Weight(t1, s, b) = -Weight(t1, o, b)
       /\ Weight(t1, s, z) \in Int /\ Weight(t1, s, b) \in Int
       /\ Weight(t1, o, z) \in Int /\ Weight(t1, o, b) \in Int
       /\ \A n \in Key \ {b, z} : Weight(t1, s, n) = Weight(t, s, n)
  BY <1>0, <1>3, <1>1a, <1>16, WeightFacts
<1>18. /\ Weight(u, s, a) = 2 - 1 - (IF Weight(t1, s, z) > 0 THEN Weight(t1, s, z) ELSE 0)
       /\ Weight(u, s, z) = Weight(t1, s, z) - 1
                            + (IF Weight(u, s, a) < 0 THEN Weight(u, s, a) ELSE 0)
       /\ \A n \in Key \ {a, z} : Weight(u, s, n) = Weight(t1, s, n)
  BY <1>0, <1>1, <1>3, <1>17 DEF Rotated
<1>19. Weight(t, s, z) = -1 \/ Weight(t, s, z) = 0 \/ Weight(t, s, z) = 1
  OBVIOUS
<1>20. /\ Weight(u, s, z) = 0 /\ Weight(u, s, b) = Weight(t1, s, b)
       /\ Weight(t, s, z) >= 0 => Weight(u, s, a) = -Weight(t, s, z) /\ Weight(u, s, b) = 0
       /\ Weight(t, s, z) < 0 => Weight(u, s, a) = 0 /\ Weight(u, s, b) = 1
  BY <1>1, <1>3, <1>7, <1>16, <1>17, <1>18, <1>19
<1>21. /\ Weight(u, o, z) = 0 /\ Weight(u, o, a) = -Weight(u, s, a)
       /\ Weight(u, o, b) = -Weight(u, s, b)
  BY <1>0, <1>3, <1>1a, <1>20, WeightFacts
<1>22. Sound(u, h2, z)
  <2>1. h[z] \in Nat
    BY <1>8
  <2> QED BY <1>0, <1>1a, <1>11, <1>15, <1>20, <1>21, <2>1 DEF Sound
<1>23. Sound(u, h2, a)
  <2>1. /\ Weight(u, s, a) = Tall(u, h2, s, a) - Tall(u, h2, o, a)
        /\ Weight(u, o, a) = Tall(u, h2, o, a) - Tall(u, h2, s, a)
        /\ Weight(u, s, a) >= 0 => h2[a] = 1 + Tall(u, h2, s, a)
        /\ Weight(u, o, a) >= 0 => h2[a] = 1 + Tall(u, h2, o, a)
    BY <1>8, <1>10, <1>11, <1>15, <1>19, <1>20, <1>21
  <2> QED BY <1>0, <1>1a, <2>1 DEF Sound
<1>24. Sound(u, h2, b)
  <2>1. /\ Weight(u, s, b) = Tall(u, h2, s, b) - Tall(u, h2, o, b)
        /\ Weight(u, o, b) = Tall(u, h2, o, b) - Tall(u, h2, s, b)
        /\ Weight(u, s, b) >= 0 => h2[b] = 1 + Tall(u, h2, s, b)
        /\ Weight(u, o, b) >= 0 => h2[b] = 1 + Tall(u, h2, o, b)
    BY <1>8, <1>10, <1>11, <1>15, <1>19, <1>20, <1>21
  <2> QED BY <1>0, <1>1a, <2>1 DEF Sound
<1>25. ASSUME NEW n \in M \ {a, b, z} PROVE Sound(u, h2, n)
  <2>1. n \in Key /\ \A r \in Side : Weight(u, r, n) = Weight(t, r, n)
    <3>1. n \in Key /\ Weight(u, s, n) = Weight(t, s, n)
      BY <1>0, <1>17, <1>18
    <3> QED BY <1>0, <1>1a, <3>1, WeightFacts
  <2>2. CASE n = p
    <3> DEFINE g == [h EXCEPT ![a] = h[a] - 1]
               g1 == [h1 EXCEPT ![a] = h[a] - 1]
    <3>1. h2[z] = h[a] - 1
      BY <1>8, <1>10, <1>11
    <3>2. \A r \in Side : Tall(u, h2, r, p) = Tall(t1, g1, r, p)
      BY <1>14, <3>1
    <3>3. SameElsewhere(g, g1, b, z)
      <4>1. h[a] - 1 \in Nat
        BY <1>8, <1>10
      <4> QED BY <1>0, <1>11, <4>1 DEF SameElsewhere
    <3>4. Sound(t, g, p)
      BY DEF Outgrown, p
    <3>5. h2[p] = g[p]
      BY <1>0, <1>1, <1>2, <1>3, <1>11
    <3> HIDE DEF g, g1
    <3>6. \A r \in Side : Tall(t1, g1, r, p) = Tall(t, g, r, p)
      <4>1. p \in M \ {b, z} /\ p # up[b]
        BY <1>1, <1>2
      <4>2. \A r \in Side : \A m \in M \ {b, z} : m # up[b] => Tall(t1, g1, r, m) = Tall(t, g, r, m)
        <5>1. /\ Tall(t1, g1, o, b) = Tall(t, g, Opp(o), z)
              /\ Tall(t1, g1, Opp(o), b) = Tall(t, g, Opp(o), b)
              /\ Tall(t1, g1, Opp(o), z) = g1[b]
              /\ Tall(t1, g1, o, z) = Tall(t, g, o, z)
              /\ \A r \in Side : \A m \in M \ {b, z} :
                    m # up[b] => Tall(t1, g1, r, m) = Tall(t, g, r, m)
              /\ up[b] # NULL => \A r \in Side :
                    Tall(t1, g1, r, up[b]) = Tall(t, [g EXCEPT ![b] = g1[z]], r, up[b])
          BY <1>4a, <3>3, TallAfter
        <5> QED BY <5>1
      <4> QED BY <4>1, <4>2
    <3> QED BY <2>1, <2>2, <3>2, <3>4, <3>5, <3>6, SideFacts DEF Sound
  <2>3. CASE n # p
    <3>1. Sound(t, h, n) /\ h2[n] = h[n]
      BY <1>0, <1>11, <2>1, <2>3 DEF Outgrown, p
    <3>2. \A r \in Side : Tall(u, h2, r, n) = Tall(t, h, r, n)
      BY <1>12, <1>14, <2>3
    <3> QED BY <2>1, <3>1, <3>2, SideFacts DEF Sound
  <2> QED BY <2>2, <2>3
<1>26. \A n \in M : Sound(u, h2, n)
  BY <1>22, <1>23, <1>24, <1>25
<1>27. Weight(u, s, a) \in -1..1 /\ Weight(u, s, b) \in -1..1
  BY <1>19, <1>20
<1> QED BY <1>11, <1>20, <1>26, <1>27

\* The tree with exact balances, and none below the root out of balance.
Balanced(t, M, bd, up, h) ==
    /\ Shape(t, M, bd, up) /\ h \in [Key -> Nat]
    /\ \A n \in M : Sound(t, h, n)
    /\ \A n \in M \ {t.root} : t.balance[n] \in -1..1

\* Before node x is looked at on the way up: its parent does not know yet that
\* x has grown, which is so unless its two sides are level.
Growing(t, M, bd, up, h, x) ==
    /\ Shape(t, M, bd, up) /\ x \in M /\ h \in [Key -> Nat]
    /\ \A n \in M : n # up[x] => Sound(t, h, n)
    /\ up[x] # NULL =>
          /\ Sound(t, [h EXCEPT ![x] = IF t.balance[x] = 0 THEN h[x] ELSE h[x] - 1], up[x])
          /\ t.balance[x] \in -2..2
          /\ \A s \in Side : Weight(t, s, x) = 2 => Weight(t, s, Ptr(t, s)[x]) # 0
    /\ \A n \in M \ {t.root, x} : t.balance[n] \in -1..1

\* The recorded balance and what a side weighs.
LEMMA WeightZero ==
    ASSUME NEW t \in TreeType, NEW s \in Side, NEW n \in Key
    PROVE  /\ Weight(t, s, n) = 0 <=> t.balance[n] = 0
           /\ Weight(t, s, n) \in -1..1 <=> t.balance[n] \in -1..1
           /\ Weight(t, s, n) \in -2..2 <=> t.balance[n] \in -2..2
<1>1. t.balance[n] \in Int
  BY DEF TreeType
<1> QED BY <1>1 DEF Weight, Side

\* The recorded balance is small when a side weighs little.
LEMMA SmallBalance ==
    ASSUME NEW t \in TreeType, NEW s \in Side, NEW n \in Key, Weight(t, s, n) \in -1..1
    PROVE  t.balance[n] \in -1..1
  BY WeightZero

\* What Settle does to a node out of balance.
LEMMA SettleIs ==
    ASSUME KeyAssumption, NEW t, NEW M, NEW bd, NEW up, Shape(t, M, bd, up),
           NEW a \in M, up[a] # NULL, NEW s \in Side, a \in Kid(t, s),
           Weight(t, s, a) = 2,
           Weight(t, s, Ptr(t, s)[a]) < 0 => Ptr(t, s)[a] \in Kid(t, Opp(s))
    PROVE  LET b  == Ptr(t, s)[a]
               t1 == IF Weight(t, s, b) < 0 THEN Turned(t, Opp(s), a, b) ELSE t
               S  == Settle([tree |-> t, node |-> a, done |-> FALSE], up[a])
           IN S = [tree |-> Turned(t1, s, up[a], a), node |-> Ptr(t1, s)[a], done |-> FALSE]
<1> DEFINE p == up[a]
           acc == [tree |-> t, node |-> a, done |-> FALSE]
           b == Ptr(t, s)[a]
           t1 == IF Weight(t, s, b) < 0 THEN Turned(t, Opp(s), a, b) ELSE t
<1>0. t \in TreeType /\ M \subseteq Key /\ NULL \notin Key /\ a \in Key /\ t.balance[a] \in Int
  BY DEF Shape, KeyAssumption, TreeType
<1>1. b \in M /\ b # a /\ b \in Key /\ t.balance[b] \in Int
  <2>1. b \in M /\ b # a
    BY KidFacts
  <2> QED BY <1>0, <2>1 DEF TreeType
<1>2. Uneven(t, a)
  BY <1>0 DEF Uneven, Weight, Side
<1>3. CASE s = "left"
  <2>1. t.balance[a] = -2 /\ b = t.left[a] /\ Opp(s) = "right"
    BY <1>0, <1>3 DEF Weight, Ptr, Opp
  <2>2. t1 = IF t.balance[b] > 0 THEN TurnedLeft(t, a, b) ELSE t
    BY <1>1, <1>3, <2>1 DEF Weight, Turned
  <2>3. t.balance[b] > 0 => TurnedLeft(t, a, b) = [RotateLeft(t, b) EXCEPT !.left[a] = t.right[b]]
    <3> SUFFICES ASSUME t.balance[b] > 0
                 PROVE  TurnedLeft(t, a, b) = [RotateLeft(t, b) EXCEPT !.left[a] = t.right[b]]
      OBVIOUS
    <3>1. b \in Kid(t, "right")
      BY <1>1, <1>3, <2>1 DEF Weight
    <3>2. t.right[b] # up[b] /\ up[b] = a /\ t.right[b] \in Key
      <4>1. up[b] = a
        BY KidFacts
      <4>2. t.right[b] # up[b] /\ t.right[b] \in M
        <5>1. Ptr(t, "right")[b] # up[b] /\ Ptr(t, "right")[b] \in M
          BY <1>1, <3>1, KidFacts DEF Side
        <5> QED BY <5>1 DEF Ptr
      <4> QED BY <1>0, <4>1, <4>2
    <3>3. RotateLeft(t, b).left = [t.left EXCEPT ![t.right[b]] = b]
      BY <1>0, <1>1, <3>2 DEF RotateLeft, TreeType
    <3>4. RotateLeft(t, b).left[a] = b
      BY <1>0, <2>1, <3>2, <3>3 DEF TreeType
    <3> QED BY <1>0, <3>4 DEF TurnedLeft, Hang, IsLeft
  <2>4. Settle(acc, p) = [acc EXCEPT !.tree = Hang(RotateRight(t1, a), p, a, TopRight(t1, a)),
                                     !.node = TopRight(t1, a)]
    <3>1. Rebalance(t, a) = [tree |-> RotateRight(t1, a), top |-> TopRight(t1, a)]
      BY <2>1, <2>2, <2>3 DEF Rebalance, TopLeft
    <3>2. acc.tree = t /\ acc.node = a
      OBVIOUS
    <3> HIDE DEF t1, p, acc
    <3>3. Uneven(acc.tree, acc.node) /\ Rebalance(acc.tree, acc.node) = Rebalance(t, a)
      BY <1>2, <3>2
    <3> DEFINE rb == Rebalance(acc.tree, acc.node)
    <3>4. rb.tree = RotateRight(t1, a) /\ rb.top = TopRight(t1, a)
      BY <3>1, <3>3
    <3>5. Settle(acc, p) = [acc EXCEPT !.tree = Hang(rb.tree, p, acc.node, rb.top), !.node = rb.top]
      BY <3>3 DEF Settle
    <3> HIDE DEF rb
    <3> QED BY <3>2, <3>4, <3>5
  <2>5. Turned(t1, s, p, a) = Hang(RotateRight(t1, a), p, a, TopRight(t1, a))
    BY <1>3 DEF Turned, TurnedRight, TopRight
  <2>6. Ptr(t1, s)[a] = TopRight(t1, a)
    BY <1>3 DEF Ptr, TopRight
  <2> HIDE DEF t1, p
  <2>7. Settle(acc, p) = [tree |-> Turned(t1, s, p, a), node |-> Ptr(t1, s)[a], done |-> FALSE]
    BY <2>4, <2>5, <2>6
  <2> QED BY <2>7 DEF t1, p
<1>4. CASE s = "right"
  <2>1. t.balance[a] = 2 /\ b = t.right[a] /\ Opp(s) = "left"
    BY <1>0, <1>4 DEF Weight, Ptr, Opp
  <2>2. t1 = IF t.balance[b] < 0 THEN TurnedRight(t, a, b) ELSE t
    BY <1>1, <1>4, <2>1 DEF Weight, Turned
  <2>3. t.balance[b] < 0 => TurnedRight(t, a, b) = [RotateRight(t, b) EXCEPT !.right[a] = t.left[b]]
    <3> SUFFICES ASSUME t.balance[b] < 0
                 PROVE  TurnedRight(t, a, b) = [RotateRight(t, b) EXCEPT !.right[a] = t.left[b]]
      OBVIOUS
    <3>1. b \in Kid(t, "left")
      BY <1>1, <1>4, <2>1 DEF Weight
    <3>2. up[b] = a
      BY KidFacts
    <3>3. ~Hangs(t, "left", a, b)
      <4>1. Hangs(t, "right", a, b)
        BY <1>4, <2>1 DEF Hangs, Ptr
      <4>2. "right" \in Side /\ Opp("right") = "left"
        BY DEF Side, Opp
      <4>3. ~Hangs(t, Opp("right"), a, b)
        BY <1>0, <1>1, <3>2, <4>1, <4>2, HangsFacts
      <4> QED BY <4>2, <4>3
    <3>4. t.left[a] # b
      BY <1>0, <1>1, <3>2, <3>3, IsLeftMeans DEF IsLeft
    <3>5. RotateRight(t, b).left = [t.left EXCEPT ![b] = IF t.left[b] \in t.rkid
                                                        THEN t.right[t.left[b]] ELSE @]
      BY <1>0, <1>1 DEF RotateRight, TreeType
    <3>6. RotateRight(t, b).left[a] # b
      BY <1>0, <1>1, <3>4, <3>5 DEF TreeType
    <3> QED BY <1>0, <3>6 DEF TurnedRight, Hang, IsLeft
  <2>4. Settle(acc, p) = [acc EXCEPT !.tree = Hang(RotateLeft(t1, a), p, a, TopLeft(t1, a)),
                                     !.node = TopLeft(t1, a)]
    <3>1. Rebalance(t, a) = [tree |-> RotateLeft(t1, a), top |-> TopLeft(t1, a)]
      BY <2>1, <2>2, <2>3 DEF Rebalance, TopRight
    <3>2. acc.tree = t /\ acc.node = a
      OBVIOUS
    <3> HIDE DEF t1, p, acc
    <3>3. Uneven(acc.tree, acc.node) /\ Rebalance(acc.tree, acc.node) = Rebalance(t, a)
      BY <1>2, <3>2
    <3> DEFINE rb == Rebalance(acc.tree, acc.node)
    <3>4. rb.tree = RotateLeft(t1, a) /\ rb.top = TopLeft(t1, a)
      BY <3>1, <3>3
    <3>5. Settle(acc, p) = [acc EXCEPT !.tree = Hang(rb.tree, p, acc.node, rb.top), !.node = rb.top]
      BY <3>3 DEF Settle
    <3> HIDE DEF rb
    <3> QED BY <3>2, <3>4, <3>5
  <2>5. Turned(t1, s, p, a) = Hang(RotateLeft(t1, a), p, a, TopLeft(t1, a))
    BY <1>4 DEF Turned, TurnedLeft, TopLeft
  <2>6. Ptr(t1, s)[a] = TopLeft(t1, a)
    BY <1>4 DEF Ptr, TopLeft
  <2> HIDE DEF t1, p
  <2>7. Settle(acc, p) = [tree |-> Turned(t1, s, p, a), node |-> Ptr(t1, s)[a], done |-> FALSE]
    BY <2>4, <2>5, <2>6
  <2> QED BY <2>7 DEF t1, p
<1> QED BY <1>3, <1>4 DEF Side

-----------------------------------------------------------------------------
(* One node out of balance is settled.                                     *)

\* A node out of balance is settled for good.
LEMMA SettleBalances ==
    ASSUME KeyAssumption, NEW t, NEW M, NEW bd, NEW up, NEW h, NEW a,
           Growing(t, M, bd, up, h, a), up[a] # NULL, Uneven(t, a)
    PROVE  LET S == Settle([tree |-> t, node |-> a, done |-> FALSE], up[a])
           IN /\ S = [tree |-> S.tree, node |-> S.node, done |-> FALSE]
              /\ S.tree.balance[S.node] = 0 /\ S.tree.count = t.count
              /\ \E bd2, up2, h2 : Balanced(S.tree, M, bd2, up2, h2)
<1> DEFINE p == up[a]
           S == Settle([tree |-> t, node |-> a, done |-> FALSE], p)
<1>0. /\ Shape(t, M, bd, up) /\ a \in M /\ h \in [Key -> Nat]
      /\ t \in TreeType /\ M \subseteq Key /\ NULL \notin Key /\ a \in Key
      /\ up[t.root] = NULL /\ t.root \in M
      /\ t.balance[a] \in -2..2 /\ t.balance[a] \in Int
      /\ \A n \in M \ {t.root, a} : t.balance[n] \in -1..1
  BY DEF Growing, Shape, KeyAssumption, TreeType
<1>1. p \in M /\ p # a /\ a # t.root
  BY <1>0, HangsFacts
<1>2. PICK s \in Side : Weight(t, s, a) = 2
  BY <1>0 DEF Uneven, Weight, Side
<1> DEFINE o == Opp(s)
           b == Ptr(t, s)[a]
<1>3. Sound(t, h, a) /\ o \in Side /\ o # s /\ Opp(o) = s
  BY <1>0, <1>1, SideFacts DEF Growing
<1>4. a \in Kid(t, s)
  <2>1. Tall(t, h, s, a) \in Nat /\ Tall(t, h, o, a) \in Nat
    BY <1>0, <1>3, TallFacts
  <2>2. 2 = Tall(t, h, s, a) - Tall(t, h, o, a)
    BY <1>2, <1>3 DEF Sound
  <2> QED BY <2>1, <2>2 DEF Tall
<1>5. b \in M /\ b # a /\ b # p /\ up[b] = a /\ b # t.root /\ b \in Key
  <2>1. b \in M /\ b # a /\ b # p /\ up[b] = a
    BY <1>0, <1>4, KidFacts
  <2>2. a # NULL /\ b \in Key
    BY <1>0, <2>1
  <2> HIDE DEF b
  <2> QED BY <1>0, <2>1, <2>2
<1>6. Weight(t, s, b) = -1 \/ Weight(t, s, b) = 1
  <2>1. Weight(t, s, b) \in -1..1
    BY <1>0, <1>5, WeightZero
  <2>2. Weight(t, s, b) # 0
    BY <1>2 DEF Growing
  <2> QED BY <2>1, <2>2
<1>7. Outgrown(t, M, h, a, p)
  <2>1. t.balance[a] # 0
    BY <1>0 DEF Uneven
  <2> QED BY <1>0, <2>1 DEF Growing, Outgrown
<1>8. Weight(t, s, b) < 0 => b \in Kid(t, o)
  <2> SUFFICES ASSUME Weight(t, s, b) = -1 PROVE b \in Kid(t, o)
    BY <1>6
  <2>1. Sound(t, h, b)
    BY <1>5, <1>7 DEF Outgrown
  <2>2. -1 = Tall(t, h, s, b) - Tall(t, h, o, b)
    BY <2>1 DEF Sound
  <2>3. Tall(t, h, s, b) \in Nat /\ Tall(t, h, o, b) \in Nat
    BY <1>0, <1>3, <1>5, TallFacts
  <2> QED BY <2>2, <2>3 DEF Tall
<1> DEFINE t1 == IF Weight(t, s, b) < 0 THEN Turned(t, o, a, b) ELSE t
<1>9. S = [tree |-> Turned(t1, s, p, a), node |-> Ptr(t1, s)[a], done |-> FALSE]
  BY <1>0, <1>2, <1>4, <1>8, SettleIs
<1> HIDE DEF o, b, p
<1>10. CASE Weight(t, s, b) = 1
  <2> DEFINE u == Turned(t, s, p, a)
  <2>1. t1 = t
    BY <1>10
  <2>2. S.tree = u /\ S.node = b
    BY <1>9, <2>1 DEF b
  <2>3. Turn(t, u, M, bd, up, s, a, b)
    BY <1>0, <1>4, TurnedIs DEF Turn, p, b
  <2> HIDE DEF u
  <2>4. /\ Weight(u, s, a) = 0 /\ Weight(u, s, b) = 0
        /\ \E h2 \in [Key -> Nat] : \A n \in M : Sound(u, h2, n)
    BY <1>2, <1>7, <1>10, <2>3, SingleSound DEF p
  <2>5. Shape(u, M, BoundsAfter(bd, s, a, b), UpAfter(t, up, s, p, a, b))
    BY <2>3, RotatedShape DEF Turn, p
  <2>6. /\ u \in TreeType /\ u.root = t.root /\ u.count = t.count
        /\ \A n \in Key \ {a, b} : Weight(u, s, n) = Weight(t, s, n)
    BY <2>3 DEF Turn, Rotated, p
  <2>7. \A n \in M \ {u.root} : u.balance[n] \in -1..1
    <3> TAKE n \in M \ {u.root}
    <3>1. CASE n = a \/ n = b
      <4>1. Weight(u, s, n) \in -1..1 /\ n \in Key
        BY <1>0, <1>5, <2>4, <3>1
      <4> QED BY <2>6, <4>1, SmallBalance
    <3>2. CASE n # a /\ n # b
      BY <1>0, <2>6, <3>2, WeightZero
    <3> QED BY <3>1, <3>2
  <2>8. u.balance[b] = 0
    BY <1>5, <2>4, <2>6, WeightZero
  <2>9. PICK h2 \in [Key -> Nat] : \A n \in M : Sound(u, h2, n)
    BY <2>4
  <2>10. Balanced(u, M, BoundsAfter(bd, s, a, b), UpAfter(t, up, s, p, a, b), h2)
    BY <2>5, <2>7, <2>9 DEF Balanced
  <2>11. S = [tree |-> u, node |-> b, done |-> FALSE]
    BY <1>9, <2>1 DEF u, b
  <2> QED BY <2>2, <2>6, <2>8, <2>10, <2>11 DEF p
<1>11. CASE Weight(t, s, b) = -1
  <2> DEFINE v == Turned(t, o, a, b)
             z == Ptr(t, o)[b]
             u == Turned(v, s, p, a)
             bd1 == BoundsAfter(bd, o, b, z)
             up1 == UpAfter(t, up, o, a, b, z)
  <2>1. t1 = v
    BY <1>11
  <2>2. b \in Kid(t, o)
    BY <1>8, <1>11
  <2>3. TurnBelow(t, v, M, bd, up, s, a, b, z)
    <3>1. Rotated(t, v, o, a, b, z)
      BY <1>0, <1>3, <1>5, <2>2, TurnedIs
    <3> QED BY <1>0, <1>3, <1>4, <1>5, <2>2, <3>1 DEF TurnBelow, Turn, b, o
  <2>4. /\ up1[a] = p /\ Shape(v, M, bd1, up1) /\ a \in Kid(v, s) /\ Ptr(v, s)[a] = z
        /\ z # b /\ z # a /\ z \in M
    BY <2>3, TurnBelowFacts DEF p, o
  <2> HIDE DEF v
  <2>5. Turn(v, u, M, bd1, up1, s, a, z)
    <3>1. Rotated(v, u, s, p, a, z)
      BY <1>0, <2>4, TurnedIs
    <3> QED BY <1>0, <2>4, <3>1 DEF Turn
  <2>6. Weight(t, s, z) \in -1..1
    <3>1. z # t.root
      <4>1. up[z] = b
        BY <1>0, <1>3, <1>5, <2>2, KidFacts
      <4> QED BY <1>0, <1>5, <4>1
    <3> QED BY <1>0, <2>4, <3>1, WeightZero
  <2> HIDE DEF u, z, bd1, up1
  <2>7. Rotated(v, u, s, p, a, z)
    BY <2>4, <2>5 DEF Turn
  <2>8. /\ Weight(u, s, z) = 0 /\ Weight(u, s, a) \in -1..1 /\ Weight(u, s, b) \in -1..1
        /\ \E h2 \in [Key -> Nat] : \A n \in M : Sound(u, h2, n)
    <3>1. Rotated(v, u, s, up[a], a, z) /\ Outgrown(t, M, h, a, up[a])
      BY <1>7, <2>7 DEF p
    <3>2. Weight(t, s, a) = 2 /\ Weight(t, s, b) = -1 /\ up[a] # NULL
      BY <1>2, <1>11
    <3>3. Zigzag(t, v, u, M, bd, up, h, s, a, b, z)
      BY <2>3, <2>6, <3>1, <3>2 DEF Zigzag
    <3> QED BY <3>3, DoubleSound
  <2>9. Shape(u, M, BoundsAfter(bd1, s, a, z), UpAfter(v, up1, s, p, a, z))
    BY <2>4, <2>5, RotatedShape DEF Turn
  <2>10. /\ u \in TreeType /\ v \in TreeType /\ u.root = t.root /\ u.count = t.count
         /\ \A n \in Key \ {a, b, z} : Weight(u, s, n) = Weight(t, s, n)
    <3>1. p # NULL /\ a # NULL
      BY <1>0 DEF p
    <3>2. /\ u \in TreeType /\ u.root = v.root /\ u.count = v.count
          /\ \A n \in Key \ {a, z} : Weight(u, s, n) = Weight(v, s, n)
      BY <2>7, <3>1 DEF Rotated
    <3>3. Rotated(t, v, o, up[b], b, z)
      BY <2>3 DEF TurnBelow, Turn, o
    <3>4. /\ v \in TreeType /\ v.root = t.root /\ v.count = t.count
          /\ \A n \in Key \ {b, z} : Weight(v, o, n) = Weight(t, o, n)
      BY <1>5, <3>1, <3>3 DEF Rotated
    <3>5. \A n \in Key \ {b, z} : Weight(v, s, n) = Weight(t, s, n)
      BY <1>0, <1>3, <3>4, WeightFacts
    <3> QED BY <3>2, <3>4, <3>5
  <2>11. \A n \in M \ {u.root} : u.balance[n] \in -1..1
    <3> TAKE n \in M \ {u.root}
    <3>1. CASE n \in {a, b, z}
      <4>1. Weight(u, s, n) \in -1..1 /\ n \in Key
        BY <1>0, <1>5, <2>4, <2>8, <3>1
      <4> QED BY <2>10, <4>1, SmallBalance
    <3>2. CASE n \notin {a, b, z}
      <4>1. n \in Key /\ t.balance[n] \in -1..1
        BY <1>0, <2>10, <3>2
      <4>2. Weight(u, s, n) \in -1..1
        BY <1>0, <2>10, <3>2, <4>1, WeightZero
      <4> QED BY <2>10, <4>1, <4>2, SmallBalance
    <3> QED BY <3>1, <3>2
  <2>12. u.balance[z] = 0
    <3>1. z \in Key
      BY <1>0, <2>4
    <3> QED BY <2>8, <2>10, <3>1, WeightZero
  <2>13. PICK h2 \in [Key -> Nat] : \A n \in M : Sound(u, h2, n)
    BY <2>8
  <2>14. Balanced(u, M, BoundsAfter(bd1, s, a, z), UpAfter(v, up1, s, p, a, z), h2)
    BY <2>9, <2>11, <2>13 DEF Balanced
  <2>15. S = [tree |-> u, node |-> z, done |-> FALSE]
    BY <1>9, <2>1, <2>4 DEF u
  <2>16. \E bd2, up2, g : Balanced(u, M, bd2, up2, g)
    BY <2>14
  <2>17. S.tree = u /\ S.node = z
    BY <2>15
  <2> QED BY <2>10, <2>12, <2>15, <2>16, <2>17 DEF p
<1> QED BY <1>6, <1>10, <1>11

-----------------------------------------------------------------------------
(* The way back up.                                                        *)

\* The shape does not depend on the balances of the nodes that are in the tree.
LEMMA ShapeKeeps ==
    ASSUME NEW t, NEW M, NEW bd, NEW up, Shape(t, M, bd, up), NEW p \in M, NEW d \in Int
    PROVE  LET u == [t EXCEPT !.balance[p] = d]
           IN /\ Shape(u, M, bd, up) /\ u.root = t.root /\ u.count = t.count
              /\ u.balance = [t.balance EXCEPT ![p] = d]
              /\ \A s \in Side : Ptr(u, s) = Ptr(t, s) /\ Kid(u, s) = Kid(t, s)
<1> DEFINE u == [t EXCEPT !.balance[p] = d]
<1>1. t \in TreeType /\ M \subseteq Key
  BY DEF Shape
<1>2. /\ u \in TreeType /\ u.root = t.root /\ u.count = t.count
      /\ u.left = t.left /\ u.right = t.right /\ u.lkid = t.lkid /\ u.rkid = t.rkid
      /\ u.balance = [t.balance EXCEPT ![p] = d]
  BY <1>1 DEF TreeType
<1> HIDE DEF u
<1>3. \A s \in Side : Ptr(u, s) = Ptr(t, s) /\ Kid(u, s) = Kid(t, s)
  BY <1>2 DEF Ptr, Kid
<1>4. \A n \in Key \ M : u.balance[n] = t.balance[n]
  BY <1>1, <1>2 DEF TreeType
<1>5. \A n \in M : Node(u, M, bd, up, n)
  <2> TAKE n \in M
  <2>1. Node(t, M, bd, up, n)
    BY DEF Shape
  <2>2. \A s \in Side : OnSide(t, M, bd, up, s, n) => OnSide(u, M, bd, up, s, n)
    BY <1>3 DEF OnSide
  <2>3. \A s \in Side : Hangs(t, s, up[n], n) => Hangs(u, s, up[n], n)
    BY <1>3 DEF Hangs
  <2> QED BY <1>2, <2>1, <2>2, <2>3 DEF Node
<1> QED BY <1>2, <1>3, <1>4, <1>5 DEF Shape, u

\* The loop goes on with the changed tree at the parent.
LEMMA OnwardIs ==
    ASSUME NEW t, NEW x, NEW u, NEW p, NEW a, NEW b,
           a = [tree |-> t, node |-> x, done |-> FALSE],
           b = [a EXCEPT !.tree = u, !.node = p]
    PROVE  b = [tree |-> u, node |-> p, done |-> FALSE]
  OBVIOUS

\* One turn of the loop: the node is settled and nothing above it changes, or
\* its parent learns that it has grown, and is looked at next.
LEMMA GrowStepKeeps ==
    ASSUME KeyAssumption, NEW t, NEW M, NEW bd, NEW up, NEW h, NEW x,
           Growing(t, M, bd, up, h, x), up[x] # NULL
    PROVE  LET R == GrowStep([tree |-> t, node |-> x, done |-> FALSE], up[x])
           IN /\ R.tree.count = t.count
              /\ \/ R.done = TRUE /\ \E bd2, up2, h2 : Balanced(R.tree, M, bd2, up2, h2)
                 \/ /\ R = [tree |-> R.tree, node |-> up[x], done |-> FALSE]
                    /\ \E h2 : Growing(R.tree, M, bd, up, h2, up[x])
<1> DEFINE p == up[x]
           acc == [tree |-> t, node |-> x, done |-> FALSE]
           R == GrowStep(acc, p)
<1>0. /\ Shape(t, M, bd, up) /\ x \in M /\ h \in [Key -> Nat]
      /\ t \in TreeType /\ M \subseteq Key /\ NULL \notin Key /\ x \in Key
      /\ up[t.root] = NULL /\ t.root \in M /\ up \in [Key -> Key \union {NULL}]
      /\ t.balance[x] \in -2..2 /\ t.balance \in [Key -> Int]
      /\ \A n \in M \ {t.root, x} : t.balance[n] \in -1..1
  BY DEF Growing, Shape, KeyAssumption, TreeType
<1>1. p \in M /\ p # x /\ x # t.root /\ p \in Key
  BY <1>0, HangsFacts
<1>2. CASE Uneven(t, x)
  <2> DEFINE S == Settle(acc, p)
  <2>1. /\ S = [tree |-> S.tree, node |-> S.node, done |-> FALSE]
        /\ S.tree.balance[S.node] = 0 /\ S.tree.count = t.count
        /\ \E bd2, up2, h2 : Balanced(S.tree, M, bd2, up2, h2)
    BY <1>2, SettleBalances
  <2>2. acc.done = FALSE
    OBVIOUS
  <2> HIDE DEF S, acc
  <2>3. R = [S EXCEPT !.done = TRUE]
    BY <2>1, <2>2 DEF GrowStep, S
  <2>4. R.tree = S.tree /\ R.done = TRUE
    BY <2>1, <2>3
  <2> HIDE DEF R
  <2> QED BY <2>1, <2>4 DEF R, acc
<1>3. CASE ~Uneven(t, x) /\ t.balance[x] = 0
  <2>1. Settle(acc, p) = acc
    BY <1>3 DEF Settle
  <2>2. acc.tree = t /\ acc.node = x /\ acc.done = FALSE
    OBVIOUS
  <2>2a. [acc EXCEPT !.done = TRUE].tree = t /\ [acc EXCEPT !.done = TRUE].done = TRUE
    OBVIOUS
  <2> HIDE DEF acc
  <2>3. R.tree = t /\ R.done = TRUE
    BY <1>3, <2>1, <2>2, <2>2a DEF GrowStep
  <2>4. Sound(t, h, p)
    <3>1. Sound(t, [h EXCEPT ![x] = h[x]], p)
      BY <1>3 DEF Growing
    <3>2. [h EXCEPT ![x] = h[x]] = h
      BY <1>0
    <3> QED BY <3>1, <3>2
  <2>5. Balanced(t, M, bd, up, h)
    BY <1>0, <1>3, <2>4 DEF Growing, Balanced
  <2> HIDE DEF R
  <2>6. \E bd2, up2, h2 : Balanced(t, M, bd2, up2, h2)
    BY <2>5
  <2> QED BY <2>3, <2>6 DEF R, acc
<1>4. CASE ~Uneven(t, x) /\ t.balance[x] # 0
  <2>1. t.balance[x] \in -1..1
    BY <1>0, <1>4 DEF Uneven
  <2>2. PICK s \in Side : Hangs(t, s, p, x)
    BY <1>0 DEF Shape, Node
  <2> DEFINE o == Opp(s)
             d == IF IsLeft(t, p, x) THEN t.balance[p] - 1 ELSE t.balance[p] + 1
             u == [t EXCEPT !.balance[p] = d]
             w == Weight(t, s, p)
             g == [h EXCEPT ![p] = IF w + 1 > 0 THEN h[x] + 1 ELSE h[p]]
  <2>3. R = [tree |-> u, node |-> p, done |-> FALSE]
    <3>1. Settle(acc, p) = acc
      BY <1>4 DEF Settle
    <3>2. Weigh(t, p, x, 1) = u
      BY DEF Weigh
    <3>3. acc.tree = t /\ acc.node = x /\ acc.done = FALSE
      OBVIOUS
    <3>4. acc = [tree |-> t, node |-> x, done |-> FALSE]
      OBVIOUS
    <3> HIDE DEF u, p, acc
    <3>5. R = [acc EXCEPT !.tree = u, !.node = p]
      BY <1>4, <3>1, <3>2, <3>3 DEF GrowStep
    <3> HIDE DEF R
    <3> QED BY <3>4, <3>5, OnwardIs
  <2>4. d \in Int /\ h[x] \in Nat /\ h[p] \in Nat
    <3>1. t.balance[p] \in Int /\ h[x] \in Nat /\ h[p] \in Nat
      BY <1>0, <1>1
    <3> QED BY <3>1
  <2>5. /\ Shape(u, M, bd, up) /\ u.root = t.root /\ u.count = t.count
        /\ u.balance = [t.balance EXCEPT ![p] = d]
        /\ \A r \in Side : Ptr(u, r) = Ptr(t, r) /\ Kid(u, r) = Kid(t, r)
    BY <1>0, <1>1, <2>4, ShapeKeeps
  <2>6. /\ o \in Side /\ o # s /\ \A r \in Side : r = s \/ r = o
        /\ Opp(o) = s /\ Opp(s) = o /\ Off(s, p, x) /\ p \in Kid(t, s) /\ Ptr(t, s)[p] = x
    BY <1>0, <2>2, HangsFacts, SideFacts DEF Hangs
  <2>7. w \in Int /\ Weight(u, s, p) = w + 1 /\ Weight(u, o, p) = -(w + 1) /\ Weight(t, o, p) = -w
    <3>1. IsLeft(t, p, x) <=> s = "left"
      <4>1. ~Hangs(t, o, p, x)
        BY <1>0, <2>2, HangsFacts
      <4>2. IsLeft(t, p, x) => Hangs(t, "left", p, x)
        BY <1>0, IsLeftMeans
      <4>3. ~IsLeft(t, p, x) => Hangs(t, "right", p, x)
        BY <1>0, IsLeftMeans
      <4> QED BY <2>2, <4>1, <4>2, <4>3 DEF Side, Opp
    <3>2. t.balance[p] \in Int /\ u.balance[p] = d
      BY <1>0, <1>1, <2>5
    <3> HIDE DEF u
    <3> QED BY <3>1, <3>2 DEF Weight, Side, Opp
  <2>8. \A r \in Side : \A n \in Key \ {p} : Weight(u, r, n) = Weight(t, r, n)
    BY <1>0, <2>5 DEF Weight
  <2> HIDE DEF u, d, w, o, p
  <2>9. g \in [Key -> Nat] /\ g[p] = (IF w + 1 > 0 THEN h[x] + 1 ELSE h[p])
        /\ \A n \in Key \ {p} : g[n] = h[n]
    BY <1>0, <1>1, <2>4
  <2>9a. g = [h EXCEPT ![p] = g[p]]
    BY <1>0, <1>1, <2>4
  <2> HIDE DEF g
\* Nodes that do not look at p.
  <2>10. ASSUME NEW n \in M, n # p, NEW r \in Side, n # up[p]
         PROVE  Tall(u, g, r, n) = Tall(t, h, r, n)
    <3>1. n \in Kid(t, r) => Ptr(t, r)[n] \in Key \ {p}
      <4> SUFFICES ASSUME n \in Kid(t, r) PROVE Ptr(t, r)[n] \in Key \ {p}
        OBVIOUS
      <4>1. Ptr(t, r)[n] \in M /\ up[Ptr(t, r)[n]] = n
        BY <1>0, KidFacts
      <4> QED BY <1>0, <2>10, <4>1
    <3> QED BY <2>5, <2>9, <3>1 DEF Tall
  <2>11. ASSUME NEW n \in M, n # p, n # up[p]
         PROVE  Sound(u, g, n)
    <3>1. Sound(t, h, n)
      BY <2>11 DEF Growing, p
    <3>2. g[n] = h[n] /\ n \in Key \ {p}
      BY <1>0, <2>9, <2>11
    <3> QED BY <2>8, <2>10, <2>11, <3>1, <3>2, SideFacts DEF Sound
\* The parent.
  <2>12. /\ Tall(u, g, s, p) = h[x] /\ Tall(u, g, o, p) = Tall(t, h, o, p)
         /\ Tall(t, h, o, p) \in Nat
    <3>1. Tall(u, g, s, p) = h[x]
      BY <1>0, <1>1, <2>5, <2>6, <2>9 DEF Tall
    <3>2. p \in Kid(t, o) => Ptr(t, o)[p] \in Key \ {p}
      <4> SUFFICES ASSUME p \in Kid(t, o) PROVE Ptr(t, o)[p] \in Key \ {p}
        OBVIOUS
      <4>1. Ptr(t, o)[p] \in M /\ Ptr(t, o)[p] # p
        BY <1>0, <1>1, <2>6, KidFacts
      <4> QED BY <1>0, <4>1
    <3>3. Tall(t, h, o, p) \in Nat
      BY <1>0, <1>1, <2>6, TallFacts
    <3> QED BY <2>5, <2>6, <2>9, <3>1, <3>2, <3>3 DEF Tall
  <2>13. /\ w = h[x] - 1 - Tall(t, h, o, p)
         /\ w >= 0 => h[p] = h[x]
         /\ w <= 0 => h[p] = 1 + Tall(t, h, o, p)
    <3> DEFINE f == [h EXCEPT ![x] = h[x] - 1]
    <3>1. Sound(t, f, p)
      BY <1>4 DEF Growing, p
    <3>2. f[p] = h[p] /\ Tall(t, f, s, p) = h[x] - 1
      BY <1>0, <1>1, <2>6 DEF Tall
    <3>3. Tall(t, f, o, p) = Tall(t, h, o, p)
      <4>1. p \in Kid(t, o) => Ptr(t, o)[p] \in Key \ {x}
        <5> SUFFICES ASSUME p \in Kid(t, o) PROVE Ptr(t, o)[p] \in Key \ {x}
          OBVIOUS
        <5>1. Ptr(t, o)[p] \in M /\ Off(o, p, Ptr(t, o)[p])
          BY <1>0, <1>1, <2>6, KidFacts
        <5>2. ~Off(o, p, x)
          BY <1>0, <1>1, <2>6, OffFacts
        <5> QED BY <1>0, <5>1, <5>2
      <4> QED BY <1>0, <4>1 DEF Tall
    <3> HIDE DEF f
    <3>4. /\ w = Tall(t, f, s, p) - Tall(t, f, o, p)
          /\ w >= 0 => f[p] = 1 + Tall(t, f, s, p)
          /\ -w >= 0 => f[p] = 1 + Tall(t, f, o, p)
      BY <2>6, <2>7, <3>1 DEF Sound, w
    <3> QED BY <2>4, <2>7, <2>12, <3>2, <3>3, <3>4
  <2>14. Sound(u, g, p)
    <3>1. /\ w + 1 = h[x] - Tall(t, h, o, p)
          /\ w + 1 >= 0 => g[p] = 1 + h[x]
          /\ -(w + 1) >= 0 => g[p] = 1 + Tall(t, h, o, p)
      BY <2>4, <2>7, <2>9, <2>12, <2>13
    <3>2. -(w + 1) = Tall(t, h, o, p) - h[x]
      BY <2>4, <2>12, <3>1
    <3> QED BY <2>6, <2>7, <2>12, <3>1, <3>2 DEF Sound
\* The parent of the parent, whose balance counts on the height p had.
  <2>15. ASSUME up[p] # NULL
         PROVE  /\ Sound(u, [g EXCEPT ![p] = IF u.balance[p] = 0 THEN g[p] ELSE g[p] - 1], up[p])
                /\ u.balance[p] \in -2..2
                /\ \A r \in Side : Weight(u, r, p) = 2 => Weight(u, r, Ptr(u, r)[p]) # 0
    <3>1. up[p] \in M /\ up[p] # p /\ up[p] \in Key
      BY <1>0, <1>1, <2>15, HangsFacts
    <3>2. p # t.root /\ w \in -1..1
      BY <1>0, <1>1, <2>15, WeightZero, <2>2 DEF w
    <3>3. u \in TreeType
      BY <2>5 DEF Shape
    <3>4. u.balance[p] \in -2..2 /\ (u.balance[p] = 0 <=> w + 1 = 0)
      BY <1>1, <2>2, <2>7, <3>2, <3>3, WeightZero
    <3>5. (IF u.balance[p] = 0 THEN g[p] ELSE g[p] - 1) = h[p]
      BY <2>4, <2>9, <2>13, <3>2, <3>4
    <3>6. [g EXCEPT ![p] = h[p]] = h
      BY <1>0, <1>1, <2>9
    <3>7. Sound(u, h, up[p])
      <4>1. up[p] # x => Sound(t, h, up[p])
        BY <3>1 DEF Growing, p
      <4>2. Sound(t, h, up[p])
        BY <1>0, <1>1, <2>15, <3>1 DEF Growing, p
      <4>3. \A r \in Side : Tall(u, h, r, up[p]) = Tall(t, h, r, up[p])
        BY <2>5 DEF Tall
      <4> QED BY <2>8, <3>1, <4>2, <4>3, SideFacts DEF Sound
    <3>8. ASSUME NEW r \in Side, Weight(u, r, p) = 2 PROVE Weight(u, r, Ptr(u, r)[p]) # 0
      <4>1. r = s
        BY <2>6, <2>7, <3>2, <3>8
      <4>2. Ptr(u, r)[p] = x
        BY <2>5, <2>6, <4>1
      <4>3. Weight(u, r, x) = Weight(t, r, x)
        BY <1>0, <1>1, <2>8
      <4> QED BY <1>0, <1>4, <4>2, <4>3, WeightZero
    <3> QED BY <3>4, <3>5, <3>6, <3>7, <3>8
  <2>16. \A n \in M \ {u.root, p} : u.balance[n] \in -1..1
    <3> TAKE n \in M \ {u.root, p}
    <3>1. u.balance[n] = t.balance[n]
      BY <1>0, <1>1, <2>5
    <3> QED BY <1>0, <2>1, <2>5, <3>1
  <2>17. \A n \in M : n # up[p] => Sound(u, g, n)
    BY <2>11, <2>14
  <2>18. Growing(u, M, bd, up, g, p)
    BY <1>1, <2>5, <2>9, <2>15, <2>16, <2>17 DEF Growing
  <2>19. \E h2 : Growing(u, M, bd, up, h2, p)
    BY <2>18
  <2>20. R.tree = u
    BY <2>3
  <2> HIDE DEF R
  <2> QED BY <2>3, <2>5, <2>19, <2>20 DEF R, p
<1> QED BY <1>2, <1>3, <1>4

\* The turns of the loop of placenode up to number m.
Turns(f, t, path, m) ==
    f = [i \in 0..m |-> IF i = 0 THEN [tree |-> t, node |-> path[Len(path)], done |-> FALSE]
                        ELSE GrowStep(f[i - 1], path[Len(path) - i])]

\* There is a sequence of turns of every length.
LEMMA TurnsExist ==
    ASSUME NEW t, NEW path
    PROVE  \A m \in Nat : \E f : Turns(f, t, path, m)
<1> DEFINE W == {m \in Nat : ~\E f : Turns(f, t, path, m)}
           first == [tree |-> t, node |-> path[Len(path)], done |-> FALSE]
           Step(a, i) == GrowStep(a, path[Len(path) - i])
<1> SUFFICES ASSUME W # {} PROVE FALSE
  OBVIOUS
<1>1. PICK m \in W : \A k \in W : m <= k
  BY Least
<1> HIDE DEF first, Step
<1>2. CASE m = 0
  <2> DEFINE f == [i \in 0..0 |-> first]
  <2>1. f = [i \in 0..0 |-> IF i = 0 THEN first ELSE Step(f[i - 1], i)]
    OBVIOUS
  <2> HIDE DEF f
  <2>2. Turns(f, t, path, m)
    BY <1>2, <2>1 DEF Turns, first, Step
  <2> QED BY <1>1, <2>2
<1>3. CASE m # 0
  <2>1. m - 1 \in Nat /\ m - 1 \notin W
    BY <1>1, <1>3
  <2>2. PICK f : Turns(f, t, path, m - 1)
    BY <2>1
  <2>3. f = [i \in 0..(m - 1) |-> IF i = 0 THEN first ELSE Step(f[i - 1], i)]
    BY <2>2 DEF Turns, first, Step
  <2> DEFINE g == [i \in 0..m |-> IF i = m THEN Step(f[m - 1], m) ELSE f[i]]
  <2>4. ASSUME NEW i \in 0..m
        PROVE  g[i] = IF i = 0 THEN first ELSE Step(g[i - 1], i)
    <3>1. CASE i = m
      <4>1. m - 1 \in 0..m /\ m - 1 # m /\ g[m - 1] = f[m - 1]
        BY <2>1
      <4> QED BY <1>3, <3>1, <4>1
    <3>2. CASE i # m
      <4>1. i \in 0..(m - 1) /\ g[i] = f[i]
        BY <2>1, <3>2
      <4>2. i # 0 => i - 1 \in 0..m /\ i - 1 # m /\ g[i - 1] = f[i - 1]
        BY <2>1, <3>2
      <4> HIDE DEF g
      <4>3. f[i] = IF i = 0 THEN first ELSE Step(f[i - 1], i)
        BY <2>3, <4>1
      <4> QED BY <4>1, <4>2, <4>3
    <3> QED BY <3>1, <3>2
  <2>5. g = [i \in 0..m |-> g[i]]
    OBVIOUS
  <2> HIDE DEF g
  <2>6. g = [i \in 0..m |-> IF i = 0 THEN first ELSE Step(g[i - 1], i)]
    BY <2>4, <2>5
  <2>7. Turns(g, t, path, m)
    BY <2>6 DEF Turns, first, Step
  <2> QED BY <1>1, <2>7
<1> QED BY <1>2, <1>3

\* The nodes from the root down to x, each the parent of the next.
WayDown(t, M, up, path) ==
    /\ path \in Seq(Key) /\ Len(path) \in Nat \ {0}
    /\ \A i \in 1..Len(path) : path[i] \in M
    /\ up[path[1]] = NULL
    /\ \A i \in 1..(Len(path) - 1) : up[path[i + 1]] = path[i]

\* The loop of placenode makes every balance exact again, and leaves no node
\* below the root out of balance.
LEMMA GrowUpBalances ==
    ASSUME KeyAssumption, NEW t, NEW M, NEW bd, NEW up, NEW h, NEW path,
           WayDown(t, M, up, path), Growing(t, M, bd, up, h, path[Len(path)])
    PROVE  /\ GrowUp(t, path).count = t.count
           /\ \E bd2, up2, h2 : Balanced(GrowUp(t, path), M, bd2, up2, h2)
<1> DEFINE n == Len(path)
           m == n - 1
           d == CHOOSE f : Turns(f, t, path, m)
<1>1. n \in Nat \ {0} /\ m \in Nat /\ n - 0 = n
  BY DEF WayDown
<1>2. Turns(d, t, path, m)
  BY <1>1, TurnsExist
<1>3. GrowUp(t, path) = d[m].tree
  BY DEF GrowUp, Turns
<1> HIDE DEF d
<1>4. /\ d[0] = [tree |-> t, node |-> path[n], done |-> FALSE]
      /\ \A i \in 1..m : d[i] = GrowStep(d[i - 1], path[n - i])
  <2>1. d = [i \in 0..m |-> IF i = 0 THEN [tree |-> t, node |-> path[n], done |-> FALSE]
                            ELSE GrowStep(d[i - 1], path[n - i])]
    BY <1>2 DEF Turns
  <2> HIDE DEF m, n
  <2>2. 0 \in 0..m /\ \A i \in 1..m : i \in 0..m /\ i # 0
    BY <1>1
  <2> QED BY <2>1, <2>2
<1> DEFINE Right(i) ==
             /\ d[i].tree.count = t.count
             /\ \/ d[i].done = TRUE /\ \E bd2, up2, h2 : Balanced(d[i].tree, M, bd2, up2, h2)
                \/ /\ d[i] = [tree |-> d[i].tree, node |-> path[n - i], done |-> FALSE]
                   /\ \E h2 : Growing(d[i].tree, M, bd, up, h2, path[n - i])
           W == {i \in 0..m : ~Right(i)}
<1>5. Right(0)
  <2>1. d[0].tree = t /\ d[0] = [tree |-> d[0].tree, node |-> path[n - 0], done |-> FALSE]
    BY <1>1, <1>4
  <2>2. Growing(d[0].tree, M, bd, up, h, path[n - 0])
    BY <1>1, <2>1
  <2> QED BY <2>1, <2>2
<1>6. ASSUME NEW i \in 1..m, Right(i - 1)
      PROVE  Right(i)
  <2>1. d[i] = GrowStep(d[i - 1], path[n - i])
    BY <1>4
  <2>2. CASE d[i - 1].done = TRUE
    <3>1. d[i] = d[i - 1]
      BY <2>1, <2>2 DEF GrowStep
    <3>2. \E bd2, up2, h2 : Balanced(d[i - 1].tree, M, bd2, up2, h2)
      BY <1>6, <2>2
    <3> QED BY <1>6, <2>2, <3>1, <3>2
  <2>3. CASE d[i - 1].done # TRUE
    <3> DEFINE x == path[n - (i - 1)]
               u == d[i - 1].tree
               R == GrowStep([tree |-> u, node |-> x, done |-> FALSE], up[x])
    <3>1. d[i - 1] = [tree |-> u, node |-> x, done |-> FALSE] /\ u.count = t.count
      BY <1>6, <2>3
    <3>2. PICK h2 : Growing(u, M, bd, up, h2, x)
      BY <1>6, <2>3
    <3>3. up[x] = path[n - i] /\ path[n - i] # NULL
      <4>1. n - i \in 1..(n - 1) /\ (n - i) + 1 = n - (i - 1)
        BY <1>1
      <4>2. path[n - i] \in M
        BY <1>1, <4>1 DEF WayDown
      <4>3. up[path[(n - i) + 1]] = path[n - i]
        BY <4>1 DEF WayDown
      <4> QED BY <4>1, <4>2, <4>3 DEF Growing, Shape, KeyAssumption
    <3> HIDE DEF u, x
    <3>4. /\ R.tree.count = u.count
          /\ \/ R.done = TRUE /\ \E bd2, up2, g : Balanced(R.tree, M, bd2, up2, g)
             \/ /\ R = [tree |-> R.tree, node |-> up[x], done |-> FALSE]
                /\ \E g : Growing(R.tree, M, bd, up, g, up[x])
      BY <3>2, <3>3, GrowStepKeeps
    <3>5. d[i] = R
      BY <2>1, <3>1, <3>3
    <3> HIDE DEF R
    <3> QED BY <3>1, <3>3, <3>4, <3>5
  <2> QED BY <2>2, <2>3
<1> HIDE DEF Right
<1>7. \A i \in 0..m : Right(i)
  <2> SUFFICES ASSUME W # {} PROVE FALSE
    OBVIOUS
  <2>1. PICK i \in W : \A k \in W : i <= k
    <3>1. W \in SUBSET Nat
      BY <1>1
    <3> QED BY <3>1, Least
  <2>2. i # 0 /\ i \in 1..m /\ i - 1 \in 0..m /\ i - 1 \notin W
    BY <1>1, <1>5, <2>1
  <2> QED BY <1>6, <2>1, <2>2
<1>8. CASE d[m].done = TRUE
  <2>1. Right(m)
    BY <1>1, <1>7
  <2>2. d[m].tree.count = t.count /\ \E bd2, up2, h2 : Balanced(d[m].tree, M, bd2, up2, h2)
    BY <1>8, <2>1 DEF Right
  <2> QED BY <1>3, <2>2
<1>9. CASE d[m].done # TRUE
  <2>1. n - m = 1
    BY <1>1
  <2>2. d[m].tree.count = t.count /\ \E h2 : Growing(d[m].tree, M, bd, up, h2, path[1])
    <3>1. Right(m)
      BY <1>1, <1>7
    <3> QED BY <1>9, <2>1, <3>1 DEF Right
  <2>3. PICK h2 : Growing(d[m].tree, M, bd, up, h2, path[1])
    BY <2>2
  <2>4. up[path[1]] = NULL
    BY DEF WayDown
  <2>5. path[1] = d[m].tree.root /\ NULL \notin M
    BY <2>3, <2>4 DEF Growing, Shape, Node, KeyAssumption
  <2>6. Balanced(d[m].tree, M, bd, up, h2)
    BY <2>3, <2>4, <2>5 DEF Growing, Balanced
  <2> QED BY <1>3, <2>2, <2>6
<1> QED BY <1>8, <1>9

-----------------------------------------------------------------------------
(* The way down.                                                           *)

\* A child is lower than its parent.
LEMMA ChildIsLower ==
    ASSUME KeyAssumption, NEW t, NEW M, NEW bd, NEW up, NEW h, Balanced(t, M, bd, up, h),
           NEW s \in Side, NEW n \in Key, n \in Kid(t, s)
    PROVE  n \in M /\ Ptr(t, s)[n] \in M /\ h[Ptr(t, s)[n]] < h[n]
<1>1. /\ Shape(t, M, bd, up) /\ h \in [Key -> Nat] /\ n \in M /\ Sound(t, h, n)
      /\ M \subseteq Key /\ t \in TreeType
  BY DEF Balanced, Shape
<1>2. Ptr(t, s)[n] \in M
  BY <1>1, KidFacts
<1>3. Opp(s) \in Side /\ Opp(Opp(s)) = s
  BY SideFacts
<1>4. Tall(t, h, s, n) = h[Ptr(t, s)[n]]
  BY DEF Tall
<1>5. Tall(t, h, s, n) \in Nat /\ Tall(t, h, Opp(s), n) \in Nat /\ h[n] \in Nat
  BY <1>1, <1>3, TallFacts
<1>6. /\ Weight(t, s, n) = Tall(t, h, s, n) - Tall(t, h, Opp(s), n)
      /\ Weight(t, s, n) >= 0 => h[n] = 1 + Tall(t, h, s, n)
      /\ Weight(t, Opp(s), n) = Tall(t, h, Opp(s), n) - Tall(t, h, s, n)
      /\ Weight(t, Opp(s), n) >= 0 => h[n] = 1 + Tall(t, h, Opp(s), n)
  BY <1>1, <1>3 DEF Sound
<1>7. h[n] > Tall(t, h, s, n)
  BY <1>5, <1>6
<1> QED BY <1>1, <1>2, <1>4, <1>5, <1>7

\* Steps to a child, on whatever side, come to an end.
LEMMA DownFalls ==
    ASSUME KeyAssumption, NEW t, NEW M, NEW bd, NEW up, NEW h, Balanced(t, M, bd, up, h),
           NEW next \in [Key -> Key \union {NULL}],
           \A n \in Key : next[n] # NULL => \E s \in Side : n \in Kid(t, s) /\ next[n] = Ptr(t, s)[n]
    PROVE  Falls(next, h)
<1>1. h \in [Key -> Nat]
  BY DEF Balanced
<1>2. ASSUME NEW n \in Key, next[n] # NULL PROVE h[next[n]] < h[n]
  <2>1. PICK s \in Side : n \in Kid(t, s) /\ next[n] = Ptr(t, s)[n]
    BY <1>2
  <2> QED BY <2>1, ChildIsLower
<1> QED BY <1>1, <1>2 DEF Falls

\* The search steps to a child on the side on which k lies.
LEMMA TowardIs ==
    ASSUME KeyAssumption, NEW t \in TreeType, NEW k \in Key
    PROVE  /\ Toward(t, k) \in [Key -> Key \union {NULL}]
           /\ \A n \in Key : Toward(t, k)[n] # NULL =>
                \E s \in Side : n \in Kid(t, s) /\ Toward(t, k)[n] = Ptr(t, s)[n] /\ Off(s, n, k)
           /\ \A n \in Key : \A s \in Side :
                Off(s, n, k) /\ n \in Kid(t, s) => Toward(t, k)[n] = Ptr(t, s)[n]
<1>1. /\ Key \subseteq Int /\ NULL \notin Key
      /\ t.left \in [Key -> Key \union {NULL}] /\ t.right \in [Key -> Key \union {NULL}]
  BY DEF KeyAssumption, TreeType
<1>2. ASSUME NEW n \in Key
      PROVE  /\ LeftChild(t)[n] = IF n \in t.lkid THEN t.left[n] ELSE NULL
             /\ RightChild(t)[n] = IF n \in t.rkid THEN t.right[n] ELSE NULL
             /\ Toward(t, k)[n] = IF k < n THEN LeftChild(t)[n]
                                  ELSE IF n < k THEN RightChild(t)[n] ELSE NULL
  <2>1. n \in Int /\ k \in Int
    BY <1>1
  <2> QED BY <2>1 DEF LeftChild, RightChild, Toward
<1>3. Toward(t, k) = [n \in Key |-> Toward(t, k)[n]]
  BY DEF Toward
<1>4. ASSUME NEW n \in Key PROVE Toward(t, k)[n] \in Key \union {NULL}
  BY <1>1, <1>2
<1>5. ASSUME NEW n \in Key, Toward(t, k)[n] # NULL
      PROVE  \E s \in Side : n \in Kid(t, s) /\ Toward(t, k)[n] = Ptr(t, s)[n] /\ Off(s, n, k)
  <2>1. CASE k < n
    <3>1. n \in Kid(t, "left") /\ Toward(t, k)[n] = Ptr(t, "left")[n] /\ Off("left", n, k)
      BY <1>2, <1>5, <2>1 DEF Kid, Ptr, Off
    <3> QED BY <3>1 DEF Side
  <2>2. CASE ~(k < n)
    <3>1. n \in Kid(t, "right") /\ Toward(t, k)[n] = Ptr(t, "right")[n] /\ Off("right", n, k)
      BY <1>2, <1>5, <2>2 DEF Kid, Ptr, Off
    <3> QED BY <3>1 DEF Side
  <2> QED BY <2>1, <2>2
<1>6. ASSUME NEW n \in Key, NEW s \in Side, Off(s, n, k), n \in Kid(t, s)
      PROVE  Toward(t, k)[n] = Ptr(t, s)[n]
  <2>1. n \in Int /\ k \in Int
    BY <1>1
  <2> QED BY <1>2, <1>6, <2>1 DEF Kid, Ptr, Off, Side
<1> QED BY <1>3, <1>4, <1>5, <1>6

\* What a node on the way to k knows: k is within its bounds, and each bound is
\* a node the way has passed on the side away from it.
OnTheWay(t, M, bd, k, n) ==
    /\ n \in M
    /\ \A r \in Side : /\ Within(r, bd[r][n], k)
                       /\ bd[r][n] = NULL \/ bd[r][n] \in Kid(t, Opp(r))

\* A step of the search towards k keeps k within the bounds.
LEMMA OnTheWayDown ==
    ASSUME KeyAssumption, NEW t, NEW M, NEW bd, NEW up, Shape(t, M, bd, up),
           NEW k \in Key, NEW n, OnTheWay(t, M, bd, k, n),
           NEW s \in Side, n \in Kid(t, s), Off(s, n, k)
    PROVE  OnTheWay(t, M, bd, k, Ptr(t, s)[n]) /\ up[Ptr(t, s)[n]] = n
<1> DEFINE c == Ptr(t, s)[n]
<1>0. M \subseteq Key /\ NULL \notin Key /\ n \in M /\ Node(t, M, bd, up, n)
      /\ Opp(s) \in Side /\ Opp(Opp(s)) = s /\ \A r \in Side : r = s \/ r = Opp(s)
  BY SideFacts DEF Shape, KeyAssumption, OnTheWay
<1>1. c \in M /\ bd[s][c] = bd[s][n] /\ bd[Opp(s)][c] = n /\ up[c] = n
  BY <1>0 DEF Node, OnSide
<1> HIDE DEF c
<1>2. Within(Opp(s), n, k)
  BY <1>0, OffFacts DEF Within
<1>3. Within(s, bd[s][c], k) /\ (bd[s][c] = NULL \/ bd[s][c] \in Kid(t, Opp(s)))
  BY <1>1 DEF OnTheWay
<1>4. OnTheWay(t, M, bd, k, c)
  BY <1>0, <1>1, <1>2, <1>3 DEF OnTheWay
<1> QED BY <1>1, <1>4 DEF c

\* The search goes down from the root, keeps k within the bounds, and ends at k
\* or at a node that has no child on the side of k; then k is not in the tree.
LEMMA PathIs ==
    ASSUME KeyAssumption, NEW t, NEW M, NEW bd, NEW up, NEW h, Balanced(t, M, bd, up, h),
           M # {}, NEW k \in Key
    PROVE  LET path == Path(t, k)
               p == path[Len(path)]
           IN /\ WayDown(t, M, up, path) /\ OnTheWay(t, M, bd, k, p)
              /\ p # k => /\ k \notin M
                          /\ \A s \in Side : Off(s, p, k) => p \notin Kid(t, s)
<1> DEFINE next == Toward(t, k)
           path == Path(t, k)
           n == Len(path)
<1>0. /\ Shape(t, M, bd, up) /\ t \in TreeType /\ M \subseteq Key /\ NULL \notin Key
      /\ t.root \in M /\ t.root # NULL /\ up[t.root] = NULL
      /\ \A r \in Side : bd[r][t.root] = NULL
      /\ \A m \in M : Node(t, M, bd, up, m)
  BY DEF Balanced, Shape, KeyAssumption
<1>1. Falls(next, h)
  <2>1. /\ next \in [Key -> Key \union {NULL}]
        /\ \A m \in Key : next[m] # NULL => \E s \in Side : m \in Kid(t, s) /\ next[m] = Ptr(t, s)[m]
    BY <1>0, TowardIs
  <2> HIDE DEF next
  <2> QED BY <2>1, DownFalls
<1>2. path = Chain(next, t.root)
  BY <1>0 DEF Path
<1>3. IsChain(next, t.root, path)
  <2> HIDE DEF next
  <2>1. t.root \in Key
    BY <1>0
  <2> QED BY <1>0, <1>1, <1>2, <2>1, ChainIs
<1> HIDE DEF path
<1>4. /\ path \in Seq(Key) /\ n \in Nat \ {0} /\ path[1] = t.root
      /\ \A i \in 1..(n - 1) : next[path[i]] = path[i + 1]
      /\ next[path[n]] = NULL
  BY <1>3 DEF IsChain
<1> HIDE DEF n
<1>5. ASSUME NEW i \in 1..(n - 1), OnTheWay(t, M, bd, k, path[i])
      PROVE  OnTheWay(t, M, bd, k, path[i + 1]) /\ up[path[i + 1]] = path[i]
  <2>1. path[i] \in M /\ path[i + 1] \in Key /\ next[path[i]] = path[i + 1]
    <3>1. i + 1 \in 1..n
      BY <1>4
    <3> QED BY <1>4, <1>5, <3>1 DEF OnTheWay, n
  <2>2. PICK s \in Side : path[i] \in Kid(t, s) /\ next[path[i]] = Ptr(t, s)[path[i]]
                          /\ Off(s, path[i], k)
    <3>1. path[i] \in Key /\ next[path[i]] # NULL
      BY <1>0, <2>1
    <3> QED BY <1>0, <3>1, TowardIs
  <2> QED BY <1>0, <1>5, <2>1, <2>2, OnTheWayDown
<1>6. OnTheWay(t, M, bd, k, path[1])
  BY <1>0, <1>4 DEF OnTheWay, Within
<1>7. \A i \in 1..n : OnTheWay(t, M, bd, k, path[i])
  <2> DEFINE W == {i \in 1..n : ~OnTheWay(t, M, bd, k, path[i])}
  <2> SUFFICES ASSUME W # {} PROVE FALSE
    OBVIOUS
  <2>1. PICK i \in W : \A j \in W : i <= j
    <3>1. W \in SUBSET Nat
      BY <1>4
    <3> QED BY <3>1, Least
  <2>2. i # 1 /\ i - 1 \in 1..(n - 1) /\ i - 1 \in 1..n /\ i - 1 \notin W /\ (i - 1) + 1 = i
    BY <1>4, <1>6, <2>1
  <2>3. OnTheWay(t, M, bd, k, path[(i - 1) + 1])
    BY <1>5, <2>2
  <2> QED BY <2>1, <2>2, <2>3
<1>8. WayDown(t, M, up, path)
  <2>1. \A i \in 1..n : path[i] \in M
    BY <1>7 DEF OnTheWay
  <2>2. \A i \in 1..(n - 1) : up[path[i + 1]] = path[i]
    BY <1>4, <1>5, <1>7
  <2> QED BY <1>0, <1>4, <2>1, <2>2 DEF WayDown, n
<1> DEFINE p == path[n]
<1>9. OnTheWay(t, M, bd, k, p) /\ p \in M
  <2>1. n \in 1..n
    BY <1>4
  <2> QED BY <1>7, <2>1 DEF OnTheWay
<1> HIDE DEF p
<1>10. ASSUME NEW s \in Side, Off(s, p, k) PROVE p \notin Kid(t, s)
  <2> SUFFICES ASSUME p \in Kid(t, s) PROVE FALSE
    OBVIOUS
  <2>1. next[p] = Ptr(t, s)[p]
    <3>1. p \in Key
      BY <1>0, <1>9
    <3>2. \A m \in Key : \A r \in Side : Off(r, m, k) /\ m \in Kid(t, r) => next[m] = Ptr(t, r)[m]
      BY <1>0, TowardIs
    <3> QED BY <1>10, <3>1, <3>2
  <2>2. Ptr(t, s)[p] \in M
    BY <1>0, <1>9, KidFacts
  <2> QED BY <1>0, <1>4, <2>1, <2>2 DEF p
<1>11. p # k => k \notin M
  <2> SUFFICES ASSUME p # k, k \in M PROVE FALSE
    OBVIOUS
  <2>1. PICK s \in Side : Off(s, p, k)
    <3>1. "left" \in Side /\ (Off("left", p, k) \/ Off("left", k, p))
      BY <1>0, <1>9, OffFacts DEF Side
    <3>2. Off("left", k, p) => Off("right", p, k)
      BY DEF Off
    <3> QED BY <3>1, <3>2 DEF Side
  <2>2. p \notin Kid(t, s)
    BY <1>10, <2>1
  <2>3. ~Within(s, bd[s][p], k)
    BY <1>0, <1>9, <2>1, <2>2 DEF Node, OnSide
  <2> QED BY <1>9, <2>3 DEF OnTheWay
<1> QED BY <1>8, <1>9, <1>10, <1>11 DEF p, n, path

-----------------------------------------------------------------------------
(* A new node.                                                             *)

\* u is t with the new node k below p, on side s.
Attached(t, u, s, p, k) ==
    LET o == Opp(s)
    IN /\ u \in TreeType /\ u.root = t.root /\ u.count = t.count + 1
       /\ \A n \in Key : Ptr(u, s)[n] = IF n = p THEN k
                                        ELSE IF n = k THEN Ptr(t, s)[p] ELSE Ptr(t, s)[n]
       /\ \A n \in Key : Ptr(u, o)[n] = IF n = k THEN p ELSE Ptr(t, o)[n]
       /\ Kid(u, s) = Kid(t, s) \union {p} /\ Kid(u, o) = Kid(t, o)
       /\ Weight(u, s, p) = Weight(t, s, p) + 1
       /\ \A n \in Key \ {p} : Weight(u, s, n) = Weight(t, s, n)

\* placenode's new node and the threads around it, on either side.
LEMMA AttachIs ==
    ASSUME KeyAssumption, NEW t \in TreeType, NEW p \in Key, NEW k \in Key, NEW s \in Side,
           Off(s, p, k)
    PROVE  Attached(t, Attach(t, p, k), s, p, k)
<1> DEFINE u == Attach(t, p, k)
<1>0. /\ Key \subseteq Int /\ NULL \notin Key /\ p # k
      /\ t.left \in [Key -> Key \union {NULL}] /\ t.right \in [Key -> Key \union {NULL}]
      /\ t.lkid \subseteq Key /\ t.rkid \subseteq Key /\ t.balance \in [Key -> Int]
      /\ t.root \in Key \union {NULL} /\ t.count \in Int /\ t.balance[p] \in Int
  BY OffFacts DEF KeyAssumption, TreeType
<1>1. CASE s = "left"
  <2>1. k < p
    BY <1>1 DEF Off
  <2>2. /\ u.root = t.root /\ u.count = t.count + 1
        /\ u.left = [t.left EXCEPT ![k] = t.left[p], ![p] = k]
        /\ u.right = [t.right EXCEPT ![k] = p]
        /\ u.lkid = t.lkid \union {p} /\ u.rkid = t.rkid
        /\ u.balance = [t.balance EXCEPT ![p] = t.balance[p] - 1]
    BY <1>0, <2>1 DEF Attach, TreeType
  <2>3. u = [t EXCEPT !.left = u.left, !.right = u.right, !.lkid = u.lkid,
                      !.balance = u.balance, !.count = u.count]
    BY <2>1, <2>2 DEF Attach
  <2> HIDE DEF u
  <2>4. u.left \in [Key -> Key \union {NULL}] /\ u.right \in [Key -> Key \union {NULL}]
        /\ u.lkid \subseteq Key /\ u.balance \in [Key -> Int] /\ u.count \in Int
    BY <1>0, <2>2
  <2>5. u \in TreeType
    BY <2>3, <2>4 DEF TreeType
  <2>6. \A n \in Key : u.left[n] = IF n = p THEN k ELSE IF n = k THEN t.left[p] ELSE t.left[n]
    BY <1>0, <2>2
  <2>7. \A n \in Key : u.right[n] = IF n = k THEN p ELSE t.right[n]
    BY <1>0, <2>2
  <2>8. /\ Weight(u, "left", p) = Weight(t, "left", p) + 1
        /\ \A n \in Key \ {p} : Weight(u, "left", n) = Weight(t, "left", n)
    BY <1>0, <2>2 DEF Weight
  <2> QED BY <1>1, <2>2, <2>5, <2>6, <2>7, <2>8 DEF Attached, Ptr, Kid, Opp, u
<1>2. CASE s = "right"
  <2>1. ~(k < p)
    <3>1. k \in Int /\ p \in Int /\ p < k
      BY <1>0, <1>2 DEF Off
    <3> QED BY <3>1
  <2>2. /\ u.root = t.root /\ u.count = t.count + 1
        /\ u.right = [t.right EXCEPT ![k] = t.right[p], ![p] = k]
        /\ u.left = [t.left EXCEPT ![k] = p]
        /\ u.rkid = t.rkid \union {p} /\ u.lkid = t.lkid
        /\ u.balance = [t.balance EXCEPT ![p] = t.balance[p] + 1]
    BY <1>0, <2>1 DEF Attach, TreeType
  <2>3. u = [t EXCEPT !.right = u.right, !.left = u.left, !.rkid = u.rkid,
                      !.balance = u.balance, !.count = u.count]
    BY <2>1, <2>2 DEF Attach
  <2> HIDE DEF u
  <2>4. u.left \in [Key -> Key \union {NULL}] /\ u.right \in [Key -> Key \union {NULL}]
        /\ u.rkid \subseteq Key /\ u.balance \in [Key -> Int] /\ u.count \in Int
    <3>1. u.left \in [Key -> Key \union {NULL}]
      BY <1>0, <2>2
    <3>2. u.right \in [Key -> Key \union {NULL}]
      BY <1>0, <2>2
    <3>3. u.rkid \subseteq Key /\ u.count \in Int
      BY <1>0, <2>2
    <3>4. u.balance \in [Key -> Int]
      BY <1>0, <2>2
    <3> QED BY <3>1, <3>2, <3>3, <3>4
  <2>5. u \in TreeType
    BY <2>3, <2>4 DEF TreeType
  <2>6. \A n \in Key : u.right[n] = IF n = p THEN k ELSE IF n = k THEN t.right[p] ELSE t.right[n]
    BY <1>0, <2>2
  <2>7. \A n \in Key : u.left[n] = IF n = k THEN p ELSE t.left[n]
    BY <1>0, <2>2
  <2>8. /\ Weight(u, "right", p) = Weight(t, "right", p) + 1
        /\ \A n \in Key \ {p} : Weight(u, "right", n) = Weight(t, "right", n)
    BY <1>0, <2>2 DEF Weight
  <2> QED BY <1>2, <2>2, <2>5, <2>6, <2>7, <2>8 DEF Attached, Ptr, Kid, Opp, u
<1> QED BY <1>1, <1>2 DEF Side

\* k belongs below p on side s, where p has no child yet.
Belongs(t, M, bd, up, s, p, k) ==
    /\ Shape(t, M, bd, up) /\ OnTheWay(t, M, bd, k, p) /\ s \in Side
    /\ k \in Key \ M /\ Off(s, p, k) /\ p \notin Kid(t, s)

\* No other node that misses a child there has k in its gap.
LEMMA OneGap ==
    ASSUME KeyAssumption, NEW t, NEW M, NEW bd, NEW up, NEW s, NEW p, NEW k,
           Belongs(t, M, bd, up, s, p, k),
           NEW n \in M, n # p, NEW r \in Side, n \notin Kid(t, r), Off(r, n, k)
    PROVE  ~Within(r, bd[r][n], k)
<1> DEFINE o == Opp(s)
           b == bd[s][p]
           c == bd[r][n]
<1> SUFFICES ASSUME Within(r, c, k) PROVE FALSE
  OBVIOUS
<1>0. /\ M \subseteq Key /\ NULL \notin Key /\ p \in M /\ k \in Key /\ k # n
      /\ s \in Side /\ o \in Side /\ Opp(o) = s /\ (r = s \/ r = o)
      /\ Node(t, M, bd, up, n) /\ Node(t, M, bd, up, p) /\ Off(s, p, k)
  BY SideFacts DEF Belongs, Shape, KeyAssumption, OnTheWay
<1>1. /\ b \in M \union {NULL} /\ c \in M \union {NULL} /\ Within(s, b, k)
      /\ \A m \in M : Off(s, p, m) => ~Within(s, b, m)
      /\ \A m \in M : Off(r, n, m) => ~Within(r, c, m)
      /\ b = NULL \/ b \in Kid(t, o)
  BY <1>0 DEF Belongs, Node, OnSide, OnTheWay
<1> HIDE DEF b, c, o
<1>2. CASE r = s
  <2>1. CASE Off(s, n, p)
    <3>1. c # NULL /\ ~Off(s, p, c) /\ Off(s, k, c)
      BY <1>0, <1>1, <1>2, <2>1 DEF Within
    <3> QED BY <1>0, <1>1, <3>1, OffFacts
  <2>2. CASE Off(s, p, n)
    <3>1. b # NULL /\ ~Off(s, n, b) /\ Off(s, k, b) /\ Off(s, n, k)
      BY <1>0, <1>1, <1>2, <2>2 DEF Within
    <3> QED BY <1>0, <1>1, <3>1, OffFacts
  <2> QED BY <1>0, <2>1, <2>2, OffFacts
<1>3. CASE r = o
  <2>1. Off(s, k, n)
    BY <1>0, <1>3, OffFacts
  <2>2. Off(s, p, n)
    BY <1>0, <2>1, OffFacts
  <2>3. b # NULL /\ ~Off(s, n, b) /\ Off(s, k, b) /\ b \in Key
    BY <1>0, <1>1, <2>2 DEF Within
  <2>4. b # n
    BY <1>1, <1>3, <2>3
  <2>5. Off(o, n, b)
    BY <1>0, <2>3, <2>4, OffFacts
  <2>6. c # NULL /\ ~Off(o, b, c) /\ Off(o, k, c) /\ c \in Key
    BY <1>0, <1>1, <1>3, <2>3, <2>5 DEF Within
  <2>7. Off(o, b, k)
    BY <1>0, <2>3, OffFacts
  <2> QED BY <1>0, <2>3, <2>6, <2>7, OffFacts
<1> QED BY <1>0, <1>2, <1>3

BoundsWith(bd, s, p, k) ==
    [r \in Side |-> [bd[r] EXCEPT ![k] = IF r = s THEN bd[s][p] ELSE p]]

\* The new node takes its place in the shape.
LEMMA AttachShape ==
    ASSUME KeyAssumption, NEW t, NEW u, NEW M, NEW bd, NEW up, NEW s, NEW p, NEW k,
           Belongs(t, M, bd, up, s, p, k), Attached(t, u, s, p, k)
    PROVE  Shape(u, M \union {k}, BoundsWith(bd, s, p, k), [up EXCEPT ![k] = p])
<1> DEFINE o == Opp(s)
           N == M \union {k}
           bd2 == BoundsWith(bd, s, p, k)
           up2 == [up EXCEPT ![k] = p]
<1>0. /\ M \subseteq Key /\ NULL \notin Key /\ p \in M /\ k \in Key /\ k \notin M
      /\ s \in Side /\ o \in Side /\ Opp(o) = s /\ o # s /\ \A r \in Side : r = s \/ r = o
      /\ Shape(t, M, bd, up) /\ Off(s, p, k) /\ p \notin Kid(t, s)
      /\ bd \in [Side -> [Key -> Key \union {NULL}]] /\ up \in [Key -> Key \union {NULL}]
      /\ M # {} /\ \A n \in M : Node(t, M, bd, up, n)
      /\ t.root \in M /\ up[t.root] = NULL /\ \A r \in Side : bd[r][t.root] = NULL
      /\ p # k
  BY SideFacts DEF Belongs, Shape, KeyAssumption, OnTheWay
<1>1. /\ bd2 \in [Side -> [Key -> Key \union {NULL}]] /\ up2 \in [Key -> Key \union {NULL}]
      /\ bd2[s][k] = bd[s][p] /\ bd2[o][k] = p /\ up2[k] = p
      /\ \A n \in M : up2[n] = up[n]
      /\ \A r \in Side : \A n \in M : bd2[r][n] = bd[r][n]
  BY <1>0 DEF BoundsWith
<1> HIDE DEF bd2, up2, o
<1>2. /\ u \in TreeType /\ u.root = t.root
      /\ \A n \in Key : Ptr(u, s)[n] = IF n = p THEN k
                                       ELSE IF n = k THEN Ptr(t, s)[p] ELSE Ptr(t, s)[n]
      /\ \A n \in Key : Ptr(u, o)[n] = IF n = k THEN p ELSE Ptr(t, o)[n]
      /\ Kid(u, s) = Kid(t, s) \union {p} /\ Kid(u, o) = Kid(t, o)
  BY DEF Attached, o
<1>3. \A r \in Side : Kid(t, r) \subseteq M /\ Kid(u, r) \subseteq M
  BY <1>0, <1>2 DEF Shape
<1>4. /\ bd[s][p] \in M \union {NULL} /\ Ptr(t, s)[p] = bd[s][p] /\ Within(s, bd[s][p], k)
      /\ \A m \in M : Off(s, p, m) => ~Within(s, bd[s][p], m)
  BY <1>0 DEF Node, OnSide, Belongs, OnTheWay
<1>5. Node(u, N, bd2, up2, k)
  <2>1. Hangs(u, s, p, k)
    BY <1>0, <1>2 DEF Hangs
  <2>2. Within(o, p, k)
    BY <1>0, OffFacts DEF Within
  <2>3. OnSide(u, N, bd2, up2, s, k)
    <3>1. k \notin Kid(u, s) /\ Ptr(u, s)[k] = bd2[s][k]
      BY <1>0, <1>1, <1>2, <1>3, <1>4
    <3>2. ASSUME NEW m \in N, Off(s, k, m) PROVE ~Within(s, bd[s][p], m)
      <4>1. m \in M /\ Off(s, p, m)
        BY <1>0, <3>2, OffFacts
      <4> QED BY <1>4, <4>1
    <3> QED BY <1>1, <3>1, <3>2 DEF OnSide
  <2>4. OnSide(u, N, bd2, up2, o, k)
    <3>1. k \notin Kid(u, o) /\ Ptr(u, o)[k] = bd2[o][k]
      BY <1>0, <1>1, <1>2, <1>3
    <3>2. ASSUME NEW m \in N, Off(o, k, m), Within(o, p, m) PROVE FALSE
      <4>1. m \in M /\ Off(s, m, k) /\ Off(s, p, m)
        BY <1>0, <3>2, OffFacts DEF Within
      <4>2. ~Within(s, bd[s][p], m)
        BY <1>4, <4>1
      <4> DEFINE b == bd[s][p]
      <4>3. b \in Key /\ Off(s, k, b) /\ ~Off(s, m, b)
        BY <1>0, <1>4, <4>2 DEF Within
      <4> HIDE DEF b
      <4> QED BY <1>0, <4>1, <4>3, OffFacts
    <3> QED BY <1>1, <3>1, <3>2 DEF OnSide
  <2> QED BY <1>0, <1>1, <1>4, <2>1, <2>2, <2>3, <2>4 DEF Node
<1>6. ASSUME NEW n \in M PROVE Node(u, N, bd2, up2, n)
  <2>1. Node(t, M, bd, up, n) /\ n \in Key /\ n # k
    BY <1>0
  <2>2. ASSUME NEW r \in Side, up[n] # NULL, Hangs(t, r, up[n], n) PROVE Hangs(u, r, up[n], n)
    <3>1. up[n] \in M /\ up[n] # k
      BY <1>0, <2>1, <2>2 DEF Node
    <3> QED BY <1>0, <1>2, <2>2, <3>1 DEF Hangs
  <2>3. ASSUME NEW r \in Side PROVE OnSide(u, N, bd2, up2, r, n)
    <3>1. OnSide(t, M, bd, up, r, n)
      BY <2>1 DEF Node
    <3>2. CASE n = p /\ r = s
      BY <1>0, <1>1, <1>2, <3>2 DEF OnSide, o
    <3>3. CASE n \in Kid(t, r)
      <4>1. Ptr(u, r)[n] = Ptr(t, r)[n] /\ n \in Kid(u, r)
        BY <1>0, <1>2, <2>1, <3>3
      <4>2. Ptr(t, r)[n] \in M /\ Opp(r) \in Side
        BY <3>1, <3>3, SideFacts DEF OnSide
      <4> HIDE DEF N
      <4>3. N = M \union {k}
        BY DEF N
      <4> QED BY <1>1, <3>1, <3>3, <4>1, <4>2, <4>3 DEF OnSide
    <3>4. CASE n \notin Kid(t, r) /\ ~(n = p /\ r = s)
      <4>1. Ptr(u, r)[n] = Ptr(t, r)[n] /\ n \notin Kid(u, r)
        BY <1>0, <1>2, <2>1, <3>4
      <4>2. Off(r, n, k) => ~Within(r, bd[r][n], k)
        <5>1. CASE n = p
          BY <1>0, <3>4, <5>1, OffFacts
        <5>2. CASE n # p
          BY <3>4, <5>2, OneGap
        <5> QED BY <5>1, <5>2
      <4>3. /\ Ptr(t, r)[n] = bd[r][n]
            /\ \A m \in M : Off(r, n, m) => ~Within(r, bd[r][n], m)
        BY <3>1, <3>4 DEF OnSide
      <4> QED BY <1>1, <4>1, <4>2, <4>3 DEF OnSide
    <3> QED BY <3>2, <3>3, <3>4
  <2> QED BY <1>1, <1>2, <2>1, <2>2, <2>3 DEF Node
<1>7. ASSUME NEW n \in Key \ N PROVE u.left[n] = NULL /\ u.right[n] = NULL /\ u.balance[n] = 0
  <2>1. t.left[n] = NULL /\ t.right[n] = NULL /\ t.balance[n] = 0 /\ n # p /\ n # k
    BY <1>0, <1>7 DEF Shape
  <2>2. \A r \in Side : Ptr(u, r)[n] = Ptr(t, r)[n]
    BY <1>0, <1>2, <1>7, <2>1
  <2>3. u.left[n] = t.left[n] /\ u.right[n] = t.right[n]
    BY <2>2 DEF Side, Ptr
  <2>4. Weight(u, s, n) = Weight(t, s, n)
    BY <1>7, <2>1 DEF Attached
  <2>5. t \in TreeType /\ u.balance[n] \in Int
    BY <1>0, <1>2 DEF Shape, TreeType
  <2>6. u.balance[n] = t.balance[n]
    BY <1>0, <2>1, <2>4, <2>5 DEF Weight, Side
  <2> QED BY <2>1, <2>3, <2>6
<1>8. \A n \in N : Node(u, N, bd2, up2, n)
  BY <1>5, <1>6
<1>9. N \subseteq Key /\ N # {} /\ u.root \in N /\ up2[u.root] = NULL
      /\ \A r \in Side : bd2[r][u.root] = NULL /\ Kid(u, r) \subseteq N
  <2>1. N \subseteq Key /\ N # {} /\ \A r \in Side : Kid(u, r) \subseteq N
    BY <1>0, <1>3
  <2>2. u.root \in M /\ up2[u.root] = NULL
    BY <1>0, <1>1, <1>2
  <2>3. \A r \in Side : bd2[r][u.root] = bd[r][t.root]
    BY <1>1, <1>2, <2>2
  <2> QED BY <1>0, <2>1, <2>2, <2>3
<1> HIDE DEF N
<1>10. Shape(u, N, bd2, up2)
  BY <1>1, <1>2, <1>7, <1>8, <1>9 DEF Shape
<1> QED BY <1>10 DEF N, bd2, up2

HeightsWith(t, h, s, p, k) ==
    [h EXCEPT ![k] = 1, ![p] = IF Weight(t, s, p) = 0 THEN 2 ELSE h[p]]

\* The new node is all that its parent's own parent does not know of.
LEMMA AttachGrowing ==
    ASSUME KeyAssumption, NEW t, NEW u, NEW M, NEW bd, NEW up, NEW h, NEW s, NEW p, NEW k,
           Balanced(t, M, bd, up, h), Belongs(t, M, bd, up, s, p, k),
           Attached(t, u, s, p, k)
    PROVE  Growing(u, M \union {k}, BoundsWith(bd, s, p, k), [up EXCEPT ![k] = p],
                   HeightsWith(t, h, s, p, k), p)
<1> DEFINE o == Opp(s)
           N == M \union {k}
           bd2 == BoundsWith(bd, s, p, k)
           up2 == [up EXCEPT ![k] = p]
           g == HeightsWith(t, h, s, p, k)
           q == up[p]
<1>0. /\ M \subseteq Key /\ NULL \notin Key /\ p \in M /\ k \in Key /\ k \notin M /\ p # k
      /\ s \in Side /\ o \in Side /\ Opp(o) = s /\ o # s /\ \A r \in Side : r = s \/ r = o
      /\ Shape(t, M, bd, up) /\ p \notin Kid(t, s) /\ t \in TreeType /\ u \in TreeType
      /\ up \in [Key -> Key \union {NULL}] /\ h \in [Key -> Nat]
      /\ \A n \in M : Sound(t, h, n) /\ Node(t, M, bd, up, n)
      /\ \A n \in M \ {t.root} : t.balance[n] \in -1..1
      /\ u.root = t.root /\ t.root \in M
  BY SideFacts DEF Balanced, Belongs, Shape, KeyAssumption, OnTheWay, Attached
<1>1. Shape(u, N, bd2, up2)
  BY AttachShape
<1>2. /\ g \in [Key -> Nat] /\ g[k] = 1 /\ g[p] = IF Weight(t, s, p) = 0 THEN 2 ELSE h[p]
      /\ \A n \in M \ {p} : g[n] = h[n]
      /\ up2[k] = p /\ \A n \in M : up2[n] = up[n]
  <2>1. (IF Weight(t, s, p) = 0 THEN 2 ELSE h[p]) \in Nat
    BY <1>0
  <2> QED BY <1>0, <2>1 DEF HeightsWith
<1> HIDE DEF g, up2, bd2, o
<1>3. /\ \A n \in Key : Ptr(u, s)[n] = IF n = p THEN k
                                       ELSE IF n = k THEN Ptr(t, s)[p] ELSE Ptr(t, s)[n]
      /\ \A n \in Key : Ptr(u, o)[n] = IF n = k THEN p ELSE Ptr(t, o)[n]
      /\ Kid(u, s) = Kid(t, s) \union {p} /\ Kid(u, o) = Kid(t, o)
      /\ Weight(u, s, p) = Weight(t, s, p) + 1
      /\ \A n \in Key \ {p} : Weight(u, s, n) = Weight(t, s, n)
  BY DEF Attached, o
<1>4. \A r \in Side : Kid(t, r) \subseteq M /\ Kid(u, r) \subseteq M
  BY <1>0, <1>3 DEF Shape
<1>5. \A r \in Side : \A n \in Key \ {p} : Weight(u, r, n) = Weight(t, r, n)
  BY <1>0, <1>3, WeightFacts
<1>6. \A n \in Key \ {p} : u.balance[n] = t.balance[n]
  <2> TAKE n \in Key \ {p}
  <2>1. Weight(u, "right", n) = Weight(t, "right", n)
    BY <1>5 DEF Side
  <2> QED BY <2>1 DEF Weight
<1>7. t.balance[k] = 0
  BY <1>0 DEF Shape
<1>8. /\ Tall(t, h, o, p) \in Nat /\ Tall(t, h, s, p) = 0
      /\ Weight(t, s, p) = -Tall(t, h, o, p) /\ Weight(t, o, p) = Tall(t, h, o, p)
      /\ h[p] = 1 + Tall(t, h, o, p)
  <2>1. Tall(t, h, o, p) \in Nat /\ Tall(t, h, s, p) = 0
    BY <1>0, TallFacts DEF Tall
  <2>2. /\ Weight(t, s, p) = Tall(t, h, s, p) - Tall(t, h, o, p)
        /\ Weight(t, o, p) = Tall(t, h, o, p) - Tall(t, h, s, p)
        /\ Weight(t, o, p) >= 0 => h[p] = 1 + Tall(t, h, o, p)
    BY <1>0 DEF Sound, o
  <2> QED BY <2>1, <2>2
<1>9. Tall(u, g, s, p) = 1 /\ Tall(u, g, o, p) = Tall(t, h, o, p)
  <2>1. Tall(u, g, s, p) = 1
    BY <1>0, <1>2, <1>3 DEF Tall
  <2>2. ASSUME p \in Kid(t, o) PROVE Ptr(u, o)[p] = Ptr(t, o)[p] /\ g[Ptr(t, o)[p]] = h[Ptr(t, o)[p]]
    <3>1. Ptr(t, o)[p] \in M /\ Ptr(t, o)[p] # p
      BY <1>0, <2>2, KidFacts
    <3> QED BY <1>0, <1>2, <1>3, <3>1
  <2> QED BY <1>3, <2>1, <2>2 DEF Tall
<1>10. Sound(u, g, p)
  <2> DEFINE H == Tall(t, h, o, p)
  <2>1. Weight(u, s, p) = 1 - H /\ Weight(u, o, p) = H - 1 /\ H \in Nat
    <3>1. Weight(u, o, p) = -Weight(u, s, p)
      BY <1>0, WeightFacts DEF o
    <3>2. Weight(u, s, p) = -H + 1 /\ H \in Nat
      BY <1>3, <1>8
    <3> HIDE DEF H
    <3> QED BY <3>1, <3>2
  <2>2. g[p] = IF H = 0 THEN 2 ELSE 1 + H
    BY <1>2, <1>8
  <2> HIDE DEF H
  <2>3. /\ Weight(u, s, p) >= 0 => g[p] = 1 + 1
        /\ Weight(u, o, p) >= 0 => g[p] = 1 + H
    BY <2>1, <2>2
  <2>4. Tall(u, g, s, p) = 1 /\ Tall(u, g, o, p) = H
    BY <1>9 DEF H
  <2>5. \A r \in Side : (r = s /\ Opp(r) = o) \/ (r = o /\ Opp(r) = s)
    BY <1>0 DEF o
  <2> QED BY <2>1, <2>3, <2>4, <2>5 DEF Sound
<1>11. Sound(u, g, k)
  <2>1. \A r \in Side : k \notin Kid(u, r) /\ Weight(u, r, k) = 0
    <3>1. \A r \in Side : Weight(u, r, k) = Weight(t, r, k)
      BY <1>0, <1>5
    <3> QED BY <1>0, <1>4, <1>7, <3>1 DEF Weight
  <2>2. \A r \in Side : Tall(u, g, r, k) = 0
    BY <2>1 DEF Tall
  <2> QED BY <1>2, <2>1, <2>2, SideFacts DEF Sound
\* A node keeps its kids, and with them what it knows, in heights that are
\* the old ones of its kids.
<1>12. ASSUME NEW n \in M, n # p, NEW f,
              \A r \in Side : n \in Kid(t, r) => f[Ptr(t, r)[n]] = h[Ptr(t, r)[n]],
              f[n] = h[n]
       PROVE  Sound(u, f, n)
  <2>1. n \in Key /\ n # k
    BY <1>0
  <2>2. ASSUME NEW r \in Side PROVE Tall(u, f, r, n) = Tall(t, h, r, n)
    <3>1. Ptr(u, r)[n] = Ptr(t, r)[n] /\ (n \in Kid(u, r) <=> n \in Kid(t, r))
      BY <1>0, <1>3, <1>12, <2>1
    <3> QED BY <1>12, <3>1 DEF Tall
  <2>3. \A r \in Side : Weight(u, r, n) = Weight(t, r, n) /\ Opp(r) \in Side
    BY <1>5, <1>12, <2>1, SideFacts
  <2>4. Sound(t, h, n)
    BY <1>0
  <2> QED BY <1>12, <2>2, <2>3, <2>4 DEF Sound
<1>13. ASSUME NEW n \in M, n # p, n # q PROVE Sound(u, g, n)
  <2>1. ASSUME NEW r \in Side, n \in Kid(t, r)
        PROVE  g[Ptr(t, r)[n]] = h[Ptr(t, r)[n]]
    <3>1. Ptr(t, r)[n] \in M /\ up[Ptr(t, r)[n]] = n
      BY <1>0, <2>1, KidFacts
    <3>2. Ptr(t, r)[n] # p
      BY <1>13, <3>1
    <3> QED BY <1>2, <3>1, <3>2
  <2> QED BY <1>2, <1>12, <1>13, <2>1
<1>14. ASSUME q # NULL
       PROVE  /\ Sound(u, [g EXCEPT ![p] = IF u.balance[p] = 0 THEN g[p] ELSE g[p] - 1], q)
              /\ u.balance[p] \in -2..2
              /\ \A r \in Side : Weight(u, r, p) = 2 => Weight(u, r, Ptr(u, r)[p]) # 0
  <2>1. q \in M /\ q # p
    BY <1>0, <1>14, HangsFacts
  <2>2. p # t.root
    BY <1>0, <1>14 DEF Shape
  <2>3. t.balance[p] \in -1..1
    BY <1>0, <2>2
  <2>4. Weight(t, s, p) \in -1..1
    BY <1>0, <2>3, WeightZero
  <2>5. Weight(t, s, p) \in -1..0 /\ Weight(u, s, p) \in 0..1
    BY <1>3, <1>8, <2>4
  <2>6. Weight(u, s, p) \in Int /\ Weight(u, o, p) = -Weight(u, s, p)
    BY <1>0, WeightFacts DEF o
  <2>7. \A r \in Side : Weight(u, r, p) # 2
    BY <1>0, <2>5, <2>6
  <2>8. Weight(u, s, p) = 0 <=> u.balance[p] = 0
    BY <1>0, WeightZero
  <2>9. u.balance[p] \in -2..2
    BY <1>0, <2>5, WeightZero
  <2> DEFINE v == IF u.balance[p] = 0 THEN g[p] ELSE g[p] - 1
             f == [g EXCEPT ![p] = v]
  <2>10. v = h[p]
    <3>1. CASE Weight(t, s, p) = 0
      <4>1. h[p] = 1 /\ g[p] = 2
        BY <1>2, <1>8, <3>1
      <4> QED BY <1>3, <2>8, <3>1, <4>1
    <3>2. CASE Weight(t, s, p) # 0
      <4>1. Weight(t, s, p) = -1 /\ g[p] = h[p]
        BY <1>2, <2>5, <3>2
      <4>2. u.balance[p] = 0
        BY <1>3, <2>8, <4>1
      <4> QED BY <4>1, <4>2
    <3> QED BY <3>1, <3>2
  <2> HIDE DEF v
  <2>11. \A n \in M : f[n] = h[n]
    BY <1>0, <1>2, <2>10
  <2> HIDE DEF f
  <2>12. \A r \in Side : q \in Kid(t, r) => Ptr(t, r)[q] \in M
    BY <1>0, <2>1, KidFacts
  <2>13. Sound(u, f, q)
    BY <1>12, <2>1, <2>11, <2>12
  <2> QED BY <2>7, <2>9, <2>13 DEF f, v
<1>15. \A n \in N \ {u.root, p} : u.balance[n] \in -1..1
  BY <1>0, <1>6, <1>7
<1>16. \A n \in N : n # up2[p] => Sound(u, g, n)
  BY <1>0, <1>2, <1>10, <1>11, <1>13
<1>17. p \in N /\ up2[p] = q
  BY <1>0, <1>2
<1> HIDE DEF N, q
<1>18. Growing(u, N, bd2, up2, g, p)
  BY <1>1, <1>2, <1>14, <1>15, <1>16, <1>17 DEF Growing
<1> QED BY <1>18 DEF g, up2, bd2, N

\* A node put below p of a tree in balance, and the loop of placenode after it.
LEMMA PlacedKeeps ==
    ASSUME KeyAssumption, NEW t, NEW M, NEW bd, NEW up, NEW h, Balanced(t, M, bd, up, h),
           NEW s, NEW k, NEW path, WayDown(t, M, up, path),
           Belongs(t, M, bd, up, s, path[Len(path)], k)
    PROVE  LET v == GrowUp(Attach(t, path[Len(path)], k), path)
           IN /\ v.count = t.count + 1
              /\ \E bd2, up2, h2 : Balanced(v, M \union {k}, bd2, up2, h2)
<1> DEFINE p == path[Len(path)]
           u == Attach(t, p, k)
           N == M \union {k}
           b == BoundsWith(bd, s, p, k)
           q == [up EXCEPT ![k] = p]
           g == HeightsWith(t, h, s, p, k)
<1>0. /\ t \in TreeType /\ M \subseteq Key /\ p \in Key /\ k \in Key \ M /\ s \in Side
      /\ Off(s, p, k) /\ up \in [Key -> Key \union {NULL}]
  BY DEF Balanced, Shape, Belongs, OnTheWay
<1> HIDE DEF p
<1>1. Attached(t, u, s, p, k)
  BY <1>0, AttachIs
<1>2. u.count = t.count + 1
  BY <1>1 DEF Attached
<1> HIDE DEF u
<1>3. Growing(u, N, b, q, g, p)
  BY <1>1, AttachGrowing DEF p
<1>4. WayDown(u, N, q, path)
  <2>1. \A i \in 1..Len(path) : path[i] \in M /\ path[i] # k
    BY <1>0 DEF WayDown
  <2>2. \A n \in Key \ {k} : q[n] = up[n]
    BY <1>0
  <2> HIDE DEF q
  <2>3. q[path[1]] = NULL
    <3>1. 1 \in 1..Len(path)
      BY DEF WayDown
    <3> QED BY <1>0, <2>1, <2>2, <3>1 DEF WayDown
  <2>4. ASSUME NEW i \in 1..(Len(path) - 1) PROVE q[path[i + 1]] = path[i]
    <3>1. i + 1 \in 1..Len(path)
      BY DEF WayDown
    <3> QED BY <1>0, <2>1, <2>2, <3>1 DEF WayDown
  <2> QED BY <2>1, <2>3, <2>4 DEF WayDown
<1> HIDE DEF N, b, q, g
<1>5. /\ GrowUp(u, path).count = u.count
      /\ \E bd2, up2, h2 : Balanced(GrowUp(u, path), N, bd2, up2, h2)
  <2>1. Growing(u, N, b, q, g, path[Len(path)])
    BY <1>3 DEF p
  <2> QED BY <1>4, <2>1, GrowUpBalances
<1> QED BY <1>2, <1>5 DEF u, p, N

\* The first node of a tree.
LEMMA FirstInserted ==
    ASSUME KeyAssumption, NEW t, NEW bd, NEW up, NEW h, Balanced(t, {}, bd, up, h),
           NEW k \in Key
    PROVE  LET v == [t EXCEPT !.root = k, !.count = @ + 1]
           IN /\ v.count = t.count + 1
              /\ \E bd2, up2, h2 : Balanced(v, {k}, bd2, up2, h2)
<1> DEFINE v == [t EXCEPT !.root = k, !.count = @ + 1]
           bd2 == [r \in Side |-> [n \in Key |-> NULL]]
           up2 == [n \in Key |-> NULL]
           h2 == [n \in Key |-> 1]
<1>0. /\ t \in TreeType /\ NULL \notin Key /\ k # NULL
      /\ t.lkid = {} /\ t.rkid = {}
      /\ \A n \in Key : t.left[n] = NULL /\ t.right[n] = NULL /\ t.balance[n] = 0
  <2>1. \A s \in Side : Kid(t, s) = {}
    BY DEF Balanced, Shape
  <2>2. t.lkid = {} /\ t.rkid = {}
    BY <2>1 DEF Side, Kid
  <2> QED BY <2>2 DEF Balanced, Shape, KeyAssumption
<1>1. /\ v \in TreeType /\ v.root = k /\ v.count = t.count + 1
      /\ v.left = t.left /\ v.right = t.right /\ v.lkid = {} /\ v.rkid = {}
      /\ v.balance = t.balance
  <2>1. v.root = k /\ v.count = t.count + 1 /\ t.count \in Int
    BY <1>0 DEF TreeType
  <2>2. /\ v.left = t.left /\ v.right = t.right /\ v.lkid = t.lkid /\ v.rkid = t.rkid
        /\ v.balance = t.balance
    BY <1>0 DEF TreeType
  <2>3. v = [t EXCEPT !.root = v.root, !.count = v.count]
    BY <2>1
  <2> HIDE DEF v
  <2>4. v.root \in Key \union {NULL} /\ v.count \in Int
    BY <2>1
  <2>5. v \in TreeType
    BY <1>0, <2>3, <2>4 DEF TreeType
  <2> QED BY <1>0, <2>1, <2>2, <2>5
<1>2. /\ bd2 \in [Side -> [Key -> Key \union {NULL}]] /\ up2 \in [Key -> Key \union {NULL}]
      /\ h2 \in [Key -> Nat] /\ h2[k] = 1 /\ up2[k] = NULL /\ \A r \in Side : bd2[r][k] = NULL
  OBVIOUS
<1> HIDE DEF v, bd2, up2, h2
<1>3. \A s \in Side : /\ Kid(v, s) = {} /\ Ptr(v, s)[k] = NULL /\ Weight(v, s, k) = 0
                      /\ Tall(v, h2, s, k) = 0
  <2>1. \A s \in Side : Kid(v, s) = {}
    BY <1>1 DEF Kid
  <2>2. \A s \in Side : Ptr(v, s)[k] = NULL
    BY <1>0, <1>1 DEF Ptr
  <2>3. \A s \in Side : Weight(v, s, k) = 0
    BY <1>0, <1>1 DEF Weight
  <2> QED BY <2>1, <2>2, <2>3 DEF Tall
<1>4. Node(v, {k}, bd2, up2, k)
  <2>1. \A s \in Side : ~Off(s, k, k)
    BY OffFacts
  <2> QED BY <1>1, <1>2, <1>3, <2>1 DEF Node, OnSide, Within
<1>5. Shape(v, {k}, bd2, up2)
  <2>1. \A n \in Key \ {k} : v.left[n] = NULL /\ v.right[n] = NULL /\ v.balance[n] = 0
    BY <1>0, <1>1
  <2> QED BY <1>1, <1>2, <1>3, <1>4, <2>1 DEF Shape
<1>6. Sound(v, h2, k)
  <2>1. \A s \in Side : Tall(v, h2, Opp(s), k) = 0
    BY <1>3, SideFacts
  <2> QED BY <1>2, <1>3, <2>1 DEF Sound
<1>7. Balanced(v, {k}, bd2, up2, h2)
  BY <1>1, <1>2, <1>5, <1>6 DEF Balanced
<1> QED BY <1>1, <1>7 DEF v

\* lookupnode finds what is in the tree, and nothing else.
LEMMA HasIs ==
    ASSUME KeyAssumption, NEW t, NEW M, NEW bd, NEW up, NEW h, Balanced(t, M, bd, up, h),
           NEW k \in Key
    PROVE  Has(t, k) <=> k \in M
<1>1. CASE M = {}
  BY <1>1 DEF Balanced, Shape, Has
<1>2. CASE M # {}
  <2> DEFINE path == Path(t, k)
             p == path[Len(path)]
  <2>1. WayDown(t, M, up, path) /\ OnTheWay(t, M, bd, k, p) /\ (p # k => k \notin M)
    BY <1>2, PathIs
  <2>2. Last(path) = p
    BY DEF Last
  <2>3. t.root # NULL
    BY <1>2 DEF Balanced, Shape, KeyAssumption
  <2> QED BY <2>1, <2>2, <2>3 DEF Has, OnTheWay
<1> QED BY <1>1, <1>2

\* placenode keeps the tree in balance, with the new node in it.
LEMMA InsertedKeeps ==
    ASSUME KeyAssumption, NEW t, NEW M, NEW bd, NEW up, NEW h, Balanced(t, M, bd, up, h),
           NEW k \in Key
    PROVE  /\ Inserted(t, k).count = IF k \in M THEN t.count ELSE t.count + 1
           /\ \E bd2, up2, h2 : Balanced(Inserted(t, k), M \union {k}, bd2, up2, h2)
<1>0. Has(t, k) <=> k \in M
  BY HasIs
<1>1. CASE k \in M
  <2>1. Inserted(t, k) = t /\ M \union {k} = M
    BY <1>0, <1>1 DEF Inserted, Has
  <2> QED BY <1>1, <2>1
<1>2. CASE M = {}
  <2>1. Inserted(t, k) = [t EXCEPT !.root = k, !.count = @ + 1] /\ M \union {k} = {k} /\ k \notin M
    BY <1>2 DEF Inserted, Balanced, Shape
  <2>2. Balanced(t, {}, bd, up, h)
    BY <1>2
  <2> DEFINE v == [t EXCEPT !.root = k, !.count = @ + 1]
  <2>3. v.count = t.count + 1 /\ \E bd2, up2, h2 : Balanced(v, {k}, bd2, up2, h2)
    BY <2>2, FirstInserted
  <2>4. Inserted(t, k) = v
    BY <2>1
  <2> HIDE DEF v
  <2>5. PICK bd2, up2, h2 : Balanced(v, {k}, bd2, up2, h2)
    BY <2>3
  <2>6. Balanced(Inserted(t, k), M \union {k}, bd2, up2, h2)
    BY <2>1, <2>4, <2>5
  <2> QED BY <2>1, <2>3, <2>4, <2>6
<1>3. CASE M # {} /\ k \notin M
  <2> DEFINE path == Path(t, k)
             p == path[Len(path)]
  <2>1. /\ WayDown(t, M, up, path) /\ OnTheWay(t, M, bd, k, p)
        /\ p # k => \A s \in Side : Off(s, p, k) => p \notin Kid(t, s)
    BY <1>3, PathIs
  <2>2. p \in M /\ p # k /\ M \subseteq Key /\ Shape(t, M, bd, up)
    BY <1>3, <2>1 DEF OnTheWay, Balanced, Shape
  <2>3. PICK s \in Side : Off(s, p, k)
    <3>1. "left" \in Side /\ (Off("left", p, k) \/ Off("left", k, p))
      BY <2>2, OffFacts DEF Side
    <3>2. Off("left", k, p) => Off("right", p, k)
      BY DEF Off
    <3> QED BY <3>1, <3>2 DEF Side
  <2>4. Belongs(t, M, bd, up, s, p, k)
    BY <1>3, <2>1, <2>2, <2>3 DEF Belongs
  <2>5. t.root # NULL
    BY <1>3, <2>2 DEF Shape, KeyAssumption
  <2>6. Inserted(t, k) = GrowUp(Attach(t, p, k), path)
    BY <1>0, <1>3, <2>5 DEF Inserted, Last
  <2> DEFINE v == GrowUp(Attach(t, p, k), path)
  <2>7. v.count = t.count + 1 /\ \E bd2, up2, h2 : Balanced(v, M \union {k}, bd2, up2, h2)
    <3> HIDE DEF path
    <3> QED BY <2>1, <2>4, PlacedKeeps
  <2> HIDE DEF v
  <2>8. Inserted(t, k) = v
    BY <2>6 DEF v
  <2> QED BY <1>3, <2>7, <2>8
<1> QED BY <1>1, <1>2, <1>3

-----------------------------------------------------------------------------
(* What the tree holds, measured.                                          *)

\* What holds of a node when it holds of its children holds of every node.
LEMMA FromBelow ==
    ASSUME KeyAssumption, NEW t, NEW M, NEW bd, NEW up, NEW h, Balanced(t, M, bd, up, h), NEW P,
           \A n \in M : (\A s \in Side : n \in Kid(t, s) => Ptr(t, s)[n] \in P) => n \in P
    PROVE  M \subseteq P
<1> DEFINE W == {i \in Nat : \E n \in M : h[n] = i /\ n \notin P}
<1>0. M \subseteq Key /\ h \in [Key -> Nat]
  BY DEF Balanced, Shape
<1> SUFFICES ASSUME W # {} PROVE FALSE
  BY <1>0
<1>1. PICK i \in W : \A j \in W : i <= j
  BY Least
<1>2. PICK n \in M : h[n] = i /\ n \notin P
  BY <1>1
<1>3. PICK s \in Side : n \in Kid(t, s) /\ Ptr(t, s)[n] \notin P
  BY <1>2
<1>4. Ptr(t, s)[n] \in M /\ h[Ptr(t, s)[n]] < i /\ h[Ptr(t, s)[n]] \in Nat
  BY <1>0, <1>2, <1>3, ChildIsLower
<1>5. h[Ptr(t, s)[n]] \in W
  BY <1>3, <1>4
<1> QED BY <1>1, <1>4, <1>5

\* The nodes of the tree between the bounds of n.
Between(M, bd, n) == {m \in M : \A s \in Side : Within(s, bd[s][n], m)}

\* Between the bounds of a node lie the node and what lies below its children.
LEMMA BetweenIs ==
    ASSUME KeyAssumption, NEW t, NEW M, NEW bd, NEW up, Shape(t, M, bd, up), NEW n \in M
    PROVE  Between(M, bd, n) = {n} \union (IF n \in t.lkid THEN Between(M, bd, t.left[n]) ELSE {})
                                   \union (IF n \in t.rkid THEN Between(M, bd, t.right[n]) ELSE {})
<1> DEFINE On(s) == IF n \in Kid(t, s) THEN Between(M, bd, Ptr(t, s)[n]) ELSE {}
<1>0. /\ M \subseteq Key /\ NULL \notin Key /\ Node(t, M, bd, up, n)
      /\ \A s \in Side : bd[s][n] \in Key \union {NULL} /\ Within(s, bd[s][n], n)
  BY DEF Shape, KeyAssumption, Node
<1>1. ASSUME NEW s \in Side
      PROVE  On(s) = {m \in Between(M, bd, n) : Off(s, n, m)}
  <2> DEFINE o == Opp(s)
             c == Ptr(t, s)[n]
  <2>0. o \in Side /\ \A r \in Side : r = s \/ r = o
    BY SideFacts
  <2>1. OnSide(t, M, bd, up, s, n)
    BY <1>0 DEF Node
  <2>2. CASE n \in Kid(t, s)
    <3>1. c \in M /\ bd[s][c] = bd[s][n] /\ bd[o][c] = n
      BY <2>1, <2>2 DEF OnSide
    <3> HIDE DEF c
    <3>2. ASSUME NEW m \in M PROVE Within(o, n, m) <=> Off(s, n, m)
      BY <1>0, OffFacts DEF Within
    <3>3. ASSUME NEW m \in M, Off(s, n, m) PROVE Within(o, bd[o][n], m)
      <4>1. Off(o, m, n)
        BY <1>0, <3>3, OffFacts
      <4> DEFINE b == bd[o][n]
      <4>2. b = NULL \/ (b \in Key /\ Off(o, n, b))
        BY <1>0, <2>0 DEF Within
      <4> HIDE DEF b
      <4>3. b = NULL \/ Off(o, m, b)
        BY <1>0, <2>0, <4>1, <4>2, OffFacts
      <4> QED BY <4>3 DEF Within, b
    <3> HIDE DEF o
    <3>4. ASSUME NEW m \in M
          PROVE  m \in Between(M, bd, c) <=> Within(s, bd[s][n], m) /\ Off(s, n, m)
      BY <2>0, <3>1, <3>2 DEF Between
    <3>5. ASSUME NEW m \in M
          PROVE  m \in Between(M, bd, n) /\ Off(s, n, m) <=> Within(s, bd[s][n], m) /\ Off(s, n, m)
      BY <2>0, <3>3 DEF Between
    <3>6. On(s) = Between(M, bd, c)
      BY <2>2 DEF c
    <3> HIDE DEF On
    <3>7. Between(M, bd, c) \subseteq M /\ Between(M, bd, n) \subseteq M
      BY DEF Between
    <3> QED BY <3>4, <3>5, <3>6, <3>7
  <2>3. CASE n \notin Kid(t, s)
    <3>1. \A m \in M : Off(s, n, m) => ~Within(s, bd[s][n], m)
      BY <2>1, <2>3 DEF OnSide
    <3> QED BY <2>3, <3>1 DEF Between
  <2> QED BY <2>2, <2>3
<1>2. n \in Between(M, bd, n)
  BY <1>0 DEF Between
<1>3. \A m \in Between(M, bd, n) : m = n \/ Off("left", n, m) \/ Off("right", n, m)
  <2> SUFFICES ASSUME NEW m \in M PROVE m = n \/ m < n \/ n < m
    BY DEF Between, Off
  <2>1. m \in Int /\ n \in Int
    BY <1>0 DEF KeyAssumption
  <2> QED BY <2>1
<1>4. /\ On("left") = IF n \in t.lkid THEN Between(M, bd, t.left[n]) ELSE {}
      /\ On("right") = IF n \in t.rkid THEN Between(M, bd, t.right[n]) ELSE {}
  BY DEF Kid, Ptr
<1>5. "left" \in Side /\ "right" \in Side
  BY DEF Side
<1> HIDE DEF On
<1>6. Between(M, bd, n) = {n} \union On("left") \union On("right")
  BY <1>1, <1>2, <1>3, <1>5
<1> QED BY <1>4, <1>6

\* The children, side by side.
LEMMA KidsOnBothSides ==
    ASSUME KeyAssumption, NEW t, NEW M, NEW bd, NEW up, Shape(t, M, bd, up)
    PROVE  /\ t.lkid \subseteq M /\ \A k \in t.lkid : t.left[k] \in M
           /\ t.rkid \subseteq M /\ \A k \in t.rkid : t.right[k] \in M
<1>1. ASSUME NEW s \in Side PROVE Kid(t, s) \subseteq M
  BY DEF Shape
<1>2. ASSUME NEW s \in Side, NEW k \in Kid(t, s) PROVE Ptr(t, s)[k] \in M
  BY <1>1, KidFacts
<1>3. "left" \in Side /\ "right" \in Side
  BY DEF Side
<1>4. t.lkid = Kid(t, "left") /\ t.rkid = Kid(t, "right")
  BY DEF Kid
<1>5. t.left = Ptr(t, "left") /\ t.right = Ptr(t, "right")
  BY DEF Ptr
<1> QED BY <1>1, <1>2, <1>3, <1>4, <1>5

\* What hangs below a node is what lies between its bounds.
LEMMA BelowIs ==
    ASSUME KeyAssumption, NEW t, NEW M, NEW bd, NEW up, NEW h, Balanced(t, M, bd, up, h)
    PROVE  \A n \in M : Below(t, n) = Between(M, bd, n)
<1> DEFINE Down(f) == f = [k \in Key |-> {k} \union (IF k \in t.lkid THEN f[t.left[k]] ELSE {})
                                             \union (IF k \in t.rkid THEN f[t.right[k]] ELSE {})]
           g == [k \in Key |-> IF k \in M THEN Between(M, bd, k) ELSE {k}]
           d == CHOOSE f : Down(f)
<1>0. /\ Shape(t, M, bd, up) /\ M \subseteq Key /\ NULL \notin Key
      /\ t.lkid \subseteq M /\ t.rkid \subseteq M
      /\ \A k \in t.lkid : t.left[k] \in M
      /\ \A k \in t.rkid : t.right[k] \in M
  <2>1. Shape(t, M, bd, up) /\ M \subseteq Key /\ NULL \notin Key
    BY DEF Balanced, Shape, KeyAssumption
  <2> QED BY <2>1, KidsOnBothSides
<1>1. Down(g)
  <2>1. ASSUME NEW k \in Key
        PROVE  g[k] = {k} \union (IF k \in t.lkid THEN g[t.left[k]] ELSE {})
                          \union (IF k \in t.rkid THEN g[t.right[k]] ELSE {})
    <3>1. CASE k \in M
      <4>1. k \in t.lkid => g[t.left[k]] = Between(M, bd, t.left[k])
        BY <1>0
      <4>2. k \in t.rkid => g[t.right[k]] = Between(M, bd, t.right[k])
        BY <1>0
      <4>3. g[k] = Between(M, bd, k)
        BY <3>1
      <4> HIDE DEF g
      <4> QED BY <1>0, <3>1, <4>1, <4>2, <4>3, BetweenIs
    <3>2. CASE k \notin M
      <4>1. g[k] = {k} /\ k \notin t.lkid /\ k \notin t.rkid
        BY <1>0, <3>2
      <4> HIDE DEF g
      <4> QED BY <4>1
    <3> QED BY <3>1, <3>2
  <2>2. g = [k \in Key |-> g[k]]
    OBVIOUS
  <2> HIDE DEF g
  <2> QED BY <2>1, <2>2
<1>2. Down(d)
  BY <1>1
<1>3. \A n \in M : Below(t, n) = d[n]
  BY <1>0 DEF Below
<1> HIDE DEF d, g
<1> DEFINE P == {n \in M : d[n] = Between(M, bd, n)}
<1>4. M \subseteq P
  <2>1. ASSUME NEW n \in M, \A s \in Side : n \in Kid(t, s) => Ptr(t, s)[n] \in P
        PROVE  n \in P
    <3>1. n \in t.lkid => d[t.left[n]] = Between(M, bd, t.left[n])
      <4>1. n \in Kid(t, "left") => Ptr(t, "left")[n] \in P
        BY <2>1 DEF Side
      <4> QED BY <4>1 DEF Kid, Ptr
    <3>2. n \in t.rkid => d[t.right[n]] = Between(M, bd, t.right[n])
      <4>1. n \in Kid(t, "right") => Ptr(t, "right")[n] \in P
        BY <2>1 DEF Side
      <4> QED BY <4>1 DEF Kid, Ptr
    <3>3. d[n] = {n} \union (IF n \in t.lkid THEN d[t.left[n]] ELSE {})
                     \union (IF n \in t.rkid THEN d[t.right[n]] ELSE {})
      BY <1>0, <1>2
    <3>4. d[n] = Between(M, bd, n)
      BY <1>0, <3>1, <3>2, <3>3, BetweenIs
    <3> QED BY <3>4
  <2> HIDE DEF P
  <2> QED BY <2>1, FromBelow
<1> QED BY <1>3, <1>4

\* The keys that hang below the root are those of the shape.
LEMMA MembersIs ==
    ASSUME KeyAssumption, NEW t, NEW M, NEW bd, NEW up, NEW h, Balanced(t, M, bd, up, h)
    PROVE  Below(t, t.root) = M
<1>1. CASE M = {}
  BY <1>1 DEF Balanced, Shape, Below
<1>2. CASE M # {}
  <2>1. t.root \in M /\ \A s \in Side : bd[s][t.root] = NULL
    BY <1>2 DEF Balanced, Shape
  <2>2. Below(t, t.root) = Between(M, bd, t.root)
    BY <2>1, BelowIs
  <2> QED BY <2>1, <2>2 DEF Between, Within
<1> QED BY <1>1, <1>2

\* The measured height of a node is the one the balances tell.
LEMMA HeightIs ==
    ASSUME KeyAssumption, NEW t, NEW M, NEW bd, NEW up, NEW h, Balanced(t, M, bd, up, h)
    PROVE  \A n \in M : Height(t, n) = h[n]
<1> DEFINE High(f) ==
             f = [k \in Key |->
                   LET l == IF k \in t.lkid THEN f[t.left[k]] ELSE 0
                       r == IF k \in t.rkid THEN f[t.right[k]] ELSE 0
                   IN 1 + (IF l > r THEN l ELSE r)]
           g == [k \in Key |-> IF k \in M THEN h[k] ELSE 1]
           d == CHOOSE f : High(f)
<1>0. /\ Shape(t, M, bd, up) /\ M \subseteq Key /\ NULL \notin Key /\ h \in [Key -> Nat]
      /\ t.lkid \subseteq M /\ t.rkid \subseteq M
      /\ \A k \in t.lkid : t.left[k] \in M
      /\ \A k \in t.rkid : t.right[k] \in M
  <2>1. Shape(t, M, bd, up) /\ M \subseteq Key /\ NULL \notin Key /\ h \in [Key -> Nat]
    BY DEF Balanced, Shape, KeyAssumption
  <2> QED BY <2>1, KidsOnBothSides
<1>1. ASSUME NEW n \in M
      PROVE  LET l == IF n \in t.lkid THEN h[t.left[n]] ELSE 0
                 r == IF n \in t.rkid THEN h[t.right[n]] ELSE 0
             IN h[n] = 1 + (IF l > r THEN l ELSE r)
  <2> DEFINE l == Tall(t, h, "left", n)
             r == Tall(t, h, "right", n)
             w == Weight(t, "left", n)
             v == Weight(t, "right", n)
  <2>1. l \in Nat /\ r \in Nat
    BY <1>0, TallFacts DEF Side
  <2>2. /\ w = l - r /\ (w >= 0 => h[n] = 1 + l)
        /\ v = r - l /\ (v >= 0 => h[n] = 1 + r)
    BY DEF Balanced, Sound, Side, Opp
  <2>3. /\ l = IF n \in t.lkid THEN h[t.left[n]] ELSE 0
        /\ r = IF n \in t.rkid THEN h[t.right[n]] ELSE 0
    BY DEF Tall, Kid, Ptr
  <2> HIDE DEF l, r, w, v
  <2>4. h[n] = 1 + (IF l > r THEN l ELSE r)
    BY <2>1, <2>2
  <2> QED BY <2>3, <2>4
<1>2. High(g)
  <2>1. ASSUME NEW k \in Key
        PROVE  g[k] = LET l == IF k \in t.lkid THEN g[t.left[k]] ELSE 0
                          r == IF k \in t.rkid THEN g[t.right[k]] ELSE 0
                      IN 1 + (IF l > r THEN l ELSE r)
    <3>1. CASE k \in M
      <4>1. k \in t.lkid => g[t.left[k]] = h[t.left[k]]
        BY <1>0
      <4>2. k \in t.rkid => g[t.right[k]] = h[t.right[k]]
        BY <1>0
      <4>3. g[k] = h[k]
        BY <3>1
      <4> HIDE DEF g
      <4> QED BY <1>1, <3>1, <4>1, <4>2, <4>3
    <3>2. CASE k \notin M
      <4>1. g[k] = 1 /\ k \notin t.lkid /\ k \notin t.rkid
        BY <1>0, <3>2
      <4> HIDE DEF g
      <4> QED BY <4>1
    <3> QED BY <3>1, <3>2
  <2>2. g = [k \in Key |-> g[k]]
    OBVIOUS
  <2> HIDE DEF g
  <2> QED BY <2>1, <2>2
<1>3. High(d)
  BY <1>2
<1>4. \A n \in M : Height(t, n) = d[n]
  BY <1>0 DEF Height
<1> HIDE DEF d, g
<1> DEFINE P == {n \in M : d[n] = h[n]}
<1>5. M \subseteq P
  <2>1. ASSUME NEW n \in M, \A s \in Side : n \in Kid(t, s) => Ptr(t, s)[n] \in P
        PROVE  n \in P
    <3>1. n \in t.lkid => d[t.left[n]] = h[t.left[n]]
      <4>1. n \in Kid(t, "left") => Ptr(t, "left")[n] \in P
        BY <2>1 DEF Side
      <4> QED BY <4>1 DEF Kid, Ptr
    <3>2. n \in t.rkid => d[t.right[n]] = h[t.right[n]]
      <4>1. n \in Kid(t, "right") => Ptr(t, "right")[n] \in P
        BY <2>1 DEF Side
      <4> QED BY <4>1 DEF Kid, Ptr
    <3>3. d[n] = LET l == IF n \in t.lkid THEN d[t.left[n]] ELSE 0
                     r == IF n \in t.rkid THEN d[t.right[n]] ELSE 0
                 IN 1 + (IF l > r THEN l ELSE r)
      BY <1>0, <1>3
    <3>4. d[n] = h[n]
      BY <1>1, <3>1, <3>2, <3>3
    <3> QED BY <3>4
  <2> HIDE DEF P
  <2> QED BY <2>1, FromBelow
<1> QED BY <1>4, <1>5

\* The recorded balances are the true ones.
LEMMA BalanceIsExact ==
    ASSUME KeyAssumption, NEW M, NEW bd, NEW up, NEW h, Balanced(tree, M, bd, up, h)
    PROVE  BalanceExact /\ BalancedBelowRoot
<1>0. /\ Members = M /\ Shape(tree, M, bd, up) /\ \A n \in M : Sound(tree, h, n)
      /\ \A n \in M \ {tree.root} : tree.balance[n] \in -1..1
  BY MembersIs DEF Balanced, Members
<1>1. ASSUME NEW n \in M PROVE tree.balance[n] = RightHeight(n) - LeftHeight(n)
  <2>1. "left" \in Side /\ "right" \in Side
    BY DEF Side
  <2>2. n \in tree.lkid => tree.left[n] \in M
    <3>1. n \in Kid(tree, "left") => Ptr(tree, "left")[n] \in M
      BY <1>0, <2>1, KidFacts
    <3> QED BY <3>1 DEF Kid, Ptr
  <2>3. n \in tree.rkid => tree.right[n] \in M
    <3>1. n \in Kid(tree, "right") => Ptr(tree, "right")[n] \in M
      BY <1>0, <2>1, KidFacts
    <3> QED BY <3>1 DEF Kid, Ptr
  <2>4. LeftHeight(n) = Tall(tree, h, "left", n) /\ RightHeight(n) = Tall(tree, h, "right", n)
    BY <2>2, <2>3, HeightIs DEF LeftHeight, RightHeight, Tall, Kid, Ptr
  <2>5. Weight(tree, "right", n) = Tall(tree, h, "right", n) - Tall(tree, h, Opp("right"), n)
    BY <1>0, <2>1 DEF Sound
  <2> QED BY <2>4, <2>5 DEF Opp, Weight
<1> QED BY <1>0, <1>1 DEF BalanceExact, BalancedBelowRoot

-----------------------------------------------------------------------------
(* The neighbours of a node.                                               *)

Child(t, s) == IF s = "left" THEN LeftChild(t) ELSE RightChild(t)

\* The child on a side, where there is one.
LEMMA ChildIs ==
    ASSUME KeyAssumption, NEW t \in TreeType, NEW s \in Side
    PROVE  /\ Child(t, s) \in [Key -> Key \union {NULL}]
           /\ \A n \in Key : Child(t, s)[n] = IF n \in Kid(t, s) THEN Ptr(t, s)[n] ELSE NULL
<1>1. t.left \in [Key -> Key \union {NULL}] /\ t.right \in [Key -> Key \union {NULL}]
  BY DEF TreeType
<1>2. /\ LeftChild(t) \in [Key -> Key \union {NULL}] /\ RightChild(t) \in [Key -> Key \union {NULL}]
      /\ \A n \in Key : /\ LeftChild(t)[n] = IF n \in t.lkid THEN t.left[n] ELSE NULL
                        /\ RightChild(t)[n] = IF n \in t.rkid THEN t.right[n] ELSE NULL
  BY <1>1 DEF LeftChild, RightChild
<1> QED BY <1>2 DEF Child, Side, Kid, Ptr

\* The way down one side ends at a node that has no child there and the bound
\* of the node it began with.
LEMMA SpineEnds ==
    ASSUME KeyAssumption, NEW t, NEW M, NEW bd, NEW up, NEW h, Balanced(t, M, bd, up, h),
           NEW s \in Side, NEW a \in M
    PROVE  LET l == Last(Chain(Child(t, s), a))
           IN l \in M /\ l \notin Kid(t, s) /\ bd[s][l] = bd[s][a]
<1> DEFINE next == Child(t, s)
           path == Chain(next, a)
           n == Len(path)
<1>0. /\ Shape(t, M, bd, up) /\ t \in TreeType /\ M \subseteq Key /\ NULL \notin Key
      /\ Kid(t, s) \subseteq M /\ a \in Key
      /\ \A m \in M : Node(t, M, bd, up, m)
  BY DEF Balanced, Shape, KeyAssumption
<1>1. /\ next \in [Key -> Key \union {NULL}]
      /\ \A m \in Key : next[m] = IF m \in Kid(t, s) THEN Ptr(t, s)[m] ELSE NULL
  BY <1>0, ChildIs
<1> HIDE DEF next
<1>2. Falls(next, h)
  <2>1. \A m \in Key : next[m] # NULL => \E r \in Side : m \in Kid(t, r) /\ next[m] = Ptr(t, r)[m]
    BY <1>1
  <2> QED BY <1>1, <2>1, DownFalls
<1>3. IsChain(next, a, path)
  BY <1>0, <1>2, ChainIs
<1> HIDE DEF path
<1>4. /\ path \in Seq(Key) /\ n \in Nat \ {0} /\ path[1] = a
      /\ \A i \in 1..(n - 1) : next[path[i]] = path[i + 1]
      /\ next[path[n]] = NULL
  BY <1>3 DEF IsChain
<1> DEFINE Right(x) == x \in M /\ bd[s][x] = bd[s][a]
           W == {i \in 1..n : ~Right(path[i])}
<1>5. ASSUME NEW i \in 1..(n - 1), Right(path[i]) PROVE Right(path[i + 1])
  <2>1. path[i + 1] \in Key /\ path[i] \in Key /\ next[path[i]] = path[i + 1]
    <3>1. i \in 1..n /\ i + 1 \in 1..n
      BY <1>4
    <3> QED BY <1>4, <3>1
  <2>2. path[i] \in Kid(t, s) /\ path[i + 1] = Ptr(t, s)[path[i]]
    BY <1>0, <1>1, <2>1
  <2>3. path[i + 1] \in M /\ bd[s][path[i + 1]] = bd[s][path[i]]
    BY <1>0, <1>5, <2>2 DEF Node, OnSide
  <2> QED BY <1>5, <2>3
<1>6. Right(path[1])
  BY <1>4
<1> HIDE DEF n, Right
<1>7. W = {}
  <2> SUFFICES ASSUME W # {} PROVE FALSE
    OBVIOUS
  <2>1. PICK i \in W : \A j \in W : i <= j
    <3>1. W \in SUBSET Nat
      BY <1>4
    <3> QED BY <3>1, Least
  <2>2. i # 1 /\ i - 1 \in 1..(n - 1) /\ i - 1 \in 1..n /\ i - 1 \notin W /\ (i - 1) + 1 = i
    BY <1>4, <1>6, <2>1
  <2>3. Right(path[(i - 1) + 1])
    BY <1>5, <2>2
  <2> QED BY <2>1, <2>2, <2>3
<1>8. Right(path[n])
  <2>1. n \in 1..n
    BY <1>4
  <2> QED BY <1>7, <2>1
<1>9. path[n] \notin Kid(t, s)
  <2>1. path[n] \in Kid(t, s) => Ptr(t, s)[path[n]] \in M
    BY <1>0, KidFacts
  <2> QED BY <1>0, <1>1, <1>4, <2>1
<1> QED BY <1>8, <1>9 DEF Right, n, path, next, Last

\* n is next to a on side r among M, NULL if a is the last on that side.
Nearest(M, r, a, n) ==
    IF n = NULL THEN \A m \in M : ~Off(r, a, m)
    ELSE n \in M /\ Off(r, a, n) /\ \A m \in M : Off(r, a, m) => ~Off(r, m, n)

\* One step to a child and the way down the other side from there, or the thread
\* where there is no child: nextnode and previousnode.
LEMMA NeighbourIs ==
    ASSUME KeyAssumption, NEW t, NEW M, NEW bd, NEW up, NEW h, Balanced(t, M, bd, up, h),
           NEW r \in Side, NEW a \in M
    PROVE  Nearest(M, r, a, IF a \in Kid(t, r) THEN Last(Chain(Child(t, Opp(r)), Ptr(t, r)[a]))
                            ELSE Ptr(t, r)[a])
<1> DEFINE o == Opp(r)
           c == Ptr(t, r)[a]
           l == Last(Chain(Child(t, o), c))
<1>0. /\ M \subseteq Key /\ NULL \notin Key /\ Shape(t, M, bd, up)
      /\ \A n \in M : Node(t, M, bd, up, n)
      /\ o \in Side /\ Opp(o) = r
  BY SideFacts DEF Balanced, Shape, KeyAssumption
<1>1. CASE a \in Kid(t, r)
  <2>1. c \in M /\ bd[o][c] = a
    BY <1>0, <1>1 DEF Node, OnSide
  <2>2. l \in M /\ l \notin Kid(t, o) /\ bd[o][l] = a
    BY <1>0, <2>1, SpineEnds
  <2> HIDE DEF l
  <2>3. Within(o, a, l) /\ \A m \in M : Off(o, l, m) => ~Within(o, a, m)
    BY <1>0, <2>2 DEF Node, OnSide
  <2>4. Off(o, l, a) /\ \A m \in M : Off(o, l, m) => ~Off(o, m, a)
    BY <1>0, <2>3 DEF Within
  <2> HIDE DEF o, c
  <2>5. Off(r, a, l) /\ \A m \in M : Off(r, m, l) => ~Off(r, a, m)
    <3>1. \A x, y \in Key : Off(o, x, y) <=> Off(r, y, x)
      BY OffFacts DEF o
    <3>2. a \in Key /\ l \in Key /\ \A m \in M : m \in Key
      BY <1>0, <2>2
    <3> QED BY <2>4, <3>1, <3>2
  <2>6. Nearest(M, r, a, l)
    BY <1>0, <2>2, <2>5 DEF Nearest
  <2> QED BY <1>1, <2>6 DEF l, o, c
<1>2. CASE a \notin Kid(t, r)
  <2>1. /\ c = bd[r][a] /\ c \in M \union {NULL} /\ Within(r, c, a)
        /\ \A m \in M : Off(r, a, m) => ~Within(r, c, m)
    BY <1>0, <1>2 DEF Node, OnSide
  <2> HIDE DEF c
  <2>2. Nearest(M, r, a, c)
    BY <1>0, <2>1 DEF Nearest, Within
  <2> QED BY <1>2, <2>2 DEF c
<1> QED BY <1>1, <1>2

\* Nearest to the right is the least of those greater, and to the left the
\* greatest of those less.
LEMMA NearestIs ==
    ASSUME KeyAssumption, NEW M \in SUBSET Key, NEW a \in M, NEW n
    PROVE  /\ Nearest(M, "right", a, n) => n = Set!Least({m \in M : m > a})
           /\ Nearest(M, "left", a, n) => n = Greatest({m \in M : m < a})
<1>0. M \subseteq Int /\ a \in Int /\ NULL \notin M
  BY DEF KeyAssumption
<1>1. ASSUME Nearest(M, "right", a, n) PROVE n = Set!Least({m \in M : m > a})
  <2> DEFINE S == {m \in M : m > a}
  <2>1. CASE n = NULL
    <3>1. S = {}
      BY <1>0, <1>1, <2>1 DEF Nearest, Off
    <3> QED BY <2>1, <3>1 DEF Set!Least
  <2>2. CASE n # NULL
    <3>1. n \in S /\ \A m \in S : n <= m
      <4>1. n \in M /\ a < n /\ \A m \in M : a < m => ~(m < n)
        BY <1>1, <2>2 DEF Nearest, Off
      <4>2. \A m \in M : m > a => n <= m
        BY <1>0, <4>1
      <4> QED BY <1>0, <4>1, <4>2
    <3>2. \A x \in S : (\A m \in S : x <= m) => x = n
      BY <1>0, <3>1
    <3> HIDE DEF S
    <3>3. n = CHOOSE x \in S : \A m \in S : x <= m
      BY <3>1, <3>2
    <3>4. n = Set!Least(S)
      BY <3>1, <3>3 DEF Set!Least
    <3> QED BY <3>4 DEF S
  <2> QED BY <2>1, <2>2
<1>2. ASSUME Nearest(M, "left", a, n) PROVE n = Greatest({m \in M : m < a})
  <2> DEFINE S == {m \in M : m < a}
  <2>1. CASE n = NULL
    <3>1. S = {}
      BY <1>0, <1>2, <2>1 DEF Nearest, Off
    <3> QED BY <2>1, <3>1 DEF Greatest
  <2>2. CASE n # NULL
    <3>1. n \in S /\ \A m \in S : m <= n
      <4>1. n \in M /\ n < a /\ \A m \in M : m < a => ~(n < m)
        BY <1>2, <2>2 DEF Nearest, Off
      <4>2. \A m \in M : m < a => m <= n
        BY <1>0, <4>1
      <4> QED BY <1>0, <4>1, <4>2
    <3>2. \A x \in S : (\A m \in S : m <= x) => x = n
      BY <1>0, <3>1
    <3> HIDE DEF S
    <3>3. n = CHOOSE x \in S : \A m \in S : m <= x
      BY <3>1, <3>2
    <3>4. n = Greatest(S)
      BY <3>1, <3>3 DEF Greatest
    <3> QED BY <3>4 DEF S
  <2> QED BY <2>1, <2>2
<1> QED BY <1>1, <1>2

\* The nodes before and after a node.
LEMMA NextAndPrevious ==
    ASSUME KeyAssumption, NEW t, NEW M, NEW bd, NEW up, NEW h, Balanced(t, M, bd, up, h),
           NEW a \in M
    PROVE  /\ NextNode(t, a) \in M \union {NULL}
           /\ NextNode(t, a) = Set!Least({m \in M : m > a})
           /\ PreviousNode(t, a) = Greatest({m \in M : m < a})
<1>0. M \in SUBSET Key
  BY DEF Balanced, Shape
<1>1. Nearest(M, "right", a, NextNode(t, a))
  <2>1. Nearest(M, "right", a,
                IF a \in Kid(t, "right") THEN Last(Chain(Child(t, Opp("right")), Ptr(t, "right")[a]))
                ELSE Ptr(t, "right")[a])
    BY NeighbourIs DEF Side
  <2> QED BY <2>1 DEF NextNode, LeftSpine, Child, Kid, Ptr, Opp
<1>2. Nearest(M, "left", a, PreviousNode(t, a))
  <2>1. Nearest(M, "left", a,
                IF a \in Kid(t, "left") THEN Last(Chain(Child(t, Opp("left")), Ptr(t, "left")[a]))
                ELSE Ptr(t, "left")[a])
    BY NeighbourIs DEF Side
  <2> QED BY <2>1 DEF PreviousNode, RightSpine, Child, Kid, Ptr, Opp
<1>3. NextNode(t, a) \in M \union {NULL}
  BY <1>1 DEF Nearest
<1> QED BY <1>0, <1>1, <1>2, <1>3, NearestIs

\* The first node.
LEMMA FirstIs ==
    ASSUME KeyAssumption, NEW t, NEW M, NEW bd, NEW up, NEW h, Balanced(t, M, bd, up, h)
    PROVE  FirstNode(t) \in M \union {NULL} /\ FirstNode(t) = Set!Least(M)
<1>0. M \subseteq Key /\ NULL \notin Key /\ Key \subseteq Int /\ Shape(t, M, bd, up)
  BY DEF Balanced, Shape, KeyAssumption
<1>1. CASE M = {}
  BY <1>0, <1>1 DEF FirstNode, Shape, Set!Least
<1>2. CASE M # {}
  <2> DEFINE l == Last(Chain(Child(t, "left"), t.root))
  <2>1. t.root \in M /\ bd["left"][t.root] = NULL /\ t.root # NULL /\ "left" \in Side
    BY <1>0, <1>2 DEF Shape, Side
  <2>2. l \in M /\ l \notin Kid(t, "left") /\ bd["left"][l] = NULL
    BY <2>1, SpineEnds
  <2>3. FirstNode(t) = l
    BY <2>1 DEF FirstNode, LeftSpine, Child
  <2> HIDE DEF l
  <2>4. \A m \in M : ~(m < l)
    <3>1. Node(t, M, bd, up, l)
      BY <1>0, <2>2 DEF Shape
    <3> QED BY <2>1, <2>2, <3>1 DEF Node, OnSide, Within, Off
  <2>5. \A m \in M : l <= m
    BY <1>0, <2>2, <2>4
  <2>6. \A x \in M : (\A m \in M : x <= m) => x = l
    BY <1>0, <2>2, <2>5
  <2>7. l = CHOOSE x \in M : \A m \in M : x <= m
    BY <2>2, <2>5, <2>6
  <2> QED BY <1>2, <2>2, <2>3, <2>7 DEF Set!Least
<1> QED BY <1>1, <1>2

-----------------------------------------------------------------------------
(* The calls.                                                              *)

\* What insertions, look-ups and walks keep true of the tree.
Grown ==
    \E M, bd, up, h : /\ Balanced(tree, M, bd, up, h)
                      /\ IsFiniteSet(M) /\ tree.count = Cardinality(M)
                      /\ cursor \in M \union {NULL}

\* The tree of tree_create.
LEMMA EmptyIsGrown == ASSUME KeyAssumption, Init PROVE Grown
<1> DEFINE bd == [r \in Side |-> [n \in Key |-> NULL]]
           up == [n \in Key |-> NULL]
           h == [n \in Key |-> 1]
<1>1. /\ tree \in TreeType /\ tree.root = NULL /\ tree.count = 0
      /\ \A n \in Key : tree.left[n] = NULL /\ tree.right[n] = NULL /\ tree.balance[n] = 0
      /\ tree.lkid = {} /\ tree.rkid = {}
  BY DEF Init, Empty, TreeType
<1>2. \A s \in Side : Kid(tree, s) = {}
  BY <1>1 DEF Kid
<1>3. /\ bd \in [Side -> [Key -> Key \union {NULL}]] /\ up \in [Key -> Key \union {NULL}]
      /\ h \in [Key -> Nat]
  OBVIOUS
<1> HIDE DEF bd, up, h
<1>4. Balanced(tree, {}, bd, up, h)
  BY <1>1, <1>2, <1>3 DEF Balanced, Shape
<1>5. IsFiniteSet({}) /\ Cardinality({}) = 0
  BY FS_EmptySet
<1> QED BY <1>1, <1>4, <1>5 DEF Grown, Init

\* Every call, from a tree that is in balance, is the call on the set.
LEMMA CallsAreOfTheSet ==
    ASSUME KeyAssumption, Grown, [GrowNext]_vars
    PROVE  Grown' /\ [Set!SetNext]_(Set!svars)
<1> PICK M, bd, up, h : /\ Balanced(tree, M, bd, up, h)
                        /\ IsFiniteSet(M) /\ tree.count = Cardinality(M)
                        /\ cursor \in M \union {NULL}
  BY DEF Grown
<1>0. Members = M /\ M \subseteq Key
  BY MembersIs DEF Members, Balanced, Shape
<1>1. ASSUME UNCHANGED tree, cursor' \in M \union {NULL}
      PROVE  Grown' /\ Members' = M
  <2>1. Members' = M
    BY <1>0, <1>1 DEF Members
  <2>2. Balanced(tree', M, bd, up, h) /\ tree'.count = Cardinality(M)
    BY <1>1
  <2> QED BY <1>1, <2>1, <2>2 DEF Grown
<1>2. ASSUME NEW k \in Key, TreeInsert(k) PROVE Grown' /\ Set!SInsert(k)
  <2>1. /\ tree' = Inserted(tree, k) /\ UNCHANGED cursor
        /\ answer' = IF k \in M THEN 0 ELSE 1
    BY <1>2, HasIs DEF TreeInsert
  <2>2. tree'.count = IF k \in M THEN tree.count ELSE tree.count + 1
    BY <2>1, InsertedKeeps
  <2>3. PICK bd2, up2, h2 : Balanced(tree', M \union {k}, bd2, up2, h2)
    BY <2>1, InsertedKeeps
  <2>4. Members' = M \union {k}
    BY <2>3, MembersIs DEF Members
  <2>5. IsFiniteSet(M \union {k}) /\ tree'.count = Cardinality(M \union {k})
    BY <2>2, FS_AddElement
  <2>6. Grown'
    BY <2>1, <2>3, <2>5 DEF Grown
  <2> QED BY <1>0, <2>1, <2>4, <2>6 DEF Set!SInsert
<1>3. ASSUME NEW k \in Key, TreeLookup(k) PROVE Grown' /\ Set!SLookup(k)
  <2>1. UNCHANGED <<tree, cursor>> /\ answer' = IF k \in M THEN k ELSE NULL
    BY <1>3, HasIs DEF TreeLookup, Found
  <2> QED BY <1>0, <1>1, <2>1 DEF Set!SLookup, Set!Found
<1>4. CASE LookupFirstCursor
  <2>1. /\ cursor' = Set!Least(M) /\ cursor' \in M \union {NULL}
        /\ answer' = cursor' /\ UNCHANGED tree
    BY <1>4, FirstIs DEF LookupFirstCursor, MoveTo
  <2>2. Grown' /\ Members' = M
    BY <1>1, <2>1
  <2>3. Set!SFirst
    BY <1>0, <2>1, <2>2 DEF Set!SFirst, Set!SMove
  <2> QED BY <2>2, <2>3 DEF Set!SetNext
<1>5. CASE CursorNext
  <2>1. cursor \in M /\ cursor # NULL
    BY <1>5 DEF CursorNext
  <2>2. /\ cursor' = Set!Least({k \in M : k > cursor}) /\ cursor' \in M \union {NULL}
        /\ answer' = cursor' /\ UNCHANGED tree
    BY <1>5, <2>1, NextAndPrevious DEF CursorNext, MoveTo
  <2>3. Grown' /\ Members' = M
    BY <1>1, <2>2
  <2>4. Set!SNext
    BY <1>0, <2>1, <2>2, <2>3 DEF Set!SNext, Set!SMove
  <2> QED BY <2>3, <2>4 DEF Set!SetNext
<1>6. CASE UNCHANGED vars
  <2>1. UNCHANGED <<tree, cursor, answer>>
    BY <1>6 DEF vars
  <2> QED BY <1>0, <1>1, <2>1 DEF Set!svars
<1> QED BY <1>2, <1>3, <1>4, <1>5, <1>6 DEF GrowNext, Set!SetNext

\* What holds of the tree by its shape holds as it is measured.
LEMMA GrownIsRight == ASSUME KeyAssumption, Grown PROVE TreeInv
<1> PICK M, bd, up, h : /\ Balanced(tree, M, bd, up, h)
                        /\ IsFiniteSet(M) /\ tree.count = Cardinality(M)
                        /\ cursor \in M \union {NULL}
  BY DEF Grown
<1>0. Members = M /\ tree.root \in Key \union {NULL}
  BY MembersIs, TypeFacts DEF Members, Balanced, Shape
<1>1. TypeOK
  BY <1>0 DEF TypeOK
<1>2. ThreadsInOrder
  BY <1>0, NextAndPrevious DEF ThreadsInOrder, After, Before
<1>3. BalanceExact /\ BalancedBelowRoot
  BY BalanceIsExact
<1> QED BY <1>1, <1>2, <1>3 DEF TreeInv

\* Whatever is put in and in whatever order, the threads of placenode, rotateleft
\* and rotateright lead to the neighbours in the order of the keys, the recorded
\* balances are the true ones, no node but the root is out of balance, and the
\* count is the number of nodes.
THEOREM TreeGrowsRight == GrowSpec => []TreeInv
<1>1. Init => Grown
  BY KeyAssumption, EmptyIsGrown
<1>2. Grown /\ [GrowNext]_vars => Grown'
  BY KeyAssumption, CallsAreOfTheSet
<1>3. Grown => TreeInv
  BY KeyAssumption, GrownIsRight
<1> QED BY <1>1, <1>2, <1>3, PTL DEF GrowSpec

\* To the callers of tree_insert, tree_lookup and the cursor the tree is a set of
\* keys, walked in ascending order, also where keys are put in under the cursor.
THEOREM TreeGrowsAsSet == GrowSpec => ImplementsSet
<1>1. Init => Grown /\ Set!SInit
  <2>1. ASSUME Init PROVE Members = {}
    <3>1. tree.root = NULL
      BY <2>1 DEF Init, Empty
    <3> QED BY <3>1 DEF Members, Below
  <2> QED BY <2>1, KeyAssumption, EmptyIsGrown DEF Init, Set!SInit
<1>2. Grown /\ [GrowNext]_vars => Grown' /\ [Set!SetNext]_(Set!svars)
  BY KeyAssumption, CallsAreOfTheSet
<1> QED BY <1>1, <1>2, PTL DEF GrowSpec, ImplementsSet, Set!SetSpec
=============================================================================
