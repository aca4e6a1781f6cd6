-------------------------- MODULE AnchorSearchProofs --------------------------
(***************************************************************************)
(* The search for a pinned root misses no path, and where twins agree on   *)
(* the CA mark makes none up: for every bag of certificates, every pinned  *)
(* bundle and every depth.                                                 *)
(*                                                                         *)
(* The search looks for paths in which a CA certificate may be replaced by *)
(* any twin of it (KeyPath).  Those it finds exactly; every documented     *)
(* path is one of them, and the converse holds where twins agree.          *)
(*                                                                         *)
(* An induction over natural numbers is written as the least number that   *)
(* fails.  The search finds no path that is not there: each call prolongs  *)
(* the path of the deeper one.  It misses none: a shortest path visits no  *)
(* edge twice, since it could be cut short between the two, and a path     *)
(* without repeated edges is followed to its end.                          *)
(***************************************************************************)
EXTENDS AnchorSearch, TLAPS, WellFoundedInduction

USE AnchorAssumption

\* A set of natural numbers that is not empty has a least one.
LEMMA LeastNumber ==
    ASSUME NEW T \in SUBSET Nat, T # {}
    PROVE  \E x \in T : \A y \in T : x <= y
<1>1. \A a, b \in Nat : a < b => <<a, b>> \in OpToRel(<, Nat)
  BY Zenon DEF OpToRel
<1>2. PICK x \in T : \A y \in T : ~(<<y, x>> \in OpToRel(<, Nat))
  BY NatLessThanWellFounded, WFMin, Zenon
<1>3. \A y \in T : ~(y < x)
  BY <1>1, <1>2, Zenon
<1> QED
  BY <1>3

----------------------------------------------------------------------------
(* The recursion *)

Answer == [Node -> [SUBSET Edges -> BOOLEAN]]
Nobody == [c \in Node |-> [visited \in SUBSET Edges |-> FALSE]]

\* The answers of the calls, from none nested to n.
Answers(g, n) ==
    /\ g \in [0..n -> Answer]
    /\ g[0] = Nobody
    /\ \A i \in 1..n : g[i] = Call(g[i - 1])

\* A call answers.
LEMMA CallType == ASSUME NEW f PROVE Call(f) \in Answer
<1> DEFINE B(c, v) == \E t \in Twins(c) :
            /\ temporally_valid(t)
            /\ Edge(t) \notin v
            /\ Anchored(t) \/ \E n \in Issuers(t) : f[n][v \cup {Edge(t)}]
<1>1. \A c, v : B(c, v) \in BOOLEAN
  OBVIOUS
<1>2. Call(f) = [c \in Node |-> [v \in SUBSET Edges |-> B(c, v)]]
  BY DEF Call
<1> HIDE DEF B
<1> QED
  BY <1>1, <1>2 DEF Answer

\* For every number of calls there are such answers.
LEMMA AnswersExist == ASSUME NEW n \in Nat PROVE \E g : Answers(g, n)
<1> DEFINE T == {x \in Nat : ~ \E g : Answers(g, x)}
<1>1. SUFFICES ASSUME T # {} PROVE FALSE
  OBVIOUS
<1>2. PICK x \in T : \A y \in T : x <= y
  BY <1>1, LeastNumber
<1>3. x # 0
  <2> DEFINE g == [i \in 0..0 |-> Nobody]
  <2>1. Nobody \in Answer
    BY DEF Nobody, Answer
  <2>2. g \in [0..0 -> Answer] /\ g[0] = Nobody /\ 1..0 = {}
    BY <2>1
  <2> HIDE DEF g
  <2>3. Answers(g, 0)
    BY <2>2 DEF Answers
  <2> QED
    BY <2>3
<1>4. x - 1 \in Nat /\ x - 1 \notin T
  BY <1>2, <1>3
<1>5. PICK g : Answers(g, x - 1)
  BY <1>4
<1> DEFINE h == [i \in 0..x |-> IF i = x THEN Call(g[x - 1]) ELSE g[i]]
<1>6. Answers(h, x)
  <2>1. h \in [0..x -> Answer]
    <3>1. Call(g[x - 1]) \in Answer
      BY CallType
    <3>2. ASSUME NEW i \in 0..x, i # x PROVE g[i] \in Answer
      BY <1>4, <1>5, <3>2 DEF Answers
    <3> QED
      BY <3>1, <3>2
  <2>2. h[0] = Nobody
    BY <1>3, <1>4, <1>5 DEF Answers
  <2>3. ASSUME NEW i \in 1..x PROVE h[i] = Call(h[i - 1])
    <3>1. CASE i = x
      BY <1>3, <1>4, <3>1
    <3>2. CASE i # x
      BY <1>3, <1>4, <1>5, <3>2 DEF Answers
    <3> QED
      BY <3>1, <3>2
  <2> HIDE DEF h
  <2> QED
    BY <2>1, <2>2, <2>3 DEF Answers
<1> QED
  BY <1>6

\* They are the only ones.
LEMMA AnswersUnique ==
    ASSUME NEW n \in Nat, NEW m \in Nat, NEW g, NEW h, Answers(g, n), Answers(h, m),
           NEW i \in Nat, i <= n, i <= m
    PROVE  g[i] = h[i]
<1> DEFINE T == {x \in Nat : x <= n /\ x <= m /\ g[x] # h[x]}
<1>1. SUFFICES ASSUME T # {} PROVE FALSE
  OBVIOUS
<1>2. PICK x \in T : \A y \in T : x <= y
  BY <1>1, LeastNumber
<1>3. x # 0
  BY DEF Answers
<1>4. x - 1 \in Nat /\ x - 1 \notin T
  BY <1>2, <1>3
<1>5. g[x - 1] = h[x - 1]
  BY <1>2, <1>4
<1>6. x \in 1..n /\ x \in 1..m
  BY <1>3
<1> QED
  BY <1>2, <1>5, <1>6 DEF Answers

\* The search is what its recursive definition says.
LEMMA SearchUnfolds ==
    /\ reaches_anchor[0] = Nobody
    /\ \A k \in Nat : reaches_anchor[k + 1] = Call(reaches_anchor[k])
<1> DEFINE A(n) == CHOOSE g : Answers(g, n)
           f == [n \in Nat |-> A(n)[n]]
<1>1. ASSUME NEW n \in Nat PROVE Answers(A(n), n)
  BY AnswersExist
<1> HIDE DEF A
<1>2. f[0] = Nobody
  BY <1>1 DEF Answers
<1>3. ASSUME NEW n \in Nat, n # 0 PROVE f[n] = Call(f[n - 1])
  <2>1. n - 1 \in Nat /\ n \in 1..n
    BY <1>3
  <2>2. A(n)[n] = Call(A(n)[n - 1])
    BY <1>1, <2>1 DEF Answers
  <2>3. A(n)[n - 1] = A(n - 1)[n - 1]
    BY <1>1, <2>1, AnswersUnique
  <2> QED
    BY <2>1, <2>2, <2>3
<1>4. f = [n \in Nat |-> IF n = 0 THEN Nobody ELSE Call(f[n - 1])]
  <2> HIDE DEF f
  <2>1. f = [n \in Nat |-> f[n]]
    BY DEF f
  <2> QED
    BY <1>2, <1>3, <2>1
<1>5. \E g : g = [n \in Nat |-> IF n = 0 THEN Nobody ELSE Call(g[n - 1])]
  <2> HIDE DEF f
  <2> QED BY <1>4
<1>6. reaches_anchor = CHOOSE g : g = [n \in Nat |-> IF n = 0 THEN Nobody ELSE Call(g[n - 1])]
  BY DEF reaches_anchor, Nobody
<1>7. reaches_anchor = [n \in Nat |-> IF n = 0 THEN Nobody ELSE Call(reaches_anchor[n - 1])]
  BY <1>5, <1>6
<1> HIDE DEF f
<1> QED
  BY <1>7

\* What one call looks for, when `deeper` answers the calls it makes.
Found(deeper, c, v) ==
    \E t \in Twins(c) :
        /\ temporally_valid(t)
        /\ Edge(t) \notin v
        /\ Anchored(t) \/ \E n \in Issuers(t) : deeper[n][v \cup {Edge(t)}]

\* One call, unfolded.
LEMMA OneCall ==
    ASSUME NEW k \in Nat, NEW c \in Node, NEW v \in SUBSET Edges
    PROVE  /\ ~reaches_anchor[0][c][v]
           /\ reaches_anchor[k + 1][c][v] => Found(reaches_anchor[k], c, v)
           /\ Found(reaches_anchor[k], c, v) => reaches_anchor[k + 1][c][v]
<1>1. ~reaches_anchor[0][c][v]
  BY SearchUnfolds DEF Nobody
<1> DEFINE f == reaches_anchor[k]
<1>2. reaches_anchor[k + 1] = Call(f)
  BY SearchUnfolds
<1> HIDE DEF f
<1>3. Call(f) = [d \in Node |-> [w \in SUBSET Edges |-> Found(f, d, w)]]
  BY DEF Call, Found
<1>4. Call(f)[c][v] = Found(f, c, v)
  BY <1>3
<1>5. reaches_anchor[k + 1][c][v] = Found(reaches_anchor[k], c, v)
  BY <1>2, <1>4, Zenon DEF f
<1> QED
  BY <1>1, <1>5, Zenon

----------------------------------------------------------------------------
(* Paths *)

\* A path as the search knows it: each certificate is followed by a twin of a CA
\* certificate that signed it.
KeyPath(p, m, c) ==
    /\ p[0] \in Twins(c)
    /\ \A i \in 0..m : InForce(p[i])
    /\ \A i \in 1..m : \E n \in Bag :
          /\ n.ca /\ n.subject = p[i - 1].issuer /\ n.spki = p[i - 1].by
          /\ p[i] \in Twins(n)
    /\ \E a \in known : a = p[m] \/ (a.subject = p[m].issuer /\ a.spki = p[m].by)

\* A link of a path: t is followed by u.
Link(t, u) == \E n \in Issuers(t) : u \in Twins(n)

\* Paths by their links.
LEMMA PathLinks ==
    ASSUME NEW p, NEW m \in Nat, NEW c
    PROVE  KeyPath(p, m, c) <=> /\ p[0] \in Twins(c)
                                /\ \A i \in 0..m : InForce(p[i])
                                /\ \A i \in 1..m : Link(p[i - 1], p[i])
                                /\ Anchored(p[m])
BY DEF KeyPath, Link, Issuers, Anchored

\* A certificate is in force when its window says so, which is then no empty one.
LEMMA ForceIsValid == ASSUME NEW t \in Node PROVE InForce(t) <=> temporally_valid(t)
<1>1. t.window[1] \in Nat /\ t.window[2] \in Nat
  BY DEF Node
<1> QED
  BY <1>1 DEF InForce, temporally_valid

\* Twins and issuers are among the certificates that were sent.
LEMMA SentOnly ==
    ASSUME Bag \subseteq Node, NEW c \in Bag, NEW t \in Twins(c)
    PROVE  t \in Bag /\ t \in Node /\ Edge(t) \in Edges /\ Issuers(t) \subseteq Bag
<1>1. t \in Bag /\ t \in Node
  BY DEF Twins
<1> QED
  BY <1>1 DEF Edge, Edges, Node, Issuers

\* The paths of less than k hops from c.
Paths(k, c) == \E m \in Nat : m < k /\ \E p \in [0..m -> Bag] : KeyPath(p, m, c)

\* The search finds only paths that are there.
LEMMA SearchSound ==
    ASSUME Bag \subseteq Node, NEW k \in Nat, NEW c \in Bag, NEW v \in SUBSET Edges,
           reaches_anchor[k][c][v]
    PROVE  Paths(k, c)
<1> DEFINE T == {x \in Nat : \E d \in Bag, w \in SUBSET Edges : reaches_anchor[x][d][w] /\ ~Paths(x, d)}
<1>1. SUFFICES ASSUME T # {} PROVE FALSE
  OBVIOUS
<1>2. PICK x \in T : \A y \in T : x <= y
  BY <1>1, LeastNumber
<1>3. PICK d \in Bag, w \in SUBSET Edges : reaches_anchor[x][d][w] /\ ~Paths(x, d)
  BY <1>2
<1>4. x # 0
  BY <1>3, OneCall
<1>5. PICK y \in Nat : x = y + 1 /\ y \notin T
  <2>1. x - 1 \in Nat /\ x = (x - 1) + 1 /\ x - 1 \notin T
    BY <1>2, <1>4
  <2> QED
    BY <2>1
<1> HIDE DEF T
<1>6. PICK t \in Twins(d) :
         /\ temporally_valid(t)
         /\ Edge(t) \notin w
         /\ Anchored(t) \/ \E n \in Issuers(t) : reaches_anchor[y][n][w \cup {Edge(t)}]
  <2>1. d \in Node /\ w \in SUBSET Edges /\ reaches_anchor[y + 1][d][w]
    BY <1>3, <1>5
  <2>2. Found(reaches_anchor[y], d, w)
    BY <1>5, <2>1, OneCall, Zenon
  <2> QED
    BY <2>2, Zenon DEF Found
<1>7. t \in Bag /\ t \in Node /\ Edge(t) \in Edges /\ Issuers(t) \subseteq Bag /\ InForce(t)
  BY <1>6, SentOnly, ForceIsValid
<1>8. CASE Anchored(t)
  <2> DEFINE p == [i \in 0..0 |-> t]
  <2>1. p \in [0..0 -> Bag] /\ p[0] = t
    BY <1>7
  <2> HIDE DEF p
  <2>2. KeyPath(p, 0, d)
    BY <1>7, <1>8, <2>1, PathLinks
  <2>3. 0 \in Nat /\ 0 < x
    BY <1>5
  <2> QED
    BY <1>3, <2>1, <2>2, <2>3, Zenon DEF Paths
<1>9. ASSUME NEW n \in Issuers(t), reaches_anchor[y][n][w \cup {Edge(t)}] PROVE FALSE
  <2>1. Paths(y, n)
    BY <1>5, <1>7, <1>9 DEF T
  <2>2. PICK m \in Nat : m < y /\ \E q \in [0..m -> Bag] : KeyPath(q, m, n)
    BY <2>1 DEF Paths
  <2>3. PICK q \in [0..m -> Bag] : m < y /\ KeyPath(q, m, n)
    BY <2>2
  <2> DEFINE p == [i \in 0..(m + 1) |-> IF i = 0 THEN t ELSE q[i - 1]]
  <2>4. /\ p \in [0..(m + 1) -> Bag] /\ p[0] = t
        /\ \A i \in 1..(m + 1) : p[i] = q[i - 1]
    BY <1>7
  <2> HIDE DEF p
  <2>5. ASSUME NEW i \in 0..(m + 1) PROVE InForce(p[i])
    <3>1. CASE i = 0 BY <1>7, <2>4, <3>1
    <3>2. CASE i # 0
      <4>1. i - 1 \in 0..m /\ p[i] = q[i - 1] BY <2>4, <3>2
      <4> QED BY <2>3, <4>1, PathLinks
    <3> QED BY <3>1, <3>2
  <2>6. ASSUME NEW i \in 1..(m + 1) PROVE Link(p[i - 1], p[i])
    <3>1. CASE i = 1
      <4>1. p[i] = q[0] /\ p[i - 1] = t BY <2>4, <3>1
      <4>2. q[0] \in Twins(n) BY <2>3, PathLinks
      <4> QED BY <1>9, <4>1, <4>2 DEF Link
    <3>2. CASE i # 1
      <4> DEFINE j == i - 1
      <4>1. j \in 1..m /\ j \in 1..(m + 1) /\ p[i] = q[j] BY <2>4, <3>2
      <4>2. p[j] = q[j - 1] BY <2>4, <4>1
      <4>3. Link(q[j - 1], q[j]) BY <2>3, <4>1, PathLinks
      <4> QED BY <4>1, <4>2, <4>3
    <3> QED BY <3>1, <3>2
  <2>7. p[m + 1] = q[m] /\ Anchored(q[m])
    <3>1. p[m + 1] = q[m] BY <2>4
    <3> QED BY <2>3, <3>1, PathLinks
  <2>8. KeyPath(p, m + 1, d)
    BY <1>6, <2>4, <2>5, <2>6, <2>7, PathLinks
  <2> QED
    BY <1>3, <1>5, <2>3, <2>4, <2>8 DEF Paths
<1> QED
  BY <1>6, <1>8, <1>9

----------------------------------------------------------------------------
(* The search misses no path *)

\* A path that uses no edge twice and none of v.
Trail(p, m, c, v) ==
    /\ p \in [0..m -> Bag]
    /\ KeyPath(p, m, c)
    /\ \A i, j \in 0..m : i < j => Edge(p[i]) # Edge(p[j])
    /\ \A i \in 0..m : Edge(p[i]) \notin v

\* The rest of a trail is a trail, which may not use its first edge any more.
LEMMA TrailRest ==
    ASSUME Bag \subseteq Node, NEW m \in Nat, m # 0, NEW c \in Bag, NEW v \in SUBSET Edges,
           NEW p, Trail(p, m, c, v)
    PROVE  \E n \in Issuers(p[0]) : \E q : Trail(q, m - 1, n, v \cup {Edge(p[0])})
<1>1. /\ p \in [0..m -> Bag] /\ p[0] \in Twins(c) /\ Anchored(p[m])
      /\ \A i \in 0..m : InForce(p[i])
      /\ \A i \in 1..m : Link(p[i - 1], p[i])
  BY PathLinks DEF Trail
<1>2. PICK l \in Nat : m = l + 1
  <2>1. m - 1 \in Nat /\ m = (m - 1) + 1
    OBVIOUS
  <2> QED
    BY <2>1
<1> DEFINE q == [i \in 0..l |-> p[i + 1]]
<1>3. q \in [0..l -> Bag] /\ \A i \in 0..l : i + 1 \in 0..m /\ q[i] = p[i + 1]
  BY <1>1, <1>2
<1> HIDE DEF q
<1>4. PICK n \in Issuers(p[0]) : q[0] \in Twins(n)
  <2>1. 1 \in 1..m /\ 1 - 1 = 0 /\ q[0] = p[1]
    BY <1>2, <1>3
  <2> QED
    BY <1>1, <2>1 DEF Link
<1>5. KeyPath(q, l, n)
  <2>1. ASSUME NEW i \in 0..l PROVE InForce(q[i])
    BY <1>1, <1>3
  <2>2. ASSUME NEW i \in 1..l PROVE Link(q[i - 1], q[i])
    <3>1. i + 1 \in 1..m /\ (i + 1) - 1 = i /\ q[i] = p[i + 1] /\ q[i - 1] = p[i]
      BY <1>2, <1>3
    <3>2. Link(p[(i + 1) - 1], p[i + 1])
      BY <1>1, <3>1
    <3> QED
      BY <3>1, <3>2
  <2>3. Anchored(q[l])
    BY <1>1, <1>2, <1>3
  <2> QED
    BY <1>4, <2>1, <2>2, <2>3, PathLinks
<1>6. ASSUME NEW i \in 0..l, NEW j \in 0..l, i < j PROVE Edge(q[i]) # Edge(q[j])
  <2>1. i + 1 \in 0..m /\ j + 1 \in 0..m /\ i + 1 < j + 1 /\ q[i] = p[i + 1] /\ q[j] = p[j + 1]
    BY <1>3, <1>6
  <2> QED
    BY <2>1 DEF Trail
<1>7. ASSUME NEW i \in 0..l PROVE Edge(q[i]) \notin v \cup {Edge(p[0])}
  <2>1. i + 1 \in 0..m /\ 0 \in 0..m /\ 0 < i + 1 /\ q[i] = p[i + 1]
    BY <1>3
  <2>2. Edge(p[0]) # Edge(p[i + 1]) /\ Edge(p[i + 1]) \notin v
    BY <2>1 DEF Trail
  <2> QED
    BY <2>1, <2>2
<1>8. Trail(q, l, n, v \cup {Edge(p[0])})
  BY <1>3, <1>5, <1>6, <1>7 DEF Trail
<1>9. l = m - 1
  BY <1>2
<1> QED
  BY <1>4, <1>8, <1>9, Zenon

\* A trail is followed to its end, when as many calls may be nested as it has hops.
LEMMA SearchFollows ==
    ASSUME Bag \subseteq Node, NEW k \in Nat, NEW c \in Bag, NEW v \in SUBSET Edges,
           NEW m \in Nat, m < k, NEW p, Trail(p, m, c, v)
    PROVE  reaches_anchor[k][c][v]
<1> DEFINE F(x) == \A d \in Bag, w \in SUBSET Edges, l \in Nat : \A q :
                      l < x /\ Trail(q, l, d, w) => reaches_anchor[x][d][w]
           T == {x \in Nat : ~F(x)}
<1>1. SUFFICES ASSUME T # {} PROVE FALSE
  OBVIOUS
<1>2. PICK x \in T : \A y \in T : x <= y
  BY <1>1, LeastNumber
<1>3. PICK d \in Bag, w \in SUBSET Edges, l \in Nat :
         \E q : l < x /\ Trail(q, l, d, w) /\ ~reaches_anchor[x][d][w]
  BY <1>2
<1>4. PICK q : l < x /\ Trail(q, l, d, w) /\ ~reaches_anchor[x][d][w]
  BY <1>3
<1>5. PICK y \in Nat : x = y + 1 /\ F(y)
  <2>1. x - 1 \in Nat /\ x = (x - 1) + 1 /\ x - 1 \notin T
    BY <1>2, <1>4
  <2> QED
    BY <2>1
<1> HIDE DEF T
<1> DEFINE t == q[0]
<1>6. /\ t \in Twins(d) /\ t \in Node /\ InForce(t) /\ Edge(t) \in Edges /\ Edge(t) \notin w
      /\ Issuers(t) \subseteq Bag
  <2>1. t \in Twins(d) /\ InForce(t) /\ Edge(t) \notin w
    BY <1>4, PathLinks DEF Trail
  <2> QED
    BY <2>1, SentOnly
<1>7. temporally_valid(t)
  BY <1>6, ForceIsValid
<1>8. Anchored(t) \/ \E n \in Issuers(t) : reaches_anchor[y][n][w \cup {Edge(t)}]
  <2>1. CASE l = 0
    BY <1>4, <2>1, PathLinks DEF Trail
  <2>2. CASE l # 0
    <3>1. PICK n \in Issuers(t) : \E r : Trail(r, l - 1, n, w \cup {Edge(t)})
      BY <1>4, <2>2, TrailRest
    <3>2. PICK r : Trail(r, l - 1, n, w \cup {Edge(t)})
      BY <3>1
    <3>3. l - 1 \in Nat /\ l - 1 < y /\ n \in Bag /\ w \cup {Edge(t)} \in SUBSET Edges
      BY <1>4, <1>5, <1>6, <2>2
    <3> QED
      BY <1>5, <3>2, <3>3
  <2> QED
    BY <2>1, <2>2
<1> HIDE DEF t
<1>9. Found(reaches_anchor[y], d, w)
  BY <1>6, <1>7, <1>8, Zenon DEF Found
<1>10. d \in Node /\ reaches_anchor[y + 1][d][w]
  <2>1. d \in Node
    BY <1>3
  <2> QED
    BY <1>5, <1>9, <2>1, OneCall, Zenon
<1> QED
  BY <1>4, <1>5, <1>10

\* A certificate with the same subject, key and issuer takes another's place among twins.
LEMMA TwinSwap ==
    ASSUME NEW c, NEW t \in Twins(c), NEW u \in Bag, Edge(t) = Edge(u)
    PROVE  u \in Twins(c)
<1>1. t.subject = c.subject /\ t.spki = c.spki
  BY DEF Twins
<1>2. t.subject = u.subject /\ t.spki = u.spki
  BY DEF Edge
<1> QED
  BY <1>1, <1>2 DEF Twins

\* A path that uses an edge twice can be cut short between the two.
LEMMA PathCut ==
    ASSUME NEW c, NEW l \in Nat, NEW q \in [0..l -> Bag], KeyPath(q, l, c),
           NEW i \in 0..l, NEW j \in 0..l, i < j, Edge(q[i]) = Edge(q[j])
    PROVE  \E m \in Nat : m < l /\ \E r \in [0..m -> Bag] : KeyPath(r, m, c)
<1>1. /\ q[0] \in Twins(c) /\ Anchored(q[l])
      /\ \A x \in 0..l : InForce(q[x])
      /\ \A x \in 1..l : Link(q[x - 1], q[x])
  BY PathLinks
<1>2. PICK s \in Nat : s # 0 /\ j = i + s
  <2>1. j - i \in Nat /\ j - i # 0 /\ j = i + (j - i)
    OBVIOUS
  <2> QED
    BY <2>1
<1>3. PICK m \in Nat : l = m + s /\ i <= m
  <2>1. l - s \in Nat /\ l = (l - s) + s /\ i <= l - s
    BY <1>2
  <2> QED
    BY <2>1
<1> DEFINE r == [x \in 0..m |-> IF x < i THEN q[x] ELSE q[x + s]]
<1>4. \A x \in 0..m : x \in 0..l /\ x + s \in 0..l /\ r[x] = IF x < i THEN q[x] ELSE q[x + s]
  BY <1>3
<1>5. r \in [0..m -> Bag]
  BY <1>4
<1> HIDE DEF r
<1>6. r[0] \in Twins(c)
  <2>1. CASE i = 0
    <3>1. r[0] = q[j] /\ q[j] \in Bag
      BY <1>2, <1>4, <2>1
    <3> QED
      BY <1>1, <2>1, <3>1, TwinSwap
  <2>2. CASE i # 0
    <3>1. r[0] = q[0]
      BY <1>4, <2>2
    <3> QED
      BY <1>1, <3>1
  <2> QED
    BY <2>1, <2>2
<1>7. ASSUME NEW x \in 0..m PROVE InForce(r[x])
  BY <1>1, <1>4
<1>8. ASSUME NEW x \in 1..m PROVE Link(r[x - 1], r[x])
  <2>1. CASE x < i
    <3>1. r[x] = q[x] /\ r[x - 1] = q[x - 1] /\ x \in 1..l
      BY <1>3, <1>4, <2>1
    <3> QED
      BY <1>1, <3>1
  <2>2. CASE x = i
    <3>1. r[x] = q[j] /\ r[x - 1] = q[i - 1] /\ i \in 1..l /\ q[j] \in Bag
      BY <1>2, <1>3, <1>4, <2>2
    <3>2. PICK n \in Issuers(q[i - 1]) : q[i] \in Twins(n)
      BY <1>1, <3>1 DEF Link
    <3>3. q[j] \in Twins(n)
      BY <3>1, <3>2, TwinSwap
    <3> QED
      BY <3>1, <3>2, <3>3 DEF Link
  <2>3. CASE i < x
    <3>1. x + s \in 1..l /\ r[x] = q[x + s] /\ r[x - 1] = q[(x + s) - 1]
      <4>1. x - 1 \in 0..m /\ ~(x - 1 < i) /\ (x - 1) + s = (x + s) - 1 /\ ~(x < i) /\ x \in 0..m
        BY <2>3
      <4> QED
        BY <1>3, <1>4, <4>1
    <3> QED
      BY <1>1, <3>1
  <2> QED
    BY <2>1, <2>2, <2>3
<1>9. Anchored(r[m])
  <2>1. r[m] = q[l]
    BY <1>3, <1>4
  <2> QED
    BY <1>1, <2>1
<1>10. KeyPath(r, m, c) /\ m < l
  <2>1. KeyPath(r, m, c)
    BY <1>6, <1>7, <1>8, <1>9, PathLinks
  <2> QED
    BY <1>2, <1>3, <2>1
<1> QED
  BY <1>5, <1>10

\* A shortest path is a trail.
LEMMA ShortestIsTrail ==
    ASSUME NEW c, NEW m \in Nat, NEW p \in [0..m -> Bag], KeyPath(p, m, c)
    PROVE  \E l \in Nat : \E q : l <= m /\ Trail(q, l, c, {})
<1> DEFINE T == {l \in Nat : \E q \in [0..l -> Bag] : KeyPath(q, l, c)}
<1>1. m \in T
  OBVIOUS
<1>2. PICK l \in T : \A y \in T : l <= y
  BY <1>1, LeastNumber
<1>3. PICK q \in [0..l -> Bag] : KeyPath(q, l, c)
  OBVIOUS
<1>4. ASSUME NEW i \in 0..l, NEW j \in 0..l, i < j, Edge(q[i]) = Edge(q[j]) PROVE FALSE
  <2>1. PICK h \in Nat : h < l /\ \E r \in [0..h -> Bag] : KeyPath(r, h, c)
    BY <1>3, <1>4, PathCut
  <2>2. h \in T
    BY <2>1
  <2> QED
    BY <1>2, <2>1, <2>2
<1>5. l \in Nat /\ l <= m
  BY <1>1, <1>2
<1>6. Trail(q, l, c, {})
  BY <1>3, <1>4 DEF Trail
<1> QED
  BY <1>5, <1>6

\* The verdict of the search is the existence of a path short enough.
LEMMA SearchDecides ==
    ASSUME Bag \subseteq Node, NEW c \in Bag, NEW k \in Nat
    PROVE  reaches_anchor[k][c][{}] <=> Paths(k, c)
<1>1. ASSUME Paths(k, c) PROVE reaches_anchor[k][c][{}]
  <2>1. PICK m \in Nat : m < k /\ \E p \in [0..m -> Bag] : KeyPath(p, m, c)
    BY <1>1 DEF Paths
  <2>2. PICK p \in [0..m -> Bag] : KeyPath(p, m, c)
    BY <2>1
  <2>3. PICK l \in Nat : \E q : l <= m /\ Trail(q, l, c, {})
    BY <2>2, ShortestIsTrail
  <2>4. PICK q : l <= m /\ Trail(q, l, c, {})
    BY <2>3
  <2>5. l < k /\ {} \in SUBSET Edges
    BY <2>1, <2>4
  <2> QED
    BY <2>4, <2>5, SearchFollows
<1>2. ASSUME reaches_anchor[k][c][{}] PROVE Paths(k, c)
  BY <1>2, SearchSound
<1> QED
  BY <1>1, <1>2, Zenon

----------------------------------------------------------------------------
(* The verdict *)

\* What the server sent and what the client has pinned are certificates.
Sent ==
    /\ chain \in [signer : Node, others : SUBSET Node]
    /\ verdict \in {"none", "anchored", "refused"}

\* Every documented path is one that the search knows.
LEMMA PathIsKeyPath ==
    ASSUME NEW m \in Nat, NEW p \in [0..m -> Bag], NEW c, IsPath(p, m, c)
    PROVE  KeyPath(p, m, c)
<1>1. ASSUME NEW i \in 1..m
      PROVE  \E n \in Bag : /\ n.ca /\ n.subject = p[i - 1].issuer /\ n.spki = p[i - 1].by
                            /\ p[i] \in Twins(n)
  <2>1. p[i] \in Bag /\ p[i] \in Twins(p[i])
    BY DEF Twins
  <2>2. p[i].ca /\ p[i].subject = p[i - 1].issuer /\ p[i].spki = p[i - 1].by
    BY DEF IsPath
  <2> QED
    BY <2>1, <2>2, Zenon
<1> QED
  BY <1>1 DEF IsPath, KeyPath

\* Where twins agree, the converse holds.
LEMMA KeyPathIsPath ==
    ASSUME TwinsAgree, NEW m \in Nat, NEW p \in [0..m -> Bag], NEW c, KeyPath(p, m, c)
    PROVE  IsPath(p, m, c)
<1>1. ASSUME NEW i \in 1..m
      PROVE  p[i].ca /\ p[i].subject = p[i - 1].issuer /\ p[i].spki = p[i - 1].by
  <2>1. PICK n \in Bag : /\ n.ca /\ n.subject = p[i - 1].issuer /\ n.spki = p[i - 1].by
                         /\ p[i] \in Twins(n)
    BY DEF KeyPath
  <2>2. p[i] \in Bag /\ p[i].subject = n.subject /\ p[i].spki = n.spki
    BY <2>1 DEF Twins
  <2> QED
    BY <2>1, <2>2 DEF TwinsAgree
<1> QED
  BY <1>1 DEF IsPath, KeyPath

\* The search and the paths.
LEMMA SearchAndPaths ==
    ASSUME Sent
    PROVE  /\ PathExists => reaches_anchor[MAX_PATH_DEPTH + 1][chain.signer][{}]
           /\ TwinsAgree /\ reaches_anchor[MAX_PATH_DEPTH + 1][chain.signer][{}] => PathExists
<1>1. Bag \subseteq Node /\ chain.signer \in Bag /\ MAX_PATH_DEPTH + 1 \in Nat
  BY DEF Sent, Bag
<1>2. reaches_anchor[MAX_PATH_DEPTH + 1][chain.signer][{}] <=> Paths(MAX_PATH_DEPTH + 1, chain.signer)
  BY <1>1, SearchDecides
<1>3. \A m : m \in Nat /\ m < MAX_PATH_DEPTH + 1 <=> m \in 0..MAX_PATH_DEPTH
  OBVIOUS
<1>4. ASSUME PathExists PROVE Paths(MAX_PATH_DEPTH + 1, chain.signer)
  <2>1. PICK m \in 0..MAX_PATH_DEPTH : \E p \in [0..m -> Bag] : IsPath(p, m, chain.signer)
    BY <1>4 DEF PathExists
  <2>2. PICK p \in [0..m -> Bag] : IsPath(p, m, chain.signer)
    BY <2>1
  <2>3. KeyPath(p, m, chain.signer)
    BY <1>3, <2>2, PathIsKeyPath
  <2> QED
    BY <1>3, <2>2, <2>3, Zenon DEF Paths
<1>5. ASSUME TwinsAgree, Paths(MAX_PATH_DEPTH + 1, chain.signer) PROVE PathExists
  <2>1. PICK m \in Nat : /\ m < MAX_PATH_DEPTH + 1
                         /\ \E p \in [0..m -> Bag] : KeyPath(p, m, chain.signer)
    BY <1>5 DEF Paths
  <2>2. PICK p \in [0..m -> Bag] : KeyPath(p, m, chain.signer)
    BY <2>1
  <2>3. IsPath(p, m, chain.signer)
    BY <1>5, <2>2, KeyPathIsPath
  <2> QED
    BY <1>3, <2>1, <2>2, <2>3, Zenon DEF PathExists
<1> QED
  BY <1>2, <1>4, <1>5, Zenon

\* The verdict is given for what was sent, and once.
LEMMA VerdictStep ==
    ASSUME Sent, [Next]_vars
    PROVE  /\ Sent'
           /\ PathExists' <=> PathExists
           /\ TwinsAgree' <=> TwinsAgree
           /\ \/ verdict' = verdict
              \/ verdict' = IF reaches_anchor[MAX_PATH_DEPTH + 1][chain.signer][{}]
                            THEN "anchored" ELSE "refused"
<1>1. chain' = chain /\ known' = known
  BY DEF Next, anchor_signer, vars
<1>2. PathExists' <=> PathExists
  BY <1>1 DEF PathExists, IsPath, Twins, InForce, Bag
<1>3. TwinsAgree' <=> TwinsAgree
  BY <1>1 DEF TwinsAgree, Bag
<1>4. \/ verdict' = verdict
      \/ verdict' = IF reaches_anchor[MAX_PATH_DEPTH + 1][chain.signer][{}]
                    THEN "anchored" ELSE "refused"
  BY DEF Next, anchor_signer, vars
<1>5. Sent'
  BY <1>1, <1>4 DEF Sent
<1> QED
  BY <1>2, <1>3, <1>4, <1>5, Zenon

\* Where a path of at most MAX_PATH_DEPTH hops through CA certificates in force exists,
\* the signer is anchored, for every bag, bundle, clock and depth: the loop guard hides
\* none (anchor_signer, reaches_anchor).
THEOREM NoPathMissed == Spec => []PathsFound
<1>1. Init => Sent /\ PathsFound
  BY DEF Init, Sent, PathsFound
<1>2. Sent /\ PathsFound /\ [Next]_vars => (Sent /\ PathsFound)'
  <2>1. SUFFICES ASSUME Sent, PathsFound, [Next]_vars, verdict' = "refused", PathExists
                 PROVE  FALSE
    BY VerdictStep DEF PathsFound
  <2>2. reaches_anchor[MAX_PATH_DEPTH + 1][chain.signer][{}]
    BY <2>1, SearchAndPaths
  <2>3. verdict = "refused"
    BY <2>1, <2>2, VerdictStep
  <2> QED
    BY <2>1, <2>3 DEF PathsFound
<1> QED
  BY <1>1, <1>2, PTL DEF Spec

\* Where no CA certificate that was sent has a twin that is none, the signer is anchored
\* only by such a path: no call of the search makes one up (anchor_signer,
\* reaches_anchor).
THEOREM NoPathInvented == Spec => []AnchoredByPath
<1>1. Init => Sent /\ AnchoredByPath
  BY DEF Init, Sent, AnchoredByPath
<1>2. Sent /\ AnchoredByPath /\ [Next]_vars => (Sent /\ AnchoredByPath)'
  <2>1. SUFFICES ASSUME Sent, AnchoredByPath, [Next]_vars, verdict' = "anchored", TwinsAgree,
                        ~PathExists
                 PROVE  FALSE
    BY VerdictStep DEF AnchoredByPath
  <2>2. ~reaches_anchor[MAX_PATH_DEPTH + 1][chain.signer][{}]
    BY <2>1, SearchAndPaths
  <2>3. verdict = "anchored"
    BY <2>1, <2>2, VerdictStep
  <2> QED
    BY <2>1, <2>3 DEF AnchoredByPath
<1> QED
  BY <1>1, <1>2, PTL DEF Spec
=============================================================================
