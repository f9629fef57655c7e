--------------------------- MODULE RankOrderProofs ---------------------------
(***************************************************************************)
(* The ranks of a board, for any number of cards and columns.  First what  *)
(* the operators on orders return: a card put next to another, some cards  *)
(* as they stand in an order, the ranks folded over a board, the order     *)
(* they are pushed in.  Then that no drop of a card is lost, whatever the  *)
(* orders are.  Then the types, and with them that what Jira took stands   *)
(* as it was drawn.                                                        *)
(***************************************************************************)
EXTENDS RankOrder, JournalProofs, FiniteSetTheorems, WellFoundedInduction

\* The position of a card in an order that has no card twice.
LEMMA FirstIs ==
    ASSUME NEW K, NEW s \in Seq(K), IsInjective(s), NEW i \in 1..Len(s)
    PROVE  /\ {p \in 1..Len(s) : s[p] = s[i]} = {i}
           /\ Min({p \in 1..Len(s) : s[p] = s[i]}) = i
<1>1. {p \in 1..Len(s) : s[p] = s[i]} = {i}
  BY DEF IsInjective
<1>. QED
  BY <1>1 DEF Min

\* What Position finds of the card at i.
LEMMA PositionIs ==
    ASSUME NEW K, NEW s \in Seq(K), IsInjective(s), NEW i \in 1..Len(s)
    PROVE  s[i] \in ToSet(s) /\ Position(s, s[i]) = i
BY FirstIs DEF Position, SelectInSeq, ToSet

\* A card is above another when its position is lower.
LEMMA AboveIs ==
    ASSUME NEW K, NEW s \in Seq(K), IsInjective(s), NEW i \in 1..Len(s), NEW j \in 1..Len(s)
    PROVE  Above(s, s[i], s[j]) <=> i < j
BY PositionIs DEF Above

\* The cards of an order are what stands at its positions.
LEMMA SetIs ==
    ASSUME NEW K, NEW s \in Seq(K)
    PROVE  /\ ToSet(s) = {s[i] : i \in 1..Len(s)}
           /\ ToSet(s) \subseteq K
           /\ \A k \in ToSet(s) : \E i \in 1..Len(s) : s[i] = k
BY DEF ToSet

\* Of two cards of an order, one is above the other.
LEMMA AboveTotal ==
    ASSUME NEW K, NEW s \in Seq(K), IsInjective(s), NEW j \in ToSet(s), NEW k \in ToSet(s)
    PROVE  /\ ~ Above(s, j, j)
           /\ j # k => (Above(s, j, k) <=> ~ Above(s, k, j))
           /\ \A l \in ToSet(s) : Above(s, j, k) /\ Above(s, k, l) => Above(s, j, l)
<1>1. PICK a \in 1..Len(s) : s[a] = j
  BY SetIs
<1>2. PICK b \in 1..Len(s) : s[b] = k
  BY SetIs
<1>3. \A l \in ToSet(s) : \E c \in 1..Len(s) : s[c] = l
  BY SetIs
<1>. QED
  BY <1>1, <1>2, <1>3, AboveIs

\* RemoveFirst takes out the one card it names.
LEMMA RestIs ==
    ASSUME NEW K, NEW s \in Seq(K), IsInjective(s), NEW a \in 1..Len(s)
    PROVE  LET r == RemoveFirst(s, s[a])
           IN  /\ r \in Seq(K) /\ Len(r) = Len(s) - 1
               /\ \A i \in 1..Len(r) : r[i] = IF i < a THEN s[i] ELSE s[i + 1]
<1>1. RemoveFirst(s, s[a]) = SubSeq(s, 1, a - 1) \o SubSeq(s, a + 1, Len(s))
  BY FirstIs DEF RemoveFirst, RemoveAt, SelectInSeq
<1>. DEFINE u == SubSeq(s, 1, a - 1)
            v == SubSeq(s, a + 1, Len(s))
<1>2. u \in Seq(K) /\ Len(u) = a - 1 /\ \A i \in 1..a - 1 : u[i] = s[i]
  OBVIOUS
<1>3. v \in Seq(K) /\ Len(v) = Len(s) - a /\ \A i \in 1..Len(s) - a : v[i] = s[a + i]
  OBVIOUS
<1>4. RemoveFirst(s, s[a]) = u \o v
  BY <1>1
<1>. HIDE DEF u, v
<1>5. u \o v \in Seq(K) /\ Len(u \o v) = Len(s) - 1
  BY <1>2, <1>3
<1>6. ASSUME NEW i \in 1..Len(s) - 1 PROVE (u \o v)[i] = IF i < a THEN s[i] ELSE s[i + 1]
  BY <1>2, <1>3
<1>. QED
  BY <1>4, <1>5, <1>6

\* InsertAt moves what stands from there on one down.
LEMMA InsertIs ==
    ASSUME NEW K, NEW r \in Seq(K), NEW q \in 1..Len(r) + 1, NEW k \in K
    PROVE  LET p == InsertAt(r, q, k)
           IN  /\ p \in Seq(K) /\ Len(p) = Len(r) + 1
               /\ \A i \in 1..Len(p) : p[i] = IF i < q THEN r[i] ELSE IF i = q THEN k ELSE r[i - 1]
<1>. DEFINE u == SubSeq(r, 1, q - 1)
            v == SubSeq(r, q, Len(r))
<1>1. u \in Seq(K) /\ Len(u) = q - 1 /\ \A i \in 1..q - 1 : u[i] = r[i]
  OBVIOUS
<1>2. v \in Seq(K) /\ Len(v) = Len(r) - q + 1 /\ \A i \in 1..Len(r) - q + 1 : v[i] = r[q + i - 1]
  OBVIOUS
<1>3. InsertAt(r, q, k) = u \o <<k>> \o v
  BY DEF InsertAt
<1>. HIDE DEF u, v
<1>4. /\ u \o <<k>> \in Seq(K) /\ Len(u \o <<k>>) = q
      /\ \A i \in 1..q : (u \o <<k>>)[i] = IF i < q THEN r[i] ELSE k
  BY <1>1
<1>. DEFINE w == u \o <<k>>
<1>. HIDE DEF w
<1>5. /\ w \o v \in Seq(K) /\ Len(w \o v) = Len(r) + 1
      /\ \A i \in 1..Len(r) + 1 : (w \o v)[i] = IF i < q THEN r[i] ELSE IF i = q THEN k ELSE r[i - 1]
  BY <1>2, <1>4 DEF w
<1>. QED
  BY <1>3, <1>5 DEF w

\* What the order is once card k of it was put next to card n: the same cards,
\* all but k as they stood, and k below n unless it was put above it.
LEMMA PlacedIs ==
    ASSUME NEW K, NEW s \in Seq(K), IsInjective(s),
           NEW k \in ToSet(s), NEW n \in ToSet(s), k # n, NEW before \in BOOLEAN
    PROVE  LET p == Placed(s, k, n, before)
           IN  /\ p \in Seq(K) /\ IsInjective(p) /\ Len(p) = Len(s) /\ ToSet(p) = ToSet(s)
               /\ \A x, y \in ToSet(s) \ {k} : Above(p, x, y) <=> Above(s, x, y)
               /\ ~ before => \A x \in ToSet(s) \ {k} : Above(p, x, k) <=> x = n \/ Above(s, x, n)
<1>1. PICK a \in 1..Len(s) : s[a] = k
  BY SetIs
<1>2. PICK b \in 1..Len(s) : s[b] = n
  BY SetIs
<1>3. a # b /\ k \in K
  BY <1>1, <1>2, SetIs
<1>. DEFINE r == RemoveFirst(s, k)
            m == IF b < a THEN b ELSE b - 1
            q == IF before THEN m ELSE m + 1
            p == InsertAt(r, q, k)
            \* where a position of s ends up in r, and in p
            inR(i) == IF i < a THEN i ELSE i - 1
            inP(i) == IF inR(i) < q THEN inR(i) ELSE inR(i) + 1
<1>4. r \in Seq(K) /\ Len(r) = Len(s) - 1 /\ \A i \in 1..Len(r) : r[i] = IF i < a THEN s[i] ELSE s[i + 1]
  BY <1>1, RestIs
<1>. HIDE DEF r
<1>5. m \in 1..Len(r) /\ r[m] = n /\ q \in 1..Len(r) + 1
  BY <1>2, <1>3, <1>4
<1>6. IsInjective(r)
  <2>. SUFFICES ASSUME NEW i \in 1..Len(r), NEW j \in 1..Len(r), r[i] = r[j] PROVE i = j
    BY <1>4 DEF IsInjective
  <2>. DEFINE u == IF i < a THEN i ELSE i + 1
              v == IF j < a THEN j ELSE j + 1
  <2>1. u \in 1..Len(s) /\ v \in 1..Len(s) /\ s[u] = s[v]
    BY <1>4
  <2>2. u = v
    <3>. HIDE DEF u, v
    <3>. QED BY <2>1 DEF IsInjective
  <2>. QED
    BY <2>2
<1>7. Position(r, n) = m
  BY <1>4, <1>5, <1>6, PositionIs
<1>8. Placed(s, k, n, before) = p
  BY <1>7 DEF Placed, r
<1>. HIDE DEF m, q
<1>9. /\ p \in Seq(K) /\ Len(p) = Len(s)
      /\ \A i \in 1..Len(p) : p[i] = IF i < q THEN r[i] ELSE IF i = q THEN k ELSE r[i - 1]
  <2>1. k \in K /\ r \in Seq(K) /\ Len(r) + 1 = Len(s)
    BY <1>3, <1>4
  <2>. HIDE DEF p
  <2>2. p = InsertAt(r, q, k)
    BY DEF p
  <2>3. /\ InsertAt(r, q, k) \in Seq(K) /\ Len(InsertAt(r, q, k)) = Len(r) + 1
        /\ \A i \in 1..Len(InsertAt(r, q, k)) :
              InsertAt(r, q, k)[i] = IF i < q THEN r[i] ELSE IF i = q THEN k ELSE r[i - 1]
    BY <1>5, <2>1, InsertIs
  <2>. QED
    BY <2>1, <2>2, <2>3
<1>. HIDE DEF p
<1>10. /\ q \in 1..Len(p) /\ p[q] = k
       /\ \A i \in 1..Len(s) : i # a => inP(i) \in 1..Len(p) /\ inP(i) # q /\ p[inP(i)] = s[i]
  <2>0. q \in Int /\ q \in 1..Len(p)
    <3>1. Len(r) + 1 = Len(p) /\ Len(p) \in Nat
      BY <1>4, <1>9
    <3>. QED
      BY <1>5, <3>1
  <2>1. q \in 1..Len(p) /\ p[q] = k
    BY <1>9, <2>0
  <2>2. ASSUME NEW i \in 1..Len(s), i # a
        PROVE  inP(i) \in 1..Len(p) /\ inP(i) # q /\ p[inP(i)] = s[i]
    <3>1. inR(i) \in 1..Len(r) /\ r[inR(i)] = s[i]
      BY <1>4, <2>2
    <3>. HIDE DEF inR
    <3>. DEFINE e == inR(i)
    <3>2. e \in 1..Len(r) /\ q \in 1..Len(r) + 1 /\ Len(p) = Len(r) + 1 /\ Len(r) \in Nat
      BY <1>4, <1>5, <1>9, <3>1
    <3>. HIDE DEF e
    <3>3. LET f == IF e < q THEN e ELSE e + 1
          IN  f \in 1..Len(p) /\ f # q /\ p[f] = r[e]
      <4>1. CASE e < q
        <5>1. e \in 1..Len(p) /\ e # q
          BY <3>2, <4>1
        <5>. QED
          BY <1>9, <4>1, <5>1
      <4>2. CASE ~ (e < q)
        <5>1. e + 1 \in 1..Len(p) /\ ~ (e + 1 < q) /\ e + 1 # q /\ (e + 1) - 1 = e
          BY <3>2, <4>2
        <5>2. p[e + 1] = r[(e + 1) - 1]
          BY <1>9, <5>1
        <5>. QED
          BY <4>2, <5>1, <5>2
      <4>. QED
        BY <4>1, <4>2
    <3>. USE DEF e
    <3>. QED
      BY <3>1, <3>3
  <2>. QED
    BY <2>1, <2>2
<1>11. \A i \in 1..Len(p) : i = q \/ \E j \in 1..Len(s) : j # a /\ inP(j) = i
  <2>. SUFFICES ASSUME NEW i \in 1..Len(p), i # q PROVE \E j \in 1..Len(s) : j # a /\ inP(j) = i
    OBVIOUS
  <2>. DEFINE h == IF i < q THEN i ELSE i - 1
              j == IF h < a THEN h ELSE h + 1
  <2>1. j \in 1..Len(s) /\ j # a /\ inR(j) = h /\ inP(j) = i
    BY <1>4, <1>5, <1>9
  <2>. QED
    BY <2>1
<1>12. ASSUME NEW i \in 1..Len(p), NEW j \in 1..Len(p), p[i] = p[j] PROVE i = j
  <2>1. \A u \in 1..Len(s) : u # a => s[u] # k
    BY <1>1 DEF IsInjective
  <2>2. CASE i = q \/ j = q
    <3>. HIDE DEF inP
    <3>1. p[i] = k /\ p[j] = k
      BY <1>10, <1>12, <2>2
    <3>2. ASSUME NEW h \in 1..Len(p), h # q PROVE p[h] # k
      <4>1. PICK u \in 1..Len(s) : u # a /\ inP(u) = h
        BY <1>11, <3>2
      <4>. QED
        BY <1>10, <2>1, <4>1
    <3>. QED
      BY <3>1, <3>2
  <2>3. CASE i # q /\ j # q
    <3>1. PICK u \in 1..Len(s) : u # a /\ inP(u) = i
      BY <1>11, <2>3
    <3>2. PICK v \in 1..Len(s) : v # a /\ inP(v) = j
      BY <1>11, <2>3
    <3>3. s[u] = s[v]
      BY <1>10, <1>12, <3>1, <3>2
    <3>. QED
      BY <3>1, <3>2, <3>3 DEF IsInjective
  <2>. QED
    BY <2>2, <2>3
<1>13. IsInjective(p)
  BY <1>9, <1>12 DEF IsInjective
<1>14. ToSet(p) = ToSet(s)
  <2>1. \A x \in ToSet(p) : x \in ToSet(s)
    <3>. SUFFICES ASSUME NEW x \in ToSet(p) PROVE x \in ToSet(s)
      OBVIOUS
    <3>1. PICK h \in 1..Len(p) : p[h] = x
      BY <1>9, SetIs
    <3>2. h = q \/ \E i \in 1..Len(s) : s[i] = x
      <4>. HIDE DEF inP
      <4>. QED BY <1>10, <1>11, <3>1
    <3>. QED
      BY <1>10, <3>1, <3>2, SetIs
  <2>2. \A x \in ToSet(s) : x \in ToSet(p)
    <3>. SUFFICES ASSUME NEW x \in ToSet(s) PROVE x \in ToSet(p)
      OBVIOUS
    <3>1. PICK i \in 1..Len(s) : s[i] = x
      BY SetIs
    <3>2. \E h \in 1..Len(p) : p[h] = x
      BY <1>1, <1>10, <3>1
    <3>. QED
      BY <1>9, <3>2, SetIs
  <2>. QED
    BY <2>1, <2>2
<1>15. ASSUME NEW x \in ToSet(s) \ {k}, NEW y \in ToSet(s) \ {k} PROVE Above(p, x, y) <=> Above(s, x, y)
  <2>1. PICK i \in 1..Len(s) : s[i] = x
    BY SetIs
  <2>2. PICK j \in 1..Len(s) : s[j] = y
    BY SetIs
  <2>3. i # a /\ j # a
    BY <1>1, <2>1, <2>2
  <2>4. Above(s, x, y) <=> i < j
    BY <2>1, <2>2, AboveIs
  <2>5. Above(p, x, y) <=> inP(i) < inP(j)
    <3>. HIDE DEF inP
    <3>1. inP(i) \in 1..Len(p) /\ p[inP(i)] = x /\ inP(j) \in 1..Len(p) /\ p[inP(j)] = y
      BY <1>10, <2>1, <2>2, <2>3
    <3>2. Above(p, p[inP(i)], p[inP(j)]) <=> inP(i) < inP(j)
      BY <1>9, <1>13, <3>1, AboveIs
    <3>. QED BY <3>1, <3>2
  <2>6. q \in Int
    BY <1>5
  <2>7. inP(i) < inP(j) <=> i < j
    <3>. HIDE DEF q
    <3>. QED BY <2>3, <2>6
  <2>. QED
    BY <2>4, <2>5, <2>7
<1>16. ASSUME ~ before, NEW x \in ToSet(s) \ {k} PROVE Above(p, x, k) <=> x = n \/ Above(s, x, n)
  <2>1. PICK i \in 1..Len(s) : s[i] = x
    BY SetIs
  <2>2. i # a
    BY <1>1, <2>1
  <2>3. Above(s, x, n) <=> i < b
    BY <1>2, <2>1, AboveIs
  <2>4. x = n <=> i = b
    BY <1>2, <2>1 DEF IsInjective
  <2>5. Above(p, x, k) <=> inP(i) < q
    <3>. HIDE DEF inP
    <3>. QED BY <1>9, <1>10, <1>13, <2>1, <2>2, AboveIs
  <2>6. q = m + 1
    BY <1>16 DEF q
  <2>7. inP(i) < q <=> i <= b
    BY <1>3, <2>2, <2>6 DEF m
  <2>. QED
    BY <2>3, <2>4, <2>5, <2>7
<1>. QED
  BY <1>8, <1>9, <1>13, <1>14, <1>15, <1>16

\* The same for a card put right below another one.
LEMMA PlacedBelow ==
    ASSUME NEW K, NEW s \in Seq(K), IsInjective(s),
           NEW k \in ToSet(s), NEW n \in ToSet(s), k # n
    PROVE  LET p == Placed(s, k, n, FALSE)
           IN  /\ p \in Seq(K) /\ IsInjective(p) /\ ToSet(p) = ToSet(s)
               /\ \A z \in ToSet(s) \ {k} : Above(p, z, k) <=> z = n \/ Above(s, z, n)
<1>1. \A before \in BOOLEAN :
          /\ Placed(s, k, n, before) \in Seq(K) /\ IsInjective(Placed(s, k, n, before))
          /\ ToSet(Placed(s, k, n, before)) = ToSet(s)
          /\ ~ before => \A z \in ToSet(s) \ {k} : Above(Placed(s, k, n, before), z, k) <=> z = n \/ Above(s, z, n)
  BY PlacedIs
<1>. QED
  BY <1>1

-----------------------------------------------------------------------------
\* Of finitely many sets, one holds no other.
LEMMA SmallestIsThere ==
    ASSUME NEW S, IsFiniteSet(S), NEW F \in SUBSET (SUBSET S), F # {}
    PROVE  \E B \in F : \A C \in F : C \subseteq B => C = B
<1>1. IsWellFoundedOn(StrictSubsetOrdering(S), FiniteSubsetsOf(S)) /\ FiniteSubsetsOf(S) = SUBSET S
  BY FS_StrictSubsetOrderingWellFounded, FS_FiniteSubsetsOfFinite
<1>2. PICK B \in F : \A C \in F : <<C, B>> \notin StrictSubsetOrdering(S)
  BY <1>1, WFMin
<1>3. ASSUME NEW C \in F, C \subseteq B PROVE C = B
  <2>1. <<C, B>> \in (SUBSET S) \X (SUBSET S)
    OBVIOUS
  <2>2. C # B => <<C, B>> \in StrictSubsetOrdering(S)
    BY <1>3, <2>1 DEF StrictSubsetOrdering
  <2>. QED
    BY <1>2, <2>2
<1>. QED
  BY <1>3

\* A strict order of all the cards of S, as a set of pairs.
Orders(R, S) ==
    \A x, y, z \in S :
        /\ <<x, x>> \notin R
        /\ x # y => <<x, y>> \in R \/ <<y, x>> \in R
        /\ <<x, y>> \in R /\ <<y, z>> \in R => <<x, z>> \in R

Follows(s, R) == \A i, j \in DOMAIN s : i < j => <<s[i], s[j]>> \in R

\* A sequence of SetToSeqs(S) has every member of S, once.
LEMMA SeqOfSet ==
    ASSUME NEW S, IsFiniteSet(S), NEW s \in SetToSeqs(S)
    PROVE  s \in Seq(S) /\ IsInjective(s) /\ Len(s) = Cardinality(S) /\ ToSet(s) = S
<1>1. Cardinality(S) \in Nat
  BY FS_CardinalityType
<1>2. s \in [1..Cardinality(S) -> S] /\ IsInjective(s)
  BY DEF SetToSeqs, IsInjective
<1>3. s \in Seq(S) /\ Len(s) = Cardinality(S)
  BY <1>1, <1>2
<1>4. s \in Injection(1..Cardinality(S), S) /\ Cardinality(1..Cardinality(S)) = Cardinality(S)
  BY <1>1, <1>2, FS_Interval DEF Injection
<1>5. s \in Surjection(1..Cardinality(S), S)
  BY <1>4, FS_Injection
<1>. QED
  BY <1>2, <1>3, <1>5 DEF Surjection, ToSet

\* The highest of finitely many ordered members.
LEMMA LastIsThere ==
    ASSUME NEW S, IsFiniteSet(S), S # {}, NEW R, Orders(R, S)
    PROVE  \E m \in S : \A x \in S \ {m} : <<x, m>> \in R
<1>. DEFINE after(x) == {y \in S : <<x, y>> \in R}
            F == {after(x) : x \in S}
<1>1. F \in SUBSET (SUBSET S) /\ F # {}
  OBVIOUS
<1>2. PICK B \in F : \A C \in F : C \subseteq B => C = B
  <2>. HIDE DEF F
  <2>. QED BY <1>1, SmallestIsThere
<1>3. PICK m \in S : B = after(m)
  OBVIOUS
<1>4. ASSUME NEW x \in S \ {m} PROVE <<x, m>> \in R
  <2>. SUFFICES ASSUME <<x, m>> \notin R PROVE FALSE
    OBVIOUS
  <2>1. <<m, x>> \in R
    BY DEF Orders
  <2>2. after(x) \subseteq after(m) /\ x \in after(m) /\ x \notin after(x)
    BY <2>1 DEF Orders
  <2>. QED
    BY <1>2, <1>3, <2>2
<1>. QED
  BY <1>4

\* Finitely many ordered members can be written down in their order.
LEMMA Arrangement ==
    ASSUME NEW S, IsFiniteSet(S), NEW R, Orders(R, S)
    PROVE  \E s \in SetToSeqs(S) : Follows(s, R)
<1>. DEFINE F == {T \in SUBSET S : ~ \E s \in SetToSeqs(T) : Follows(s, R)}
<1>. SUFFICES ASSUME F # {} PROVE FALSE
  OBVIOUS
<1>1. PICK T \in F : \A C \in F : C \subseteq T => C = T
  <2>1. F \in SUBSET (SUBSET S)
    OBVIOUS
  <2>. HIDE DEF F
  <2>. QED BY <2>1, SmallestIsThere
<1>2. IsFiniteSet(T) /\ Cardinality(T) \in Nat /\ Orders(R, T)
  BY FS_Subset, FS_CardinalityType DEF Orders
<1>3. T # {}
  <2>. SUFFICES ASSUME T = {} PROVE FALSE
    OBVIOUS
  <2>1. Cardinality(T) = 0
    BY FS_EmptySet
  <2>2. <<>> \in SetToSeqs(T) /\ Follows(<<>>, R)
    BY <2>1 DEF SetToSeqs, Follows
  <2>. QED
    BY <2>2
<1>4. PICK m \in T : \A x \in T \ {m} : <<x, m>> \in R
  BY <1>2, <1>3, LastIsThere
<1>. DEFINE U == T \ {m}
            n == Cardinality(U)
<1>5. IsFiniteSet(U) /\ n \in Nat /\ Cardinality(T) = n + 1
  <2>1. IsFiniteSet(U) /\ n = Cardinality(T) - 1
    BY <1>2, FS_RemoveElement
  <2>2. n \in Nat
    BY <2>1, FS_CardinalityType
  <2>. QED
    BY <1>2, <2>1, <2>2
<1>6. PICK s \in SetToSeqs(U) : Follows(s, R)
  BY <1>1, <1>4
<1>7. s \in Seq(U) /\ IsInjective(s) /\ Len(s) = n
  BY <1>5, <1>6, SeqOfSet
<1>. DEFINE t == [i \in 1..n + 1 |-> IF i = n + 1 THEN m ELSE s[i]]
<1>. HIDE DEF n
<1>8. \A i \in 1..n : s[i] \in U
  BY <1>7
<1>9. t \in [1..n + 1 -> T]
  BY <1>5, <1>8
<1>10. ASSUME NEW i \in 1..n + 1, NEW j \in 1..n + 1, i < j PROVE <<t[i], t[j]>> \in R /\ t[i] # t[j]
  <2>1. i \in 1..n /\ t[i] = s[i]
    BY <1>5, <1>10
  <2>2. CASE j = n + 1
    BY <1>4, <1>5, <1>8, <2>1, <2>2
  <2>3. CASE j \in 1..n
    <3>1. t[j] = s[j] /\ i # j
      BY <1>5, <1>10, <2>3
    <3>2. DOMAIN s = 1..n
      BY <1>7
    <3>3. <<s[i], s[j]>> \in R
      BY <1>6, <1>10, <2>1, <2>3, <3>2 DEF Follows
    <3>4. s[i] # s[j]
      BY <1>7, <2>1, <2>3, <3>1, <3>2 DEF IsInjective
    <3>. QED
      BY <2>1, <3>1, <3>3, <3>4
  <2>. QED
    BY <1>5, <2>2, <2>3
<1>. HIDE DEF t
<1>11. t \in SetToSeqs(T)
  <2>1. \A i, j \in 1..n + 1 : i # j => t[i] # t[j]
    <3>. SUFFICES ASSUME NEW i \in 1..n + 1, NEW j \in 1..n + 1, i # j PROVE t[i] # t[j]
      OBVIOUS
    <3>1. i < j \/ j < i
      BY <1>5
    <3>. QED
      BY <1>10, <3>1
  <2>. QED
    BY <1>5, <1>9, <2>1 DEF SetToSeqs
<1>12. Follows(t, R)
  BY <1>9, <1>10 DEF Follows
<1>. QED
  BY <1>1, <1>11, <1>12

\* In a sequence that follows an order, one is above another when the order
\* says so.
LEMMA FollowsAbove ==
    ASSUME NEW S, IsFiniteSet(S), NEW R, Orders(R, S), NEW s \in SetToSeqs(S), Follows(s, R)
    PROVE  \A x, y \in S : Above(s, x, y) <=> <<x, y>> \in R
<1>1. s \in Seq(S) /\ IsInjective(s) /\ ToSet(s) = S
  BY SeqOfSet
<1>. SUFFICES ASSUME NEW x \in S, NEW y \in S PROVE Above(s, x, y) <=> <<x, y>> \in R
  OBVIOUS
<1>2. PICK i \in 1..Len(s) : s[i] = x
  BY <1>1, SetIs
<1>3. PICK j \in 1..Len(s) : s[j] = y
  BY <1>1, SetIs
<1>4. Above(s, x, y) <=> i < j
  BY <1>1, <1>2, <1>3, AboveIs
<1>5. i < j => <<x, y>> \in R
  BY <1>1, <1>2, <1>3 DEF Follows
<1>6. j < i => <<y, x>> \in R
  BY <1>1, <1>2, <1>3 DEF Follows
<1>7. i = j \/ i < j \/ j < i
  OBVIOUS
<1>8. i = j => <<x, y>> \notin R
  BY <1>2, <1>3 DEF Orders
<1>9. <<x, y>> \in R => <<y, x>> \notin R
  BY DEF Orders
<1>. QED
  BY <1>4, <1>5, <1>6, <1>7, <1>8, <1>9

\* Some cards of an order, as they stand in it.
LEMMA AmongIs ==
    ASSUME NEW K, IsFiniteSet(K), NEW s \in Seq(K), IsInjective(s), NEW S \in SUBSET ToSet(s)
    PROVE  /\ Among(s, S) \in Seq(S) /\ IsInjective(Among(s, S)) /\ ToSet(Among(s, S)) = S
           /\ \A x, y \in S : Above(Among(s, S), x, y) <=> Above(s, x, y)
<1>. DEFINE R == {p \in S \X S : Above(s, p[1], p[2])}
<1>1. IsFiniteSet(S)
  <2>1. S \in SUBSET K
    BY SetIs
  <2>. QED
    BY <2>1, FS_Subset
<1>2. Orders(R, S)
  <2>. SUFFICES ASSUME NEW x \in S, NEW y \in S, NEW z \in S
                PROVE  /\ <<x, x>> \notin R
                       /\ x # y => <<x, y>> \in R \/ <<y, x>> \in R
                       /\ <<x, y>> \in R /\ <<y, z>> \in R => <<x, z>> \in R
    BY DEF Orders
  <2>1. x \in ToSet(s) /\ y \in ToSet(s) /\ z \in ToSet(s)
    OBVIOUS
  <2>2. ~ Above(s, x, x)
    BY <2>1, AboveTotal
  <2>3. x # y => Above(s, x, y) \/ Above(s, y, x)
    BY <2>1, AboveTotal
  <2>4. Above(s, x, y) /\ Above(s, y, z) => Above(s, x, z)
    BY <2>1, AboveTotal
  <2>. QED
    BY <2>2, <2>3, <2>4
<1>3. PICK t \in SetToSeqs(S) : Follows(t, R)
  <2>. HIDE DEF R
  <2>. QED BY <1>1, <1>2, Arrangement
<1>. DEFINE stands(d) == \A i, j \in DOMAIN d : i < j => Above(s, d[i], d[j])
<1>4. stands(t)
  BY <1>3 DEF Follows
<1>5. Among(s, S) = CHOOSE d \in SetToSeqs(S) : stands(d)
  BY DEF Among, InOrder
<1>. HIDE DEF stands
<1>6. Among(s, S) \in SetToSeqs(S) /\ stands(Among(s, S))
  BY <1>3, <1>4, <1>5
<1>. DEFINE d == Among(s, S)
<1>. HIDE DEF d
<1>7. d \in SetToSeqs(S) /\ stands(d)
  BY <1>6 DEF d
<1>8. d \in Seq(S) /\ IsInjective(d) /\ ToSet(d) = S
  BY <1>1, <1>7, SeqOfSet
<1>9. Follows(d, R)
  BY <1>7, <1>8 DEF Follows, stands
<1>10. \A x, y \in S : Above(d, x, y) <=> <<x, y>> \in R
  <2>. HIDE DEF R
  <2>. QED BY <1>1, <1>2, <1>7, <1>9, FollowsAbove
<1>. QED
  BY <1>8, <1>10 DEF d

\* The keys in the order the journal is read.
LEMMA KeysInOrder == InOrder(Keys, <) \in Seq(Keys)
<1>. DEFINE R == {p \in Keys \X Keys : p[1] < p[2]}
            stands(d) == \A i, j \in DOMAIN d : i < j => d[i] < d[j]
<1>1. IsFiniteSet(Keys) /\ Keys \subseteq Nat
  BY RankOrderAssumption
<1>2. Orders(R, Keys)
  BY <1>1 DEF Orders
<1>3. PICK t \in SetToSeqs(Keys) : Follows(t, R)
  <2>. HIDE DEF R
  <2>. QED BY <1>1, <1>2, Arrangement
<1>4. stands(t)
  BY <1>3 DEF Follows
<1>5. InOrder(Keys, <) = CHOOSE d \in SetToSeqs(Keys) : stands(d)
  BY DEF InOrder
<1>. HIDE DEF stands
<1>6. InOrder(Keys, <) \in SetToSeqs(Keys)
  BY <1>3, <1>4, <1>5
<1>. QED
  BY <1>1, <1>6, SeqOfSet

-----------------------------------------------------------------------------
\* The order t has the cards of s, and those with no pending rank as in s.
Redrawn(t, s) ==
    /\ t \in Seq(Keys) /\ IsInjective(t) /\ ToSet(t) = ToSet(s)
    /\ \A x, y \in ToSet(s) :
          Ranks(journal, x) = {} /\ Ranks(journal, y) = {} => (Above(t, x, y) <=> Above(s, x, y))

\* Every rank in the journal says against which card.
RanksSay == \A r \in journal : r.after \in RankValue

\* One rank laid over an order.
LEMMA RankCardRedraws ==
    ASSUME journal \in SUBSET Rows, WellKeyed(journal), RanksSay,
           NEW s, NEW t, Redrawn(t, s), NEW k
    PROVE  Redrawn(rankCard(t, k), s)
<1>1. t \in Seq(Keys) /\ IsInjective(t) /\ ToSet(t) = ToSet(s)
  BY DEF Redrawn
<1>2. CASE \E r \in Ranks(journal, k) :
              /\ {k, r.after[1]} \subseteq ToSet(t) /\ k # r.after[1]
              /\ column[k] = column[r.after[1]]
  <2>1. PICK r \in Ranks(journal, k) : {k, r.after[1]} \subseteq ToSet(t) /\ k # r.after[1]
    BY <1>2
  <2>2. r \in journal /\ r.type = EntityRank /\ r.key = k /\ r.field = FieldRank
    BY <2>1 DEF Ranks, RowsAt
  <2>3. RowAt(journal, EntityRank, k, FieldRank) = r
    BY <2>2, RowAtIsUnique
  <2>. DEFINE n == r.after[1]
              before == r.after[2]
              p == Placed(t, k, n, before)
  <2>4. rankCard(t, k) = p
    BY <1>2, <2>3 DEF rankCard
  <2>5. before \in BOOLEAN
    BY <2>2 DEF RanksSay, RankValue
  <2>. HIDE DEF before, n
  <2>6. k \in ToSet(t) /\ n \in ToSet(t) /\ k # n
    BY <2>1 DEF n
  <2>7. /\ p \in Seq(Keys) /\ IsInjective(p) /\ ToSet(p) = ToSet(t)
        /\ \A x, y \in ToSet(t) \ {k} : Above(p, x, y) <=> Above(t, x, y)
    BY <1>1, <2>5, <2>6, PlacedIs
  <2>8. Ranks(journal, k) # {}
    BY <2>1
  <2>. HIDE DEF p
  <2>. QED
    BY <1>1, <2>4, <2>7, <2>8 DEF Redrawn
<1>3. CASE ~ \E r \in Ranks(journal, k) :
              /\ {k, r.after[1]} \subseteq ToSet(t) /\ k # r.after[1]
              /\ column[k] = column[r.after[1]]
  <2>1. rankCard(t, k) = t
    BY <1>3 DEF rankCard
  <2>. QED
    BY <2>1
<1>. QED
  BY <1>2, <1>3

\* The highest of finitely many numbers.
LEMMA MaxIs ==
    ASSUME NEW S, S \in SUBSET Nat, IsFiniteSet(S), S # {}
    PROVE  Max(S) \in S
<1>. DEFINE R == {p \in S \X S : p[1] < p[2]}
<1>1. Orders(R, S)
  BY DEF Orders
<1>2. PICK m \in S : \A x \in S \ {m} : <<x, m>> \in R
  <2>. HIDE DEF R
  <2>. QED BY <1>1, LastIsThere
<1>3. \A x \in S : m >= x
  <2>1. \A x \in S : x \in Nat
    OBVIOUS
  <2>2. \A x \in S : x # m => x < m
    BY <1>2
  <2>. QED
    BY <2>1, <2>2
<1>. QED
  BY <1>3 DEF Max

\* The least of some numbers.
LEMMA LeastIsThere ==
    ASSUME NEW T \in SUBSET Nat, T # {}
    PROVE  \E m \in T : \A k \in T : m <= k
<1>1. PICK m \in T : \A k \in T : <<k, m>> \notin OpToRel(<, Nat)
  BY WFMin, NatLessThanWellFounded, Zenon
<1>2. \A k \in T : ~ (k < m)
  BY <1>1 DEF OpToRel
<1>. QED
  BY <1>2

\* One step of the fold of the ranks over an order: the key at the highest
\* position left is ranked last.
RankStep(f, s, cards, keys) ==
    IF s = {} THEN cards ELSE rankCard(f[s \ {Max(s)}], keys[Max(s)])

RankFold(f, D, cards, keys) == f = [s \in D |-> RankStep(f, s, cards, keys)]

\* There is a function that folds: for any number of keys, from the function
\* that folds one key less.
LEMMA FoldIsThere ==
    ASSUME NEW cards, NEW n \in Nat, NEW keys \in [1..n -> Keys], NEW D, D = SUBSET (1..n)
    PROVE  \E f : RankFold(f, D, cards, keys)
<1>. DEFINE folds(f, m) == /\ f = [s \in D |-> f[s]]
                           /\ \A s \in D : Cardinality(s) <= m => f[s] = RankStep(f, s, cards, keys)
            T == {m \in Nat : ~ \E f : folds(f, m)}
<1>1. ASSUME NEW s \in D PROVE IsFiniteSet(s) /\ Cardinality(s) \in Nat /\ Cardinality(s) <= n
  <2>1. IsFiniteSet(1..n) /\ Cardinality(1..n) = n
    BY FS_Interval
  <2>. DEFINE I == 1..n
  <2>2. IsFiniteSet(s) /\ Cardinality(s) <= n
    <3>1. s \in SUBSET I /\ IsFiniteSet(I) /\ Cardinality(I) = n
      BY <2>1
    <3>. HIDE DEF I
    <3>. QED BY <3>1, FS_Subset
  <2>. QED
    BY <2>2, FS_CardinalityType
<1>2. ASSUME NEW s \in D, s # {} PROVE s \ {Max(s)} \in D /\ Cardinality(s \ {Max(s)}) = Cardinality(s) - 1
  <2>1. IsFiniteSet(s) /\ s \in SUBSET Nat
    BY <1>1
  <2>2. Max(s) \in s
    BY <1>2, <2>1, MaxIs
  <2>. QED
    BY <2>1, <2>2, FS_RemoveElement
<1>3. T = {}
  <2>. SUFFICES ASSUME T # {} PROVE FALSE
    OBVIOUS
  <2>1. PICK m \in T : \A k \in T : m <= k
    <3>1. T \in SUBSET Nat
      OBVIOUS
    <3>. HIDE DEF T
    <3>. QED BY <3>1, LeastIsThere
  <2>2. m # 0
    <3>. SUFFICES ASSUME m = 0 PROVE FALSE
      OBVIOUS
    <3>. DEFINE f == [s \in D |-> cards]
    <3>1. ASSUME NEW s \in D, Cardinality(s) <= 0 PROVE f[s] = RankStep(f, s, cards, keys)
      <4>1. s = {}
        BY <1>1, <3>1, FS_EmptySet
      <4>. QED
        BY <4>1 DEF RankStep
    <3>2. f = [s \in D |-> f[s]]
      OBVIOUS
    <3>3. folds(f, m)
      BY <3>1, <3>2
    <3>. HIDE DEF f
    <3>. QED
      BY <2>1, <3>3
  <2>3. m \in Nat /\ m - 1 \in Nat /\ m - 1 \notin T
    <3>1. m \in Nat
      OBVIOUS
    <3>2. m - 1 \in Nat /\ ~ (m <= m - 1)
      BY <2>2, <3>1
    <3>. HIDE DEF T
    <3>. QED BY <2>1, <3>1, <3>2
  <2>4. PICK f : folds(f, m - 1)
    BY <2>3
  <2>. DEFINE g == [s \in D |-> RankStep(f, s, cards, keys)]
  <2>5. ASSUME NEW s \in D, Cardinality(s) <= m PROVE g[s] = RankStep(g, s, cards, keys)
    <3>1. CASE s = {}
      BY <3>1 DEF RankStep
    <3>2. CASE s # {}
      <4>. DEFINE u == s \ {Max(s)}
      <4>1. u \in D /\ Cardinality(u) <= m - 1
        <5>1. u \in D /\ Cardinality(u) = Cardinality(s) - 1 /\ Cardinality(s) \in Nat
          BY <1>1, <1>2, <3>2
        <5>. QED
          BY <2>3, <2>5, <5>1
      <4>. HIDE DEF u
      <4>2. f[u] = g[u]
        BY <2>4, <4>1
      <4>3. g[s] = rankCard(f[u], keys[Max(s)])
        BY <3>2 DEF RankStep, u
      <4>4. RankStep(g, s, cards, keys) = rankCard(g[u], keys[Max(s)])
        <5>. HIDE DEF g
        <5>. QED BY <3>2 DEF RankStep, u
      <4>. QED
        BY <4>2, <4>3, <4>4
    <3>. QED
      BY <3>1, <3>2
  <2>6. g = [s \in D |-> g[s]]
    OBVIOUS
  <2>7. folds(g, m)
    BY <2>5, <2>6
  <2>. HIDE DEF g
  <2>. QED
    BY <2>1, <2>7
<1>4. PICK f : folds(f, n)
  BY <1>3
<1>5. f = [s \in D |-> RankStep(f, s, cards, keys)]
  <2>1. \A s \in D : f[s] = RankStep(f, s, cards, keys)
    BY <1>1, <1>4
  <2>2. f = [s \in D |-> f[s]]
    BY <1>4
  <2>. QED
    BY <2>1, <2>2
<1>. QED
  BY <1>5 DEF RankFold

\* The ranks laid over an order one after the other: the same cards, and those
\* with no rank as they stood.
LEMMA RankCardsRedraw ==
    ASSUME journal \in SUBSET Rows, WellKeyed(journal), RanksSay,
           NEW cards \in Seq(Keys), IsInjective(cards)
    PROVE  Redrawn(rankCards(cards), cards)
<1>. DEFINE keys == InOrder(Keys, <)
            n == Len(keys)
            D == SUBSET (1..n)
            fold == CHOOSE f : RankFold(f, D, cards, keys)
<1>1. keys \in Seq(Keys) /\ n \in Nat /\ DOMAIN keys = 1..n /\ keys \in [1..n -> Keys]
  <2>1. keys \in Seq(Keys)
    BY KeysInOrder
  <2>. HIDE DEF keys
  <2>. QED
    BY <2>1
<1>2. rankCards(cards) = fold[1..n]
  BY <1>1, Zenon DEF rankCards, FoldLeft, MapThenFoldSet, RankStep, RankFold
<1>. HIDE DEF keys, n
<1>3. fold = [s \in D |-> RankStep(fold, s, cards, keys)]
  <2>1. n \in Nat /\ keys \in [1..n -> Keys] /\ D = SUBSET (1..n)
    BY <1>1
  <2>. HIDE DEF D
  <2>2. \E f : RankFold(f, D, cards, keys)
    BY <2>1, FoldIsThere
  <2>. QED
    BY <2>2 DEF RankFold
<1>. HIDE DEF fold
<1>. DEFINE F == {s \in D : ~ Redrawn(fold[s], cards)}
<1>4. F = {}
  <2>. SUFFICES ASSUME F # {} PROVE FALSE
    OBVIOUS
  <2>1. IsFiniteSet(1..n) /\ F \in SUBSET (SUBSET (1..n))
    BY <1>1, FS_Interval
  <2>2. PICK s \in F : \A C \in F : C \subseteq s => C = s
    <3>. DEFINE I == 1..n
    <3>1. IsFiniteSet(I) /\ F \in SUBSET (SUBSET I)
      BY <2>1
    <3>. HIDE DEF F, I
    <3>. QED BY <3>1, SmallestIsThere
  <2>3. s # {}
    <3>1. Redrawn(cards, cards)
      BY DEF Redrawn
    <3>2. {} \in D /\ fold[{}] = cards
      BY <1>3 DEF RankStep
    <3>. QED
      BY <2>2, <3>1, <3>2
  <2>. DEFINE u == s \ {Max(s)}
  <2>4. Max(s) \in s /\ u \in D /\ u # s /\ u \subseteq s
    <3>1. IsFiniteSet(s) /\ s \in SUBSET Nat
      <4>. DEFINE I == 1..n
      <4>1. IsFiniteSet(I) /\ s \in SUBSET I
        BY <2>1, <2>2
      <4>2. s \in SUBSET Nat
        BY <1>1, <4>1
      <4>. HIDE DEF I
      <4>. QED BY <4>1, <4>2, FS_Subset
    <3>. QED
      BY <2>2, <2>3, <3>1, MaxIs
  <2>5. Redrawn(fold[u], cards)
    BY <2>2, <2>4
  <2>6. fold[s] = rankCard(fold[u], keys[Max(s)])
    BY <1>3, <2>2, <2>3 DEF RankStep
  <2>. HIDE DEF u
  <2>7. Redrawn(fold[s], cards)
    BY <2>5, <2>6, RankCardRedraws
  <2>. QED
    BY <2>2, <2>7
<1>. QED
  BY <1>2, <1>4

\* The order the ranks are pushed in: the columns from left to right, and in
\* each the cards with no rank as the board has them.
LEMMA CellOrderIs ==
    ASSUME journal \in SUBSET Rows, WellKeyed(journal), RanksSay,
           board \in Seq(Keys), IsInjective(board), column \in [Keys -> Columns]
    PROVE  /\ CellOrder \in Seq(ToSet(board)) /\ IsInjective(CellOrder) /\ ToSet(CellOrder) = ToSet(board)
           /\ \A i, j \in 1..Len(CellOrder) : i < j => column[CellOrder[i]] <= column[CellOrder[j]]
           /\ \A x, y \in ToSet(board) :
                 /\ column[x] = column[y]
                 /\ Ranks(journal, x) = {} /\ Ranks(journal, y) = {}
                 => (Above(CellOrder, x, y) <=> Above(board, x, y))
<1>. DEFINE s == rankCards(board)
            S == ToSet(s)
            R == {p \in S \X S : \/ column[p[1]] < column[p[2]]
                                 \/ column[p[1]] = column[p[2]] /\ Above(s, p[1], p[2])}
            stands(d) == \A i, j \in DOMAIN d :
                            i < j => \/ column[d[i]] < column[d[j]]
                                     \/ column[d[i]] = column[d[j]] /\ Above(s, d[i], d[j])
<1>1. Redrawn(s, board)
  BY RankCardsRedraw
<1>. HIDE DEF s
<1>2. s \in Seq(Keys) /\ IsInjective(s) /\ S = ToSet(board) /\ S \subseteq Keys
  BY <1>1, SetIs DEF Redrawn
<1>3. IsFiniteSet(S)
  BY <1>2, RankOrderAssumption, FS_Subset
<1>4. \A x \in S : column[x] \in Nat
  BY <1>2, RankOrderAssumption
<1>5. Orders(R, S)
  <2>. SUFFICES ASSUME NEW x \in S, NEW y \in S, NEW z \in S
                PROVE  /\ <<x, x>> \notin R
                       /\ x # y => <<x, y>> \in R \/ <<y, x>> \in R
                       /\ <<x, y>> \in R /\ <<y, z>> \in R => <<x, z>> \in R
    BY DEF Orders
  <2>1. ~ Above(s, x, x)
    BY <1>2, AboveTotal
  <2>2. x # y => Above(s, x, y) \/ Above(s, y, x)
    BY <1>2, AboveTotal
  <2>3. Above(s, x, y) /\ Above(s, y, z) => Above(s, x, z)
    BY <1>2, AboveTotal
  <2>4. column[x] \in Nat /\ column[y] \in Nat /\ column[z] \in Nat
    BY <1>4
  <2>. HIDE DEF S
  <2>. QED
    BY <2>1, <2>2, <2>3, <2>4
<1>6. PICK t \in SetToSeqs(S) : Follows(t, R)
  <2>. HIDE DEF R, S
  <2>. QED BY <1>3, <1>5, Arrangement
<1>7. stands(t)
  BY <1>6 DEF Follows
<1>8. CellOrder = CHOOSE d \in SetToSeqs(S) : stands(d)
  BY DEF CellOrder, InOrder, s
<1>. HIDE DEF stands
<1>. DEFINE o == CellOrder
<1>. HIDE DEF o
<1>9. o \in SetToSeqs(S) /\ stands(o)
  BY <1>6, <1>7, <1>8 DEF o
<1>10. o \in Seq(S) /\ IsInjective(o) /\ ToSet(o) = S
  BY <1>3, <1>9, SeqOfSet
<1>. HIDE DEF S
<1>11. Follows(o, R)
  BY <1>9, <1>10 DEF Follows, stands
<1>12. \A x, y \in S : Above(o, x, y) <=> <<x, y>> \in R
  <2>. HIDE DEF R
  <2>. QED BY <1>3, <1>5, <1>9, <1>11, FollowsAbove
<1>13. ASSUME NEW i \in 1..Len(o), NEW j \in 1..Len(o), i < j PROVE column[o[i]] <= column[o[j]]
  <2>1. o[i] \in S /\ o[j] \in S /\ DOMAIN o = 1..Len(o)
    BY <1>10
  <2>. QED
    BY <1>4, <1>9, <1>13, <2>1 DEF stands
<1>14. ASSUME NEW x \in S, NEW y \in S, column[x] = column[y], Ranks(journal, x) = {}, Ranks(journal, y) = {}
       PROVE  Above(o, x, y) <=> Above(board, x, y)
  <2>1. Above(o, x, y) <=> Above(s, x, y)
    <3>1. ~ (column[x] < column[y])
      BY <1>4, <1>14
    <3>2. <<x, y>> \in R <=> Above(s, x, y)
      BY <1>14, <3>1
    <3>. HIDE DEF R
    <3>. QED BY <1>12, <3>2
  <2>. QED
    BY <1>1, <1>2, <1>14, <2>1 DEF Redrawn
<1>. QED
  BY <1>2, <1>10, <1>13, <1>14 DEF o

\* The top card of a column stands above the others of the column.
LEMMA TopOfColumn ==
    ASSUME NEW s \in Seq(Keys), IsInjective(s), NEW c, InColumn(s, c) # <<>>
    PROVE  LET top == Head(InColumn(s, c))
           IN  /\ top \in ToSet(s) /\ column[top] = c
               /\ \A x \in ToSet(s) : column[x] = c /\ x # top => Above(s, top, x)
<1>. DEFINE S == {k \in ToSet(s) : column[k] = c}
            d == Among(s, S)
<1>1. IsFiniteSet(Keys)
  BY RankOrderAssumption
<1>2. d = InColumn(s, c)
  BY DEF InColumn
<1>3. /\ d \in Seq(S) /\ IsInjective(d) /\ ToSet(d) = S
      /\ \A x, y \in S : Above(d, x, y) <=> Above(s, x, y)
  <2>1. S \in SUBSET ToSet(s)
    OBVIOUS
  <2>. HIDE DEF S
  <2>. QED BY <1>1, <2>1, AmongIs
<1>. HIDE DEF d
<1>4. Head(d) = d[1] /\ 1 \in 1..Len(d) /\ d[1] \in S
  <2>. HIDE DEF S
  <2>. QED BY <1>2, <1>3
<1>5. ASSUME NEW x \in S, x # d[1] PROVE Above(s, d[1], x)
  <2>. HIDE DEF S
  <2>1. PICK i \in 1..Len(d) : d[i] = x
    BY <1>3, SetIs
  <2>2. 1 < i
    BY <1>5, <2>1
  <2>3. Above(d, d[1], x)
    BY <1>3, <1>4, <2>1, <2>2, AboveIs
  <2>. QED
    BY <1>3, <1>4, <2>3
<1>. QED
  BY <1>2, <1>4, <1>5

\* NextRank is the first position from at on whose card has a rank to push.
LEMMA NextRankIs ==
    ASSUME NEW K, order \in Seq(K), at \in 1..Len(order) + 1
    PROVE  /\ NextRank = 0 => \A i \in at..Len(order) : Ranks(want, order[i]) = {}
           /\ NextRank # 0 => /\ NextRank \in at..Len(order) /\ Ranks(want, order[NextRank]) # {}
                              /\ \A i \in at..NextRank - 1 : Ranks(want, order[i]) = {}
<1>. DEFINE I == {i \in at..Len(order) : Ranks(want, order[i]) # {}}
<1>1. NextRank = IF I # {} THEN Min(I) ELSE 0
  BY DEF NextRank, SelectInSubSeq
<1>2. I \subseteq Nat \ {0}
  OBVIOUS
<1>3. CASE I = {}
  BY <1>1, <1>3
<1>4. CASE I # {}
  <2>1. PICK m \in I : \A k \in I : m <= k
    <3>. HIDE DEF I
    <3>. QED BY <1>2, <1>4, LeastIsThere
  <2>2. Min(I) \in I /\ \A k \in I : Min(I) <= k
    <3>. HIDE DEF I
    <3>. QED BY <2>1 DEF Min
  <2>3. NextRank \in I /\ \A k \in I : NextRank <= k
    BY <1>1, <1>4, <2>2
  <2>4. ASSUME NEW i \in at..NextRank - 1 PROVE Ranks(want, order[i]) = {}
    <3>1. i \in at..Len(order) /\ ~ (NextRank <= i)
      BY <2>3
    <3>. QED
      BY <2>3, <3>1
  <2>. QED
    BY <1>2, <2>3, <2>4
<1>. QED
  BY <1>3, <1>4

-----------------------------------------------------------------------------
\* The journal is well keyed, and every drop is of a card.
Tables ==
    /\ journal \in SUBSET Rows /\ WellKeyed(journal)
    /\ nextId \in Nat /\ \A r \in journal : r.id < nextId
    /\ asked \in [Keys -> RankValue \cup {None}]

\* A drop is journaled where it was asked, under the next id.
LEMMA DropKeepsTables ==
    ASSUME Tables, NEW k \in Keys, NEW n \in Keys, NEW before \in BOOLEAN, RankIssue(k, n, before)
    PROVE  Tables'
<1>. DEFINE value == <<n, before>>
            p == Put(journal, nextId, EntityRank, k, FieldRank, None, value, 0)
<1>1. /\ journal \in SUBSET Rows /\ WellKeyed(journal) /\ nextId \in Nat
      /\ \A r \in journal : r.id < nextId /\ r.id \in Nat
      /\ asked \in [Keys -> RankValue \cup {None}]
  BY DEF Tables, Rows, PendingChange
<1>2. /\ journal' = p /\ nextId' \in {nextId, nextId + 1}
      /\ nextId' = nextId => Ranks(journal, k) # {}
      /\ asked' = [asked EXCEPT ![k] = value]
  BY <1>1 DEF RankIssue
<1>3. value \in RankValue \cup {None}
  BY DEF RankValue
<1>. HIDE DEF value
<1>4. p \subseteq Rows /\ WellKeyed(p)
  <2>1. EntityRank \in {EntityRank} /\ FieldRank \in {FieldRank} /\ None \in RankValue \cup {None} /\ 0 \in Nat
    OBVIOUS
  <2>. QED
    BY <1>1, <1>3, <2>1, PutType, PutWellKeyed DEF Rows
<1>5. \A r \in p : r.id < nextId + 1
  BY <1>1, PutRows DEF Rows
<1>6. Ranks(journal, k) # {} => \A r \in p : r.id # nextId
  <2>. SUFFICES ASSUME Ranks(journal, k) # {} PROVE \A r \in p : r.id # nextId
    OBVIOUS
  <2>1. p = (journal \ Ranks(journal, k)) \cup {[r EXCEPT !.after = value] : r \in Ranks(journal, k)}
    BY DEF Put, Overwritten, Ranks
  <2>2. \A r \in Ranks(journal, k) : r \in journal /\ [r EXCEPT !.after = value].id = r.id
    BY <1>1 DEF Ranks, RowsAt, Rows, PendingChange
  <2>. HIDE DEF p
  <2>3. ASSUME NEW r \in p PROVE r.id # nextId
    <3>1. \E s \in journal : r.id = s.id
      BY <2>1, <2>2
    <3>. QED
      BY <1>1, <3>1
  <2>. QED
    BY <2>3
<1>. HIDE DEF p
<1>7. \A r \in p : r.id < nextId'
  <2>1. \A r \in p : r.id \in Nat
    BY <1>4 DEF Rows, PendingChange
  <2>. QED
    BY <1>1, <1>2, <1>5, <1>6, <2>1
<1>. QED
  BY <1>1, <1>2, <1>3, <1>4, <1>7 DEF Tables

\* The rows a pass read: the order is drawn with the same ones, and an id they
\* have is not of another card's row.
Pass ==
    /\ clearing \subseteq want /\ want \in SUBSET Rows
    /\ \A r \in want : r.id < nextId /\ \A p \in journal : p.id = r.id => p.key = r.key
    /\ job = "commit" => want = journal
    /\ job = "ranks" => shown = want
    /\ job # "ranks" => clearing = {}

Stage == Tables /\ Pass /\ NoRankLost

\* Nothing is journaled and no pass runs.
LEMMA StageAtFirst == Init => Stage
BY DEF Init, Stage, Tables, Pass, NoRankLost, WellKeyed

\* A drop is journaled where it was asked, under an id no pass has read.
LEMMA DropKeepsStage ==
    ASSUME Stage, "early" \notin Env, NEW k \in Keys, NEW n \in Keys, NEW before \in BOOLEAN,
           RankIssue(k, n, before)
    PROVE  Stage'
<1>. DEFINE value == <<n, before>>
            p == Put(journal, nextId, EntityRank, k, FieldRank, None, value, 0)
<1>1. /\ journal \in SUBSET Rows /\ WellKeyed(journal) /\ nextId \in Nat
      /\ \A r \in journal : r.id < nextId /\ r.id \in Nat
      /\ asked \in [Keys -> RankValue \cup {None}]
  BY DEF Stage, Tables, Rows, PendingChange
<1>2. /\ journal' = p /\ nextId' \in {nextId, nextId + 1}
      /\ nextId' = nextId => Ranks(journal, k) # {}
      /\ asked' = [asked EXCEPT ![k] = value]
      /\ job' = job /\ want' = want /\ clearing' = clearing /\ shown' = shown
      /\ job # "commit"
  BY DEF RankIssue, Unguarded, pass
<1>. HIDE DEF value
<1>5. \A r \in p :
         \/ r \in journal
         \/ r.key = k /\ (r.id = nextId \/ \E s \in Ranks(journal, k) : r.id = s.id)
  BY <1>1, PutRows DEF Rows, Ranks
<1>. HIDE DEF p
<1>8. Tables'
  BY DropKeepsTables DEF Stage
<1>9. Pass'
  <2>1. want \in SUBSET Rows /\ clearing \subseteq want
        /\ \A r \in want : r.id < nextId /\ r.id \in Nat /\ \A q \in journal : q.id = r.id => q.key = r.key
    BY DEF Stage, Pass, Rows, PendingChange
  <2>2. \A r \in want, q \in p : q.id = r.id => q.key = r.key
    <3>. SUFFICES ASSUME NEW r \in want, NEW q \in p, q.id = r.id PROVE q.key = r.key
      OBVIOUS
    <3>1. r.id # nextId
      BY <1>1, <2>1
    <3>2. CASE q \in journal
      BY <2>1, <3>2
    <3>3. CASE q.key = k /\ \E s \in Ranks(journal, k) : q.id = s.id
      BY <2>1, <3>3 DEF Ranks, RowsAt
    <3>. QED
      BY <1>5, <3>1, <3>2, <3>3
  <2>3. \A r \in want : r.id < nextId'
    BY <1>1, <1>2, <2>1
  <2>. QED
    BY <1>2, <2>1, <2>2, <2>3 DEF Stage, Pass
<1>10. NoRankLost'
  <2>. SUFFICES ASSUME NEW c \in Keys, asked'[c] # None PROVE \E r \in Ranks(p, c) : r.after = asked'[c]
    BY <1>2 DEF NoRankLost
  <2>1. CASE c = k
    <3>1. asked'[c] = value
      BY <1>1, <1>2, <2>1
    <3>2. \E r \in RowsAt(p, EntityRank, k, FieldRank) : r.after = value
      BY <1>1, PutIsThere DEF p, Rows
    <3>. QED
      BY <2>1, <3>1, <3>2 DEF Ranks
  <2>2. CASE c # k
    <3>1. PICK r \in Ranks(journal, c) : r.after = asked[c]
      BY <1>1, <1>2, <2>2 DEF Stage, NoRankLost
    <3>2. r \in p
      BY <2>2, <3>1, PutKeepsOthers DEF p, Ranks, RowsAt
    <3>. QED
      BY <1>1, <1>2, <2>2, <3>1, <3>2 DEF Ranks, RowsAt
  <2>. QED
    BY <2>1, <2>2
<1>. QED
  BY <1>8, <1>9, <1>10 DEF Stage

\* A discard takes the one row it names, and with it what was asked.
LEMMA DiscardKeepsStage ==
    ASSUME Stage, "early" \notin Env, NEW r \in journal, DiscardPendingChange(r)
    PROVE  Stage'
<1>1. /\ journal' = Delete(journal, {r.id}) /\ asked' = [asked EXCEPT ![r.key] = None]
      /\ nextId' = nextId /\ job' = job /\ want' = want /\ clearing' = clearing /\ shown' = shown
      /\ job # "commit"
  BY DEF DiscardPendingChange, Unguarded, pass
<1>2. /\ journal \in SUBSET Rows /\ WellKeyed(journal) /\ asked \in [Keys -> RankValue \cup {None}]
      /\ r.key \in Keys /\ journal' \in SUBSET journal /\ r.type = EntityRank /\ r.field = FieldRank
  BY <1>1 DEF Stage, Tables, Rows, PendingChange, Delete
<1>3. Tables'
  BY <1>1, <1>2, SubsetWellKeyed DEF Stage, Tables
<1>4. Pass'
  BY <1>1, <1>2 DEF Stage, Pass
<1>5. NoRankLost'
  <2>. SUFFICES ASSUME NEW c \in Keys, asked'[c] # None PROVE \E s \in Ranks(journal', c) : s.after = asked'[c]
    BY DEF NoRankLost
  <2>1. c # r.key /\ asked'[c] = asked[c]
    BY <1>1, <1>2
  <2>2. PICK s \in Ranks(journal, c) : s.after = asked[c]
    BY <2>1 DEF Stage, NoRankLost
  <2>3. s \in journal /\ s.key = c /\ s.id # r.id
    BY <1>2, <2>1, <2>2 DEF Ranks, RowsAt, WellKeyed
  <2>. QED
    BY <1>1, <2>1, <2>2, <2>3 DEF Ranks, RowsAt, Delete
<1>. QED
  BY <1>3, <1>4, <1>5 DEF Stage

\* Reached only strikes out what was asked.
LEMMA ReachedStrikes ==
    ASSUME asked \in [Keys -> RankValue \cup {None}], NEW k, Reached(k)
    PROVE  /\ asked' \in [Keys -> RankValue \cup {None}]
           /\ \A c \in Keys : asked'[c] \in {asked[c], None}
           /\ k \in Keys /\ (\E r \in Ranks(shown, k) : r.after = asked[k]) => asked'[k] = None
BY DEF Reached

\* The row of a rank that landed goes with what it asked: clearMoveRow deletes
\* it only while it holds that value.
LEMMA ClearKeepsStage == ASSUME Stage, NEW r \in clearing, ClearMove(r) PROVE Stage'
<1>1. /\ journal' = clearMoveRow(r) /\ Reached(r.key)
      /\ nextId' = nextId /\ job' = job /\ want' = want /\ clearing' = clearing \ {r} /\ shown' = shown
  BY DEF ClearMove
<1>2. /\ r \in want /\ r \in Rows /\ r.key \in Keys /\ r.type = EntityRank /\ r.field = FieldRank
      /\ job = "ranks" /\ shown = want
      /\ journal' \in SUBSET journal /\ WellKeyed(journal) /\ journal \in SUBSET Rows
      /\ asked \in [Keys -> RankValue \cup {None}]
  BY <1>1 DEF Stage, Tables, Pass, Rows, PendingChange, clearMoveRow
<1>3. /\ asked' \in [Keys -> RankValue \cup {None}]
      /\ \A c \in Keys : asked'[c] \in {asked[c], None}
      /\ (\E s \in Ranks(shown, r.key) : s.after = asked[r.key]) => asked'[r.key] = None
  BY <1>1, <1>2, ReachedStrikes
<1>4. Tables'
  BY <1>1, <1>2, <1>3, SubsetWellKeyed DEF Stage, Tables
<1>5. Pass'
  BY <1>1, <1>2 DEF Stage, Pass
<1>6. NoRankLost'
  <2>. SUFFICES ASSUME NEW c \in Keys, asked'[c] # None PROVE \E s \in Ranks(journal', c) : s.after = asked'[c]
    BY DEF NoRankLost
  <2>1. asked'[c] = asked[c]
    BY <1>3
  <2>2. PICK s \in Ranks(journal, c) : s.after = asked[c]
    BY <2>1 DEF Stage, NoRankLost
  <2>3. s \in journal /\ s.key = c
    BY <2>2 DEF Ranks, RowsAt
  <2>4. ASSUME s.id = r.id, s.after = r.after PROVE FALSE
    <3>1. r.key = c
      BY <1>2, <2>3, <2>4 DEF Stage, Pass
    <3>2. r \in Ranks(shown, r.key) /\ r.after = asked[r.key]
      BY <1>2, <2>2, <2>4, <3>1 DEF Ranks, RowsAt
    <3>. QED
      BY <1>3, <3>1, <3>2
  <2>. QED
    BY <1>1, <2>1, <2>2, <2>3, <2>4 DEF Ranks, RowsAt, clearMoveRow
<1>. QED
  BY <1>4, <1>5, <1>6 DEF Stage

\* What leaves the journal alone and strikes out no more than was reached.
LEMMA PassKeepsStage ==
    ASSUME Stage, journal' = journal, nextId' = nextId,
           asked' \in [Keys -> RankValue \cup {None}], \A c \in Keys : asked'[c] \in {asked[c], None},
           Pass'
    PROVE  Stage'
BY DEF Stage, Tables, NoRankLost

\* No step breaks it, but a drop between the two readings.
LEMMA StageKept == ASSUME Stage, "early" \notin Env, [Next]_vars PROVE Stage'
<1>0. asked \in [Keys -> RankValue \cup {None}] /\ journal \in SUBSET Rows
  BY DEF Stage, Tables
<1>1. CASE \E k, n \in Keys, before \in BOOLEAN : RankIssue(k, n, before)
  BY <1>1, DropKeepsStage
<1>2. CASE \E r \in journal : DiscardPendingChange(r)
  BY <1>2, DiscardKeepsStage
<1>3. CASE \/ \E k \in Keys, c \in Columns : ChangeColumn(k, c)
           \/ SyncBoards
           \/ \E k, n \in Keys : RemoteRank(k, n)
           \/ \E k \in Keys : RemoteMembership(k)
           \/ UNCHANGED vars
  <2>1. UNCHANGED <<journal, nextId, job, want, clearing, shown, asked>>
    BY <1>3 DEF ChangeColumn, SyncBoards, RemoteRank, RemoteMembership, vars, cache, pass
  <2>. QED
    BY <1>0, <2>1, PassKeepsStage DEF Stage, Pass
<1>4. CASE CommitStart
  <2>1. journal' = journal /\ nextId' = nextId /\ asked' = asked /\ clearing' = clearing /\ clearing = {}
        /\ want' = journal /\ job' = "commit"
    BY <1>4 DEF CommitStart, cache, Stage, Pass
  <2>2. Pass'
    BY <1>0, <2>1 DEF Stage, Pass, Tables, WellKeyed
  <2>. QED
    BY <1>0, <2>1, <2>2, PassKeepsStage
<1>5. CASE ReadOrder
  <2>1. journal' = journal /\ nextId' = nextId /\ asked' = asked /\ clearing' = clearing
        /\ want' = want /\ job = "commit" /\ job' = "ranks" /\ shown' = journal
    BY <1>5 DEF ReadOrder, cache
  <2>2. Pass'
    BY <2>1 DEF Stage, Pass
  <2>. QED
    BY <1>0, <2>1, <2>2, PassKeepsStage
<1>6. CASE ReadOrderFails \/ CommitEnds \/ Crash
  <2>1. journal' = journal /\ nextId' = nextId /\ asked' = asked /\ want' = {} /\ job' = "none"
        /\ clearing' = {}
    BY <1>6 DEF ReadOrderFails, CommitEnds, Crash, Rest, cache, Stage, Pass
  <2>2. Pass'
    BY <2>1 DEF Pass
  <2>. QED
    BY <1>0, <2>1, <2>2, PassKeepsStage
<1>7. CASE PushRank \/ PushRankFails
  <2>1. journal' = journal /\ nextId' = nextId /\ want' = want /\ job' = job /\ shown' = shown /\ job = "ranks"
        /\ (asked' = asked \/ \E k \in {order[NextRank]} : Reached(k))
        /\ (clearing' = clearing \/ \E k \in {order[NextRank]} : clearing' = Ranks(want, k))
    BY <1>7 DEF PushRank, PushRankFails, Ranking, cache
  <2>2. Pass'
    BY <2>1 DEF Stage, Pass, Ranks, RowsAt
  <2>3. asked' \in [Keys -> RankValue \cup {None}] /\ \A c \in Keys : asked'[c] \in {asked[c], None}
    BY <1>0, <2>1, ReachedStrikes
  <2>. QED
    BY <2>1, <2>2, <2>3, PassKeepsStage
<1>8. ASSUME NEW r \in clearing, ClearMove(r) PROVE Stage'
  BY <1>8, ClearKeepsStage
<1>9. ASSUME NEW r \in clearing, ClearFails(r) PROVE Stage'
  <2>1. UNCHANGED <<journal, nextId, job, want, shown, asked>> /\ clearing' = clearing \ {r}
    BY <1>9 DEF ClearFails, cache
  <2>2. Pass'
    BY <2>1 DEF Stage, Pass
  <2>. QED
    BY <1>0, <2>1, <2>2, PassKeepsStage
<1>. QED
  BY <1>1, <1>2, <1>3, <1>4, <1>5, <1>6, <1>7, <1>8, <1>9 DEF Next

\* No drop of a card is lost, on a board of any size and from any order of
\* Jira's, unless cards are dragged between the reading of the rows and the
\* reading of the order they are pushed in.
THEOREM NoDropOfACardIsLost == ASSUME "early" \notin Env PROVE Spec => []NoRankLost
<1>1. Stage => NoRankLost
  BY DEF Stage
<1>. QED
  BY <1>1, StageAtFirst, StageKept, PTL DEF Spec

-----------------------------------------------------------------------------
\* What is drawn where.
Places ==
    /\ jira \in SetToSeqs(Keys) /\ onBoard \subseteq Keys
    /\ board \in Seq(Keys) /\ IsInjective(board)
    /\ column \in [Keys -> Columns]
    /\ drops \in 0..MaxDrops /\ outside \in 0..MaxOutside

\* The rows a pass read, and how far it is.
Passing ==
    /\ job \in {"none", "commit", "ranks"}
    /\ want \subseteq Rows /\ clearing \subseteq want /\ shown \subseteq Rows /\ calm \in BOOLEAN
    /\ order \in Seq(ToSet(board)) /\ IsInjective(order)
    /\ at \in 1..Len(order) + 1
    /\ job # "ranks" => order = <<>> /\ clearing = {}

\* The last card in its place: every card below it that the pass is past failed.
LastInPlace ==
    /\ failed \subseteq {order[i] : i \in 1..at - 1} /\ \A k \in failed : Ranks(want, k) # {}
    /\ prev = None => \A i \in 1..at - 1 : order[i] \in failed
    /\ prev # None => \E m \in 1..at - 1 :
          prev = order[m] /\ prev \notin failed /\ \A i \in m + 1..at - 1 : order[i] \in failed

Typed == Tables /\ RanksSay /\ Places /\ Passing /\ LastInPlace

\* Jira has every card, once.
LEMMA JiraIs ==
    ASSUME Places
    PROVE  /\ jira \in Seq(Keys) /\ IsInjective(jira) /\ Len(jira) = Cardinality(Keys)
           /\ ToSet(jira) = Keys
BY SeqOfSet, RankOrderAssumption DEF Places

\* A card put next to another leaves Jira with the same cards.
LEMMA JiraPlaced ==
    ASSUME Places, NEW k \in Keys, NEW n \in Keys, k # n, NEW before \in BOOLEAN
    PROVE  Placed(jira, k, n, before) \in SetToSeqs(Keys)
<1>. DEFINE p == Placed(jira, k, n, before)
<1>1. p \in Seq(Keys) /\ IsInjective(p) /\ Len(p) = Cardinality(Keys)
  BY JiraIs, PlacedIs
<1>. HIDE DEF p
<1>2. p \in [1..Cardinality(Keys) -> Keys] /\ \A i, j \in 1..Cardinality(Keys) : i # j => p[i] # p[j]
  BY <1>1 DEF IsInjective
<1>. QED
  BY <1>2 DEF p, SetToSeqs

\* The types of the first states: the board is in the order of Jira.
LEMMA TypedAtFirst == Init => Typed
<1>. SUFFICES ASSUME Init PROVE Typed
  OBVIOUS
<1>1. jira \in SetToSeqs(Keys) /\ board = jira
  BY RankOrderAssumption DEF Init
<1>2. jira \in Seq(Keys) /\ IsInjective(jira)
  BY <1>1, SeqOfSet, RankOrderAssumption
<1>3. Places
  BY <1>1, <1>2, RankOrderAssumption DEF Init, Places
<1>4. Tables /\ RanksSay
  BY DEF Init, Tables, RanksSay, WellKeyed
<1>5. Passing
  <2>1. IsInjective(<<>>) /\ <<>> \in Seq(ToSet(board)) /\ Len(<<>>) = 0
    BY DEF IsInjective
  <2>2. order = <<>> /\ at = 1 /\ at \in 1..Len(order) + 1
    BY <2>1 DEF Init
  <2>3. order \in Seq(ToSet(board)) /\ IsInjective(order)
    BY <2>1, <2>2, Zenon
  <2>4. calm \in BOOLEAN
    BY DEF Init
  <2>. QED
    BY <2>2, <2>3, <2>4 DEF Init, Passing
<1>6. LastInPlace
  BY DEF Init, LastInPlace
<1>. QED
  BY <1>3, <1>4, <1>5, <1>6 DEF Typed

\* What leaves the rows, the board and the pass alone.
LEMMA PassKeepsTyped ==
    ASSUME Typed, UNCHANGED <<board, journal, nextId, asked, drops, job, pass, shown>>, calm' \in BOOLEAN,
           jira' \in SetToSeqs(Keys), onBoard' \subseteq Keys, column' \in [Keys -> Columns],
           outside' \in 0..MaxOutside
    PROVE  Typed'
<1>1. Tables' /\ RanksSay' /\ Places'
  BY DEF Typed, Tables, RanksSay, Places
<1>2. Passing' /\ LastInPlace'
  BY DEF Typed, Passing, LastInPlace, pass
<1>. QED
  BY <1>1, <1>2 DEF Typed

\* A drop changes the journal and nothing of the pass.
LEMMA DropKeepsTyped ==
    ASSUME Typed, NEW k \in Keys, NEW n \in Keys, NEW before \in BOOLEAN, RankIssue(k, n, before)
    PROVE  Typed'
<1>1. Tables'
  BY DropKeepsTables DEF Typed
<1>2. UNCHANGED <<jira, onBoard, board, column, job, want, order, at, prev, clearing, failed, outside, shown, calm>>
      /\ drops' \in 0..MaxDrops
  BY RankOrderAssumption DEF RankIssue, remote, pass, Typed, Places
<1>3. RanksSay'
  <2>. DEFINE value == <<n, before>>
              p == Put(journal, nextId, EntityRank, k, FieldRank, None, value, 0)
  <2>1. value \in RankValue
    BY DEF RankValue
  <2>. HIDE DEF value
  <2>2. \A r \in p : r \in journal \/ r.after = value
    BY PutRows DEF Typed, Tables, Rows
  <2>3. journal' = p
    BY DEF RankIssue, value
  <2>. HIDE DEF p
  <2>. QED
    BY <2>1, <2>2, <2>3 DEF Typed, RanksSay
<1>. QED
  BY <1>1, <1>2, <1>3 DEF Typed, Places, Passing, LastInPlace

\* Discards, moves between columns, and what others do in Jira.
LEMMA OutsideKeepsTyped ==
    ASSUME Typed,
           \/ \E r \in journal : DiscardPendingChange(r)
           \/ \E k \in Keys, c \in Columns : ChangeColumn(k, c)
           \/ \E k, n \in Keys : RemoteRank(k, n)
           \/ \E k \in Keys : RemoteMembership(k)
    PROVE  Typed'
<1>1. ASSUME NEW r \in journal, DiscardPendingChange(r) PROVE Typed'
  <2>1. /\ UNCHANGED <<remote, board, column, nextId, job, pass, drops, outside, shown, calm>>
        /\ journal' = Delete(journal, {r.id}) /\ asked' = [asked EXCEPT ![r.key] = None]
    BY <1>1 DEF DiscardPendingChange
  <2>2. journal' \in SUBSET journal
    BY <2>1 DEF Delete
  <2>3. Tables'
    BY <2>1, <2>2, SubsetWellKeyed DEF Typed, Tables
  <2>4. RanksSay'
    BY <2>2 DEF Typed, RanksSay
  <2>. QED
    BY <2>1, <2>3, <2>4 DEF Typed, Places, Passing, LastInPlace, remote, pass
<1>0. jira \in SetToSeqs(Keys) /\ onBoard \subseteq Keys /\ column \in [Keys -> Columns]
  BY DEF Typed, Places
<1>01. Outside => outside' \in 0..MaxOutside
  BY RankOrderAssumption DEF Outside, Typed, Places
<1>2. ASSUME NEW k \in Keys, NEW c \in Columns, ChangeColumn(k, c) PROVE Typed'
  <2>1. /\ UNCHANGED <<remote, board, journal, nextId, job, pass, asked, drops, shown>> /\ calm' \in BOOLEAN
        /\ Outside /\ column' \in [Keys -> Columns]
    BY <1>0, <1>2 DEF ChangeColumn
  <2>. QED
    BY <1>0, <1>01, <2>1, PassKeepsTyped DEF remote
<1>3. ASSUME NEW k \in Keys, NEW n \in Keys, RemoteRank(k, n) PROVE Typed'
  <2>1. jira' \in SetToSeqs(Keys)
    BY <1>3, JiraPlaced DEF RemoteRank, Typed
  <2>2. /\ UNCHANGED <<onBoard, cache, job, pass, asked, drops, shown>> /\ calm' \in BOOLEAN /\ Outside
    BY <1>3 DEF RemoteRank
  <2>. QED
    BY <1>0, <1>01, <2>1, <2>2, PassKeepsTyped DEF cache
<1>4. ASSUME NEW k \in Keys, RemoteMembership(k) PROVE Typed'
  <2>1. /\ UNCHANGED <<jira, cache, job, pass, asked, drops, shown, calm>> /\ onBoard' \subseteq Keys /\ Outside
    BY <1>0, <1>4 DEF RemoteMembership
  <2>2. calm' \in BOOLEAN
    BY <2>1 DEF Typed, Passing
  <2>. QED
    BY <1>0, <1>01, <2>1, <2>2, PassKeepsTyped DEF cache
<1>. QED
  BY <1>1, <1>2, <1>3, <1>4

\* A sync runs while no pass does.
LEMMA SyncKeepsTyped == ASSUME Typed, SyncBoards PROVE Typed'
<1>1. BoardOrder \in Seq(onBoard) /\ IsInjective(BoardOrder)
  BY JiraIs, AmongIs, RankOrderAssumption DEF Typed, Places, BoardOrder
<1>2. /\ UNCHANGED <<remote, column, journal, nextId, job, pass, asked, drops, outside, shown, calm>>
      /\ board' = BoardOrder /\ job = "none"
  BY DEF SyncBoards
<1>3. board' \in Seq(Keys) /\ IsInjective(board')
  BY <1>1, <1>2 DEF Typed, Places
<1>4. order' = <<>> /\ order = <<>>
  BY <1>2 DEF Typed, Passing, pass
<1>. QED
  BY <1>2, <1>3, <1>4 DEF Typed, Tables, RanksSay, Places, Passing, LastInPlace, remote, pass

\* A pass begins and ends with no order.
LEMMA CommitKeepsTyped == ASSUME Typed, CommitStart \/ ReadOrderFails \/ CommitEnds \/ Crash PROVE Typed'
<1>1. UNCHANGED <<remote, cache, drops, outside, asked>>
  BY DEF CommitStart, ReadOrderFails, CommitEnds, Crash
<1>2. Tables' /\ RanksSay' /\ Places'
  BY <1>1 DEF Typed, Tables, RanksSay, Places, remote, cache
<1>3. CASE CommitStart \/ ReadOrderFails
  <2>1. /\ UNCHANGED <<order, at, prev, clearing, failed, shown, calm, board>>
        /\ want' \in {journal, {}} /\ job # "ranks" /\ job' \in {"none", "commit"}
    BY <1>3 DEF CommitStart, ReadOrderFails, cache
  <2>. QED
    BY <1>2, <2>1 DEF Typed, Tables, Passing, LastInPlace
<1>4. CASE CommitEnds \/ Crash
  <2>1. Rest /\ board' = board
    BY <1>4 DEF CommitEnds, Crash, cache
  <2>2. IsInjective(<<>>) /\ <<>> \in Seq(ToSet(board)) /\ Len(<<>>) = 0
    BY DEF IsInjective
  <2>3. Passing'
    <3>1. order' = <<>> /\ at' = 1 /\ at' \in 1..Len(order') + 1
      BY <2>1, <2>2 DEF Rest
    <3>2. order' \in Seq(ToSet(board')) /\ IsInjective(order')
      BY <2>1, <2>2, <3>1, Zenon
    <3>3. calm' \in BOOLEAN
      BY <2>1 DEF Rest
    <3>. QED
      BY <2>1, <3>1, <3>2, <3>3 DEF Passing, Rest
  <2>4. LastInPlace'
    BY <2>1 DEF LastInPlace, Rest
  <2>. QED
    BY <1>2, <2>3, <2>4 DEF Typed
<1>. QED
  BY <1>3, <1>4

\* The order read is of the cards of the board.
LEMMA ReadKeepsTyped == ASSUME Typed, ReadOrder PROVE Typed'
<1>1. CellOrder \in Seq(ToSet(board)) /\ IsInjective(CellOrder)
  BY CellOrderIs DEF Typed, Tables, Places
<1>2. /\ UNCHANGED <<remote, cache, want, at, prev, clearing, failed, asked, drops, outside>>
      /\ job = "commit" /\ job' = "ranks" /\ order' = CellOrder /\ shown' = journal /\ calm' \in BOOLEAN
  BY DEF ReadOrder
<1>3. order = <<>> /\ at = 1 /\ failed = {} /\ prev = None
  BY <1>2 DEF Typed, Passing, LastInPlace
<1>4. Passing' /\ LastInPlace'
  BY <1>1, <1>2, <1>3 DEF Typed, Tables, Passing, LastInPlace, cache
<1>. QED
  BY <1>2, <1>4 DEF Typed, Tables, RanksSay, Places, remote, cache

\* What a rank is pushed after: the card of the next rank is below the last
\* one in its place, and every card between them failed.
LEMMA PushIs ==
    ASSUME Typed, Ranking, NEW i, i = NextRank
    PROVE  /\ i \in at..Len(order) /\ i \in 1..Len(order) /\ order[i] \in Keys /\ Ranks(want, order[i]) # {}
           /\ \A j \in at..i - 1 : Ranks(want, order[j]) = {}
           /\ PrevAt(i) = None => \A j \in 1..i - 1 : order[j] \in failed
           /\ PrevAt(i) # None => \E m \in 1..i - 1 :
                 /\ PrevAt(i) = order[m] /\ order[m] \notin failed
                 /\ \A j \in m + 1..i - 1 : order[j] \in failed
           /\ \A anchor \in rankAnchor(i) :
                 anchor[1] \in ToSet(order) /\ anchor[1] \in Keys /\ anchor[1] # order[i] /\ anchor[2] \in BOOLEAN
           /\ \A anchor \in rankAnchor(i) : PrevAt(i) # None => anchor = <<PrevAt(i), FALSE>>
<1>1. /\ order \in Seq(ToSet(board)) /\ IsInjective(order) /\ at \in 1..Len(order) + 1
      /\ board \in Seq(Keys) /\ NextRank # 0
  BY DEF Typed, Places, Passing, Ranking
<1>2. /\ i \in at..Len(order) /\ Ranks(want, order[i]) # {}
      /\ \A j \in at..i - 1 : Ranks(want, order[j]) = {}
  BY <1>1, NextRankIs
<1>3. /\ i \in 1..Len(order) /\ \A j \in 1..Len(order) : order[j] \in Keys /\ order[j] # None
      /\ \A j, h \in 1..Len(order) : order[j] = order[h] => j = h
  <2>1. ToSet(board) \subseteq Keys
    BY <1>1, SetIs
  <2>2. \A j \in 1..Len(order) : order[j] \in Keys /\ order[j] # None
    BY <1>1, <2>1, RankOrderAssumption
  <2>. QED
    BY <1>1, <1>2, <2>2 DEF IsInjective
<1>4. PrevAt(i) = None => i = at /\ prev = None
  <2>1. i # at => i - 1 \in 1..Len(order) /\ PrevAt(i) = order[i - 1]
    BY <1>1, <1>2 DEF PrevAt
  <2>. QED
    BY <1>3, <2>1 DEF PrevAt
<1>5. PrevAt(i) = None => \A j \in 1..i - 1 : order[j] \in failed
  BY <1>4 DEF Typed, LastInPlace
<1>6. ASSUME PrevAt(i) # None
      PROVE  \E m \in 1..i - 1 : /\ PrevAt(i) = order[m] /\ order[m] \notin failed
                                 /\ \A j \in m + 1..i - 1 : order[j] \in failed
  <2>1. CASE i = at
    BY <1>6, <2>1 DEF PrevAt, Typed, LastInPlace
  <2>2. CASE i # at
    <3>1. i - 1 \in 1..i - 1 /\ i - 1 \in 1..Len(order) /\ i - 1 >= at /\ PrevAt(i) = order[i - 1]
      BY <1>1, <1>2, <2>2 DEF PrevAt
    <3>2. order[i - 1] \notin failed
      <4>1. failed \subseteq {order[j] : j \in 1..at - 1}
        BY DEF Typed, LastInPlace
      <4>2. \A j \in 1..at - 1 : j \in 1..Len(order) /\ j # i - 1
        BY <1>1, <3>1
      <4>. QED
        BY <1>3, <3>1, <4>1, <4>2
    <3>3. \A j \in (i - 1) + 1..i - 1 : FALSE
      BY <3>1
    <3>. QED
      BY <3>1, <3>2, <3>3
  <2>. QED
    BY <2>1, <2>2
<1>7. ASSUME NEW anchor \in rankAnchor(i)
      PROVE  /\ anchor[1] \in ToSet(order) /\ anchor[1] \in Keys /\ anchor[1] # order[i] /\ anchor[2] \in BOOLEAN
             /\ PrevAt(i) # None => anchor = <<PrevAt(i), FALSE>>
  <2>1. ToSet(order) = {order[j] : j \in 1..Len(order)}
    BY <1>1, SetIs
  <2>2. CASE PrevAt(i) # None
    <3>1. anchor = <<PrevAt(i), FALSE>>
      BY <1>7, <2>2 DEF rankAnchor
    <3>2. PICK m \in 1..i - 1 : PrevAt(i) = order[m]
      BY <1>6, <2>2
    <3>3. m \in 1..Len(order) /\ m # i
      BY <1>3
    <3>. QED
      BY <1>3, <2>1, <3>1, <3>2, <3>3
  <2>3. CASE PrevAt(i) = None
    <3>1. anchor = <<order[2], TRUE>> /\ i = 1 /\ 2 \in 1..Len(order)
      <4>1. rankAnchor(i) = IF i = 1 /\ Len(order) > 1 THEN {<<order[2], TRUE>>} ELSE {}
        BY <2>3 DEF rankAnchor
      <4>2. i = 1 /\ Len(order) > 1 /\ anchor = <<order[2], TRUE>>
        BY <1>7, <4>1
      <4>. QED
        BY <1>1, <4>2
    <3>. QED
      BY <1>3, <2>1, <2>3, <3>1
  <2>. QED
    BY <2>2, <2>3
<1>. QED
  BY <1>2, <1>3, <1>5, <1>6, <1>7

\* Whether the rank landed or not, prev is the last card that did not fail.
LEMMA PushKeepsTyped == ASSUME Typed, PushRank \/ PushRankFails PROVE Typed'
<1>. DEFINE i == NextRank
            k == order[i]
<1>1. Ranking
  BY DEF PushRank, PushRankFails
<1>2. /\ i \in at..Len(order) /\ i \in 1..Len(order) /\ k \in Keys
      /\ PrevAt(i) = None => \A j \in 1..i - 1 : order[j] \in failed
      /\ PrevAt(i) # None => \E m \in 1..i - 1 :
            /\ PrevAt(i) = order[m] /\ order[m] \notin failed
            /\ \A j \in m + 1..i - 1 : order[j] \in failed
      /\ \A anchor \in rankAnchor(i) : anchor[1] \in Keys /\ anchor[1] # k /\ anchor[2] \in BOOLEAN
  BY <1>1, PushIs
<1>3. /\ UNCHANGED <<onBoard, cache, job, want, order, drops, outside, shown, calm>>
      /\ at' = i + 1
      /\ jira' = jira \/ \E anchor \in rankAnchor(i) : jira' = Placed(jira, k, anchor[1], anchor[2])
      /\ asked' = asked \/ Reached(k)
  BY DEF PushRank, PushRankFails
<1>4. /\ order \in Seq(ToSet(board)) /\ at \in 1..Len(order) + 1 /\ failed \subseteq {order[j] : j \in 1..at - 1}
      /\ \A j, h \in 1..Len(order) : order[j] = order[h] => j = h
      /\ job = "ranks" /\ None \notin Keys
  BY <1>1, RankOrderAssumption DEF Typed, Passing, LastInPlace, IsInjective, Ranking
<1>. HIDE DEF i
<1>5. jira' \in SetToSeqs(Keys)
  BY <1>2, <1>3, JiraPlaced DEF Typed, Places
<1>6. Places'
  BY <1>3, <1>5 DEF Typed, Places, cache
<1>7. Tables' /\ RanksSay'
  <2>1. asked' \in [Keys -> RankValue \cup {None}]
    <3>1. asked \in [Keys -> RankValue \cup {None}]
      BY DEF Typed, Tables
    <3>2. CASE Reached(k)
      <4>. HIDE DEF k
      <4>. QED BY <3>1, <3>2, ReachedStrikes
    <3>. QED
      BY <1>3, <3>1, <3>2
  <2>. QED
    BY <1>3, <2>1 DEF Typed, Tables, RanksSay, cache
<1>8. Passing'
  <2>1. clearing' \subseteq want
    BY DEF Typed, Passing, PushRank, PushRankFails, Ranks, RowsAt
  <2>2. at' \in 1..Len(order') + 1
    BY <1>2, <1>3, <1>4
  <2>. QED
    BY <1>3, <1>4, <2>1, <2>2 DEF Typed, Passing, cache
<1>9. \A j \in 1..at - 1 : j \in 1..at' - 1 /\ j \in 1..Len(order) /\ j # i
  BY <1>2, <1>3, <1>4
<1>10. k \notin failed /\ i \in 1..at' - 1 /\ at' - 1 = i
  BY <1>2, <1>3, <1>4, <1>9
<1>13. \A c \in failed \cup {k} : Ranks(want', c) # {}
  <2>1. Ranks(want, k) # {}
    BY <1>1, PushIs DEF i
  <2>. QED
    BY <1>3, <2>1 DEF Typed, LastInPlace
<1>11. CASE PushRank
  <2>1. failed' = failed /\ prev' = k /\ order' = order
    BY <1>11 DEF PushRank, i
  <2>2. \A j \in i + 1..at' - 1 : FALSE
    BY <1>2, <1>3, <1>4
  <2>3. failed' \subseteq {order[j] : j \in 1..at' - 1}
    BY <1>4, <1>9, <2>1
  <2>4. LastInPlace'
    BY <1>2, <1>4, <1>10, <1>13, <2>1, <2>2, <2>3 DEF LastInPlace
  <2>. QED
    BY <1>6, <1>7, <1>8, <2>4 DEF Typed
<1>12. CASE PushRankFails
  <2>1. failed' = failed \cup {k} /\ prev' = PrevAt(i) /\ order' = order
    BY <1>12 DEF PushRankFails, i
  <2>2. failed' \subseteq {order[j] : j \in 1..at' - 1}
    BY <1>4, <1>9, <1>10, <2>1
  <2>3. ASSUME PrevAt(i) = None PROVE LastInPlace'
    <3>1. \A j \in 1..at' - 1 : order'[j] \in failed'
      <4>. SUFFICES ASSUME NEW j \in 1..at' - 1 PROVE order[j] \in failed'
        BY <2>1
      <4>1. j = i \/ j \in 1..i - 1
        BY <1>2, <1>10
      <4>. QED
        BY <1>2, <2>1, <2>3, <4>1
    <3>. QED
      BY <1>13, <2>1, <2>2, <2>3, <3>1 DEF LastInPlace
  <2>4. ASSUME PrevAt(i) # None PROVE LastInPlace'
    <3>1. PICK m \in 1..i - 1 : /\ PrevAt(i) = order[m] /\ order[m] \notin failed
                                /\ \A j \in m + 1..i - 1 : order[j] \in failed
      BY <1>2, <2>4
    <3>2. m \in 1..at' - 1 /\ m \in 1..Len(order) /\ m # i
      BY <1>2, <1>10
    <3>3. order[m] \notin failed'
      BY <1>2, <1>4, <2>1, <3>1, <3>2
    <3>4. ASSUME NEW j \in m + 1..at' - 1 PROVE order[j] \in failed'
      <4>1. j = i \/ j \in m + 1..i - 1
        BY <1>2, <1>10
      <4>. QED
        BY <2>1, <3>1, <4>1
    <3>. QED
      BY <1>13, <2>1, <2>2, <2>4, <3>1, <3>2, <3>3, <3>4 DEF LastInPlace
  <2>5. LastInPlace'
    BY <2>3, <2>4
  <2>. QED
    BY <1>6, <1>7, <1>8, <2>5 DEF Typed
<1>. QED
  BY <1>11, <1>12

\* The rows of a rank that landed are cleared one by one.
LEMMA ClearKeepsTyped == ASSUME Typed, NEW r \in clearing, ClearMove(r) \/ ClearFails(r) PROVE Typed'
<1>1. /\ UNCHANGED <<remote, board, column, nextId, job, want, order, at, prev, failed, drops, outside, shown, calm>>
      /\ clearing' = clearing \ {r}
      /\ journal' \in SUBSET journal
      /\ asked' = asked \/ \E k \in {r.key} : Reached(k)
  BY DEF ClearMove, ClearFails, clearMoveRow, cache
<1>2. asked' \in [Keys -> RankValue \cup {None}]
  BY <1>1, ReachedStrikes DEF Typed, Tables
<1>3. Tables'
  BY <1>1, <1>2, SubsetWellKeyed DEF Typed, Tables
<1>4. RanksSay' /\ Places'
  BY <1>1 DEF Typed, RanksSay, Places, remote
<1>5. Passing' /\ LastInPlace'
  BY <1>1 DEF Typed, Passing, LastInPlace
<1>. QED
  BY <1>3, <1>4, <1>5 DEF Typed

\* The types are inductive.
LEMMA TypedKept == ASSUME Typed, [Next]_vars PROVE Typed'
<1>1. CASE UNCHANGED vars
  BY <1>1 DEF vars, Typed, Tables, RanksSay, Places, Passing, LastInPlace
<1>2. CASE Next
  BY <1>2, DropKeepsTyped, OutsideKeepsTyped, SyncKeepsTyped, CommitKeepsTyped, ReadKeepsTyped,
     PushKeepsTyped, ClearKeepsTyped DEF Next
<1>. QED
  BY <1>1, <1>2

\* They say all that TypeOK says.
LEMMA TypedIsTypeOK == Typed => TypeOK
<1>. SUFFICES ASSUME Typed PROVE TypeOK
  OBVIOUS
<1>1. jira \in Seq(Keys) /\ IsInjective(jira) /\ Len(jira) = Cardinality(Keys)
  BY JiraIs DEF Typed
<1>2. prev \in ToSet(order) \cup {None} /\ failed \subseteq ToSet(order)
  <2>1. ToSet(order) = {order[i] : i \in 1..Len(order)} /\ \A i \in 1..at - 1 : i \in 1..Len(order)
    BY SetIs DEF Typed, Passing
  <2>. QED
    BY <2>1 DEF Typed, LastInPlace
<1>. QED
  BY <1>1, <1>2 DEF Typed, Tables, Places, Passing, TypeOK

\* The types, for any number of cards and columns and whatever happens during a
\* pass: no order has a card twice, Jira loses none, and the pass never points
\* outside the order it read.
THEOREM TypeCorrect == Spec => []TypeOK
BY TypedAtFirst, TypedKept, TypedIsTypeOK, PTL DEF Spec

-----------------------------------------------------------------------------
\* The cards that stay where they are from now on: those with no rank to push,
\* and those whose rank landed.
Standing == {order[i] : i \in {p \in 1..Len(order) : p < at \/ Ranks(want, order[p]) = {}}} \ failed

TopUnranked(c) ==
    LET drawn == InColumn(order, c)
    IN  drawn # <<>> /\ Ranks(want, Head(drawn)) = {}

\* While Jira is as the pass found it but for the ranks it took, the columns
\* are pushed one after the other, and below an unranked top card all that
\* stand are as they were drawn.
Laid ==
    job = "ranks" /\ calm =>
        /\ \A i, j \in 1..Len(order) : i < j => column[order[i]] <= column[order[j]]
        /\ \A c \in Columns : TopUnranked(c) => AsDrawn(c, Standing)

\* The cards the pass is past are among those that stand.
LEMMA LaidIsSettled == Typed /\ Laid => SettledAsDrawn
<1>. SUFFICES ASSUME Typed, Laid, job = "ranks", calm, NEW c \in Columns, TopUnranked(c)
              PROVE  AsDrawn(c, Settled)
  BY DEF SettledAsDrawn, TopUnranked
<1>1. AsDrawn(c, Standing)
  BY DEF Laid
<1>2. order \in Seq(ToSet(board)) /\ at \in 1..Len(order) + 1
  BY DEF Typed, Passing
<1>. DEFINE last == IF NextRank = 0 THEN Len(order) ELSE NextRank - 1
<1>3. ASSUME NEW i \in 1..last PROVE i \in 1..Len(order) /\ (i < at \/ Ranks(want, order[i]) = {})
  <2>1. CASE NextRank = 0
    <3>1. \A j \in at..Len(order) : Ranks(want, order[j]) = {}
      BY <1>2, <2>1, NextRankIs
    <3>2. i \in 1..Len(order) /\ (i < at \/ i \in at..Len(order))
      BY <1>2, <1>3, <2>1
    <3>. QED
      BY <3>1, <3>2
  <2>2. CASE NextRank # 0
    <3>1. NextRank \in at..Len(order) /\ \A j \in at..NextRank - 1 : Ranks(want, order[j]) = {}
      BY <1>2, <2>2, NextRankIs
    <3>. QED
      BY <1>2, <1>3, <2>2, <3>1
  <2>. QED
    BY <2>1, <2>2
<1>4. Settled \subseteq Standing
  BY <1>3 DEF Settled, Standing
<1>. QED
  BY <1>1, <1>4 DEF AsDrawn

\* What leaves Jira, the order and the pass alone.
LEMMA LaidFrame ==
    ASSUME Laid, UNCHANGED <<jira, column, job, want, order, at, failed, calm>>
    PROVE  Laid'
BY DEF Laid, TopUnranked, InColumn, AsDrawn, Standing

\* The order as it is read: the cards with no rank stand as the board has
\* them, and Jira has the board's cards in the same order.
LEMMA ReadLays == ASSUME Typed, ReadOrder PROVE Laid'
<1>. SUFFICES ASSUME job' = "ranks", calm'
              PROVE  /\ \A i, j \in 1..Len(order') : i < j => column'[order'[i]] <= column'[order'[j]]
                     /\ \A c \in Columns : TopUnranked(c)' => AsDrawn(c, Standing)'
  BY DEF Laid
<1>1. /\ order' = CellOrder /\ want' = want /\ at' = at /\ failed' = failed /\ jira' = jira /\ column' = column
      /\ want = journal /\ board = BoardOrder
  BY DEF ReadOrder, remote, cache
<1>2. /\ CellOrder \in Seq(ToSet(board)) /\ IsInjective(CellOrder) /\ ToSet(CellOrder) = ToSet(board)
      /\ \A i, j \in 1..Len(CellOrder) : i < j => column[CellOrder[i]] <= column[CellOrder[j]]
      /\ \A x, y \in ToSet(board) :
            /\ column[x] = column[y]
            /\ Ranks(journal, x) = {} /\ Ranks(journal, y) = {}
            => (Above(CellOrder, x, y) <=> Above(board, x, y))
  BY CellOrderIs DEF Typed, Tables, Places
<1>3. at = 1
  BY DEF ReadOrder, Typed, Passing
<1>4. ToSet(board) = onBoard /\ \A x, y \in onBoard : Above(board, x, y) <=> Above(jira, x, y)
  <2>1. IsFiniteSet(Keys) /\ jira \in Seq(Keys) /\ IsInjective(jira) /\ onBoard \in SUBSET ToSet(jira)
    BY JiraIs, RankOrderAssumption DEF Typed, Places
  <2>. QED
    BY <1>1, <2>1, AmongIs DEF BoardOrder
<1>5. ASSUME NEW x \in Standing' PROVE x \in ToSet(board) /\ Ranks(journal, x) = {}
  <2>1. PICK i \in 1..Len(CellOrder) : x = CellOrder[i] /\ (i < 1 \/ Ranks(journal, CellOrder[i]) = {})
    BY <1>1, <1>3, <1>5 DEF Standing
  <2>. QED
    BY <1>2, <2>1
<1>6. ASSUME NEW c \in Columns PROVE AsDrawn(c, Standing)'
  <2>. SUFFICES ASSUME NEW j \in Standing', NEW k \in Standing', column[j] = c, column[k] = c,
                       Above(CellOrder, j, k)
                PROVE  Above(jira, j, k)
    BY <1>1 DEF AsDrawn
  <2>. QED
    BY <1>2, <1>4, <1>5
<1>. QED
  BY <1>1, <1>2, <1>6

\* A card that lands goes right below the last card in its place, which is of
\* its own column when the top card of the column is not ranked.
LEMMA PushLays == ASSUME Typed, Laid, PushRank \/ PushRankFails PROVE Laid'
<1>. DEFINE i == NextRank
            k == order[i]
<1>1. Ranking
  BY DEF PushRank, PushRankFails
<1>. SUFFICES ASSUME calm
              PROVE  Laid'
  BY DEF Laid, PushRank, PushRankFails
<1>2. /\ i \in at..Len(order) /\ i \in 1..Len(order) /\ k \in Keys /\ Ranks(want, k) # {}
      /\ \A j \in at..i - 1 : Ranks(want, order[j]) = {}
      /\ PrevAt(i) = None => \A j \in 1..i - 1 : order[j] \in failed
      /\ PrevAt(i) # None => \E m \in 1..i - 1 :
            /\ PrevAt(i) = order[m] /\ order[m] \notin failed
            /\ \A j \in m + 1..i - 1 : order[j] \in failed
      /\ \A anchor \in rankAnchor(i) : anchor[1] \in Keys /\ anchor[1] # k /\ anchor[2] \in BOOLEAN
      /\ \A anchor \in rankAnchor(i) : PrevAt(i) # None => anchor = <<PrevAt(i), FALSE>>
  BY <1>1, PushIs
<1>3. /\ UNCHANGED <<column, job, want, order, calm>> /\ at' = i + 1
  BY DEF PushRank, PushRankFails, cache
<1>4. /\ order \in Seq(Keys) /\ IsInjective(order) /\ at \in 1..Len(order) + 1
      /\ \A j, h \in 1..Len(order) : order[j] = order[h] => j = h
      /\ \A j \in 1..Len(order) : order[j] \in Keys /\ column[order[j]] \in Nat
      /\ job = "ranks" /\ failed \subseteq {order[j] : j \in 1..at - 1}
      /\ \A f \in failed : Ranks(want, f) # {}
  <2>1. order \in Seq(ToSet(board)) /\ ToSet(board) \subseteq Keys
    BY SetIs DEF Typed, Places, Passing
  <2>2. \A j \in 1..Len(order) : order[j] \in Keys /\ column[order[j]] \in Nat
    <3>1. \A j \in 1..Len(order) : order[j] \in Keys
      BY <2>1
    <3>2. \A c \in Keys : column[c] \in Nat
      BY RankOrderAssumption DEF Typed, Places
    <3>. QED
      BY <3>1, <3>2
  <2>. QED
    BY <1>1, <2>1, <2>2 DEF Typed, Passing, LastInPlace, IsInjective, Ranking
<1>5. jira \in Seq(Keys) /\ IsInjective(jira) /\ ToSet(jira) = Keys
  BY JiraIs DEF Typed
<1>. HIDE DEF i
<1>6. ASSUME NEW x \in Standing
      PROVE  \E p \in 1..Len(order) : x = order[p] /\ (p < at \/ Ranks(want, x) = {})
  BY <1>6 DEF Standing
<1>7. Standing \subseteq Keys /\ k \notin Standing
  <2>1. Standing \subseteq Keys
    BY <1>4, <1>6
  <2>2. k \in Standing => FALSE
    BY <1>2, <1>4, <1>6
  <2>. QED
    BY <2>1, <2>2
<1>8. ASSUME NEW x \in Standing', x # k PROVE x \in Standing
  <2>1. failed \subseteq failed'
    BY DEF PushRank, PushRankFails
  <2>2. PICK p \in 1..Len(order) : x = order[p] /\ (p < i + 1 \/ Ranks(want, x) = {}) /\ x \notin failed
    BY <1>3, <1>8, <2>1 DEF Standing
  <2>3. p < at \/ Ranks(want, order[p]) = {}
    <3>1. p # i
      BY <1>8, <2>2
    <3>2. p < at \/ p \in at..i - 1 \/ Ranks(want, order[p]) = {}
      BY <1>2, <1>4, <2>2, <3>1
    <3>. QED
      BY <1>2, <3>2
  <2>. QED
    BY <2>2, <2>3 DEF Standing
<1>9. \A x, y \in Keys \ {k} : Above(jira', x, y) <=> Above(jira, x, y)
  <2>1. CASE jira' = jira
    BY <2>1
  <2>2. ASSUME NEW anchor \in rankAnchor(i), jira' = Placed(jira, k, anchor[1], anchor[2])
        PROVE  \A x, y \in Keys \ {k} : Above(jira', x, y) <=> Above(jira, x, y)
    <3>1. anchor[1] \in Keys /\ anchor[1] # k /\ anchor[2] \in BOOLEAN
      BY <1>2
    <3>. QED
      BY <1>2, <1>5, <2>2, <3>1, PlacedIs
  <2>3. jira' = jira \/ \E anchor \in rankAnchor(i) : jira' = Placed(jira, k, anchor[1], anchor[2])
    BY DEF PushRank, PushRankFails, i
  <2>. QED
    BY <2>1, <2>2, <2>3
<1>10. \A p, q \in 1..Len(order) : p < q => column[order[p]] <= column[order[q]]
  BY <1>4 DEF Laid
<1>11. ASSUME NEW c \in Columns, TopUnranked(c)' PROVE AsDrawn(c, Standing)'
  <2>1. TopUnranked(c)
    BY <1>3, <1>11 DEF TopUnranked, InColumn
  <2>2. AsDrawn(c, Standing)
    BY <1>4, <2>1 DEF Laid
  <2>3. \A x, y \in Standing : column[x] = c /\ column[y] = c /\ Above(order, x, y) => Above(jira, x, y)
    BY <2>2 DEF AsDrawn
  <2>. SUFFICES ASSUME NEW x \in Standing', NEW y \in Standing', column[x] = c, column[y] = c,
                       Above(order, x, y)
                PROVE  Above(jira', x, y)
    BY <1>3 DEF AsDrawn
  <2>4. CASE x # k /\ y # k
    BY <1>7, <1>8, <1>9, <2>3, <2>4
  <2>5. CASE x = k \/ y = k
    <3>1. PushRank /\ k \notin failed' /\ column[k] = c
      <4>1. k \notin failed'
        BY <1>3, <2>5 DEF Standing
      <4>. QED
        BY <2>5, <4>1 DEF PushRank, PushRankFails, i
    <3>. DEFINE top == Head(InColumn(order, c))
    <3>2. /\ top \in ToSet(order) /\ column[top] = c /\ Ranks(want, top) = {}
          /\ k # top => Above(order, top, k)
      <4>1. InColumn(order, c) # <<>> /\ Ranks(want, top) = {} /\ k \in ToSet(order)
        BY <1>2, <1>4, <2>1, SetIs DEF TopUnranked
      <4>. QED
        BY <1>4, <3>1, <4>1, TopOfColumn
    <3>. HIDE DEF top
    <3>3. PICK h \in 1..Len(order) : order[h] = top
      BY <1>4, <3>2, SetIs
    <3>4. h < i /\ h \in 1..i - 1 /\ top \notin failed
      <4>1. k # top
        BY <1>2, <3>2
      <4>2. h < i
        BY <1>2, <1>4, <3>2, <3>3, <4>1, AboveIs
      <4>. QED
        BY <1>2, <1>4, <3>2, <4>2
    <3>5. PrevAt(i) # None
      BY <1>2, <3>3, <3>4
    <3>6. PICK m \in 1..i - 1 : /\ PrevAt(i) = order[m] /\ order[m] \notin failed
                                /\ \A j \in m + 1..i - 1 : order[j] \in failed
      BY <1>2, <3>5
    <3>. DEFINE p == order[m]
    <3>7. m \in 1..Len(order) /\ m # i /\ p \in Keys /\ p # k
      BY <1>2, <1>4
    <3>8. column[p] = c
      <4>1. h <= m
        <5>. SUFFICES ASSUME ~ (h <= m) PROVE FALSE
          OBVIOUS
        <5>1. h \in m + 1..i - 1
          BY <3>4
        <5>. QED
          BY <3>3, <3>4, <3>6, <5>1
      <4>2. column[top] <= column[p]
        <5>1. h = m \/ h < m
          BY <4>1
        <5>2. h = m => column[top] <= column[p]
          BY <1>4, <3>3, <3>7
        <5>. QED
          BY <1>10, <3>3, <3>7, <5>1, <5>2
      <4>3. column[p] <= column[k]
        BY <1>2, <1>10, <3>7
      <4>4. column[p] \in Nat /\ column[top] \in Nat
        BY <1>4, <3>3, <3>7
      <4>. QED
        BY <3>1, <3>2, <4>2, <4>3, <4>4
    <3>9. p \in Standing
      <4>1. m < at \/ m \in at..i - 1
        BY <1>2, <1>4
      <4>. QED
        BY <1>2, <3>6, <3>7, <4>1 DEF Standing
    <3>10. jira' = Placed(jira, k, p, FALSE)
      <4>1. PICK anchor \in rankAnchor(i) : jira' = Placed(jira, k, anchor[1], anchor[2])
        BY <3>1 DEF PushRank, i
      <4>2. anchor = <<p, FALSE>>
        BY <1>2, <3>5, <3>6
      <4>. QED
        BY <4>1, <4>2
    <3>. HIDE DEF p
    <3>11. /\ jira' \in Seq(Keys) /\ IsInjective(jira') /\ ToSet(jira') = Keys
           /\ \A z \in Keys \ {k} : Above(jira', z, k) <=> z = p \/ Above(jira, z, p)
      <4>1. k \in ToSet(jira) /\ p \in ToSet(jira) /\ k # p
        BY <1>2, <1>5, <3>7
      <4>2. LET t == Placed(jira, k, p, FALSE)
            IN  /\ t \in Seq(Keys) /\ IsInjective(t) /\ ToSet(t) = ToSet(jira)
                /\ \A z \in ToSet(jira) \ {k} : Above(t, z, k) <=> z = p \/ Above(jira, z, p)
        <5>. HIDE DEF k
        <5>. QED
          BY <1>5, <4>1, PlacedBelow
      <4>. QED
        BY <1>5, <3>10, <4>2
    <3>12. CASE y = k
      <4>1. x # k
        <5>1. k \in ToSet(order)
          BY <1>2, <1>4, SetIs
        <5>. QED
          BY <1>4, <2>5, <3>12, <5>1, AboveTotal
      <4>2. x \in Standing
        BY <1>8, <4>1
      <4>3. PICK a \in 1..Len(order) : order[a] = x
        BY <1>6, <4>2
      <4>4. a < i
        BY <1>2, <1>4, <3>12, <4>3, AboveIs
      <4>5. x \notin failed
        BY <4>2 DEF Standing
      <4>6. a <= m
        <5>. SUFFICES ASSUME ~ (a <= m) PROVE FALSE
          OBVIOUS
        <5>1. a \in m + 1..i - 1
          BY <1>2, <4>4
        <5>. QED
          BY <3>6, <4>3, <4>5, <5>1
      <4>7. CASE a = m
        BY <1>7, <3>11, <3>12, <4>1, <4>2, <4>3, <4>7 DEF p
      <4>8. CASE a < m
        <5>1. Above(order, x, p)
          BY <1>4, <3>7, <4>3, <4>8, AboveIs DEF p
        <5>2. Above(jira, x, p)
          BY <2>3, <3>8, <3>9, <4>2, <5>1
        <5>. QED
          BY <1>7, <3>11, <3>12, <4>1, <4>2, <5>2
      <4>. QED
        BY <4>6, <4>7, <4>8
    <3>13. CASE x = k
      <4>1. y # k
        <5>1. k \in ToSet(order)
          BY <1>2, <1>4, SetIs
        <5>. QED
          BY <1>4, <2>5, <3>13, <5>1, AboveTotal
      <4>2. y \in Standing
        BY <1>8, <4>1
      <4>3. PICK b \in 1..Len(order) : order[b] = y
        BY <1>6, <4>2
      <4>4. i < b /\ m < b
        <5>1. i < b
          BY <1>2, <1>4, <3>13, <4>3, AboveIs
        <5>. QED
          BY <1>2, <5>1
      <4>5. Above(order, p, y) /\ y # p
        <5>1. Above(order, p, y)
          BY <1>4, <3>7, <4>3, <4>4, AboveIs DEF p
        <5>. QED
          BY <1>4, <3>7, <4>3, <4>4, <5>1 DEF p
      <4>6. Above(jira, p, y)
        BY <2>3, <3>8, <3>9, <4>2, <4>5
      <4>7. ~ Above(jira, y, p)
        BY <1>5, <1>7, <3>7, <4>2, <4>5, <4>6, AboveTotal
      <4>8. ~ Above(jira', y, k)
        BY <1>7, <3>11, <4>1, <4>2, <4>5, <4>7
      <4>. QED
        BY <1>2, <1>7, <3>11, <3>13, <4>1, <4>2, <4>8, AboveTotal
    <3>. QED
      BY <2>5, <3>12, <3>13
  <2>. QED
    BY <2>4, <2>5
<1>12. \A p, q \in 1..Len(order') : p < q => column'[order'[p]] <= column'[order'[q]]
  BY <1>3, <1>10
<1>. QED
  BY <1>11, <1>12 DEF Laid

\* Every other step leaves what was laid, or ends the claim.
LEMMA LaidKept == ASSUME Typed, Laid, [Next]_vars PROVE Laid'
<1>1. CASE UNCHANGED vars
  BY <1>1, LaidFrame DEF vars
<1>2. ASSUME NEW k \in Keys, NEW n \in Keys, NEW before \in BOOLEAN, RankIssue(k, n, before) PROVE Laid'
  BY <1>2, LaidFrame DEF RankIssue, remote, pass
<1>3. ASSUME NEW r \in journal, DiscardPendingChange(r) PROVE Laid'
  BY <1>3, LaidFrame DEF DiscardPendingChange, remote, pass
<1>4. CASE \/ \E k \in Keys, c \in Columns : ChangeColumn(k, c)
           \/ \E k, n \in Keys : RemoteRank(k, n)
  BY <1>4 DEF ChangeColumn, RemoteRank, Laid
<1>5. ASSUME NEW k \in Keys, RemoteMembership(k) PROVE Laid'
  BY <1>5, LaidFrame DEF RemoteMembership, cache, pass
<1>6. CASE SyncBoards \/ CommitStart \/ ReadOrderFails \/ CommitEnds \/ Crash
  BY <1>6 DEF SyncBoards, CommitStart, ReadOrderFails, CommitEnds, Crash, Rest, Laid
<1>7. ASSUME NEW r \in clearing, ClearMove(r) \/ ClearFails(r) PROVE Laid'
  BY <1>7, LaidFrame DEF ClearMove, ClearFails, remote, cache
<1>. QED
  BY <1>1, <1>2, <1>3, <1>4, <1>5, <1>6, <1>7, ReadLays, PushLays DEF Next

\* For any number of cards and columns, from any order of Jira, and whatever
\* fails or is lost: what Jira took of a pass stands in the order the board
\* showed, in every column whose top card was not itself ranked.
THEOREM RanksLandAsDrawn == Spec => []SettledAsDrawn
<1>1. Init => Laid
  BY DEF Init, Laid
<1>2. Typed /\ Laid /\ [Next]_vars => Typed' /\ Laid'
  BY TypedKept, LaidKept
<1>. QED
  BY <1>1, <1>2, TypedAtFirst, LaidIsSettled, PTL DEF Spec
=============================================================================
