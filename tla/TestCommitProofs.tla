-------------------------- MODULE TestCommitProofs --------------------------
(***************************************************************************)
(* What TestCommit promises for every Test, every set of texts and fields  *)
(* and every mix of disturbances: its types, that what pends is what the   *)
(* user sees, that a Commit replaces nothing unseen, and that what it      *)
(* clears stands in Jira.                                                  *)
(***************************************************************************)
EXTENDS TestCommit, JournalProofs, FiniteSetTheorems

-----------------------------------------------------------------------------
\* The invariant, in parts.  First what each type of row looks like.
Distinct(s) == \A k, l \in DOMAIN s : s[k] = s[l] => k = l

Shape(r) ==
    /\ r \in Row /\ r.id > 0
    /\ r.type = "test_case" =>
          r.key = TestKey /\ r.field \in Fields /\ r.before \in Texts /\ r.after \in Mine
    /\ r.type = "test_step" => r.field = "action" /\ r.before \in Texts /\ r.after \in Mine
    /\ r.type = "test_step_delete" => r.field = "step" /\ r.before \in Nat \X Texts /\ r.after = Blank
    /\ r.type = "test_step_add" =>
          r.field = "step" /\ r.key < 0 /\ r.before = Blank /\ r.after \in Nat \X (Mine \cup {Blank})
    /\ r.type = "test_step_order" =>
          /\ r.key = TestKey /\ r.field = "order"
          /\ r.before \in Seq(Int) /\ r.after \in Seq(Int)
          /\ Distinct(r.before) /\ Distinct(r.after)

\* A step is a placeholder or one of the b steps Xray has numbered.
Known(s, b) == s \in Int /\ s # 0 /\ s <= b
Names(r, b) ==
    /\ r.type \in {"test_step", "test_step_delete", "test_step_add"} => Known(r.key, b)
    /\ r.type = "test_step_order" =>
          /\ \A k \in DOMAIN r.before : Known(r.before[k], b)
          /\ \A k \in DOMAIN r.after : Known(r.after[k], b)

\* A table of rows, of the first n ids.
Table(j, n, b) ==
    /\ IsFiniteSet(j) /\ WellKeyed(j)
    /\ \A r \in j : Shape(r) /\ r.id <= n /\ Names(r, b)

\* The Test in Jira, and in the cache.
Listing(s, n, b) ==
    /\ s \in Seq(JiraStep)
    /\ \A k, l \in DOMAIN s : s[k].id = s[l].id => k = l
    /\ \A k \in DOMAIN s : s[k].id \in 1..b /\ s[k].row <= n
Remotes(t, n, b) ==
    t \in [ver: Nat, field: [Fields -> Texts], steps: Seq(JiraStep)] /\ Listing(t.steps, n, b)

Cached(t, ss, b) ==
    /\ t \in [ver: Nat, field: [Fields -> Texts]]
    /\ IsFiniteSet(DOMAIN ss) /\ ss \in [DOMAIN ss -> Step]
    /\ \A s \in DOMAIN ss : Known(s, b)

\* What a conflict holds against each row.
Held(c, n, b) ==
    /\ Shape(c.row) /\ Names(c.row, b) /\ c.row.id <= n
    /\ c.row.type # "test_step_add"
    /\ c.row.type \in {"test_case", "test_step"} => c.remote \in Texts
    /\ c.row.type = "test_step_delete" => c.remote \in Nat \X Texts
    /\ c.row.type = "test_step_order" => c.remote \in Seq(Int)
Conflicting(c, n, b) ==
    c # None => /\ c.ver \in Nat /\ IsFiniteSet(c.held)
                /\ \A h \in c.held : Held(h, n, b)

\* What the phases have before them.
Phases ==
    /\ pc \in {"idle", "check", "scan", "moves", "clear", "rebase"} => left = {}
    /\ pc = "fields" => left = FieldRows(rows)
    /\ pc = "status" => left = StatusRows(rows)
    /\ pc = "deletes" => left \subseteq OfType(rows, "test_step_delete")
    /\ pc = "edits" => left \subseteq OfType(rows, "test_step")
    /\ pc = "adds" => left \subseteq OfType(rows, "test_step_add")
    /\ pc = "moves" => /\ OfType(rows, "test_step_order") # {}
                       /\ moves \subseteq Stay(QueuedOrder)
    /\ pc # "moves" => moves = {}
    /\ pc # "idle" => conflict = None

Shapes ==
    /\ Remotes(jira, lastRow, born) /\ Cached(test, steps, born)
    /\ Table(pending, lastRow, born) /\ Table(rows, lastRow, born)
    /\ Conflicting(conflict, lastRow, born)
    /\ born \in Nat /\ lastRow \in Nat /\ acts \in Nat /\ version \in Nat /\ only \in BOOLEAN
    /\ pc \in {"idle", "check", "scan", "fields", "status", "deletes", "edits", "adds", "moves", "clear", "rebase"}
    /\ pc = "idle" => rows = {}
    /\ left \subseteq rows
    /\ idMap \in [DOMAIN idMap -> 1..born] /\ \A s \in DOMAIN idMap : s \in Int /\ s < 0
    /\ content \in [DOMAIN content -> Texts]
    /\ moves \subseteq Nat
    /\ met \subseteq Met
    /\ Phases

-----------------------------------------------------------------------------
\* Finite sets, and sets of numbers.

\* The values of a function.
LEMMA FiniteValues ==
    ASSUME NEW S, IsFiniteSet(S), NEW f, DOMAIN f = S, f = [x \in S |-> f[x]]
    PROVE  IsFiniteSet({f[x] : x \in S})
<1>. DEFINE T == {f[x] : x \in S}
<1>1. f \in Surjection(S, T)
  BY DEF Surjection
<1>. HIDE DEF T
<1>. QED
  BY <1>1, FS_Surjection DEF T

\* The least of some numbers.
LEMMA LeastIs ==
    ASSUME NEW T \in SUBSET Nat, T # {}
    PROVE  \E m \in T : \A k \in T : m <= k
<1>1. PICK m \in T : \A k \in T : <<k, m>> \notin OpToRel(<, Nat)
  BY WFMin, NatLessThanWellFounded, Zenon
<1>2. \A k \in T : ~ (k < m)
  BY <1>1 DEF OpToRel
<1>. QED
  BY <1>2

\* The greatest of finitely many numbers: fewest are above it.
LEMMA GreatestIs ==
    ASSUME NEW T \in SUBSET Nat, T # {}, IsFiniteSet(T)
    PROVE  \E m \in T : \A k \in T : k <= m
<1>. DEFINE above(x) == {y \in T : y > x}
            C == {Cardinality(above(x)) : x \in T}
<1>1. \A x \in T : IsFiniteSet(above(x)) /\ Cardinality(above(x)) \in Nat
  BY FS_Subset, FS_CardinalityType
<1>2. C \in SUBSET Nat /\ C # {}
  BY <1>1
<1>3. PICK n \in C : \A k \in C : n <= k
  <2>. HIDE DEF C
  <2>. QED BY <1>2, LeastIs
<1>4. PICK m \in T : n = Cardinality(above(m))
  OBVIOUS
<1>5. ASSUME NEW k \in T, ~ (k <= m) PROVE FALSE
  <2>0. k \in Nat /\ m \in Nat /\ \A y \in T : y \in Nat
    OBVIOUS
  <2>1. k \in above(m) /\ above(k) \subseteq above(m) /\ k \notin above(k)
    <3>1. m < k
      BY <1>5, <2>0
    <3>2. \A y \in T : y > k => y > m
      BY <2>0, <3>1
    <3>3. k \in above(m)
      BY <3>1
    <3>4. above(k) \subseteq above(m)
      BY <3>2
    <3>5. k \notin above(k)
      BY <2>0
    <3>. QED
      BY <3>3, <3>4, <3>5
  <2>2. IsFiniteSet(above(m)) /\ IsFiniteSet(above(k)) /\ Cardinality(above(m)) \in Nat /\ Cardinality(above(k)) \in Nat
    BY <1>1
  <2>. HIDE DEF above
  <2>3. Cardinality(above(k)) <= Cardinality(above(m)) /\ Cardinality(above(k)) # Cardinality(above(m))
    BY <2>1, <2>2, FS_Subset
  <2>4. n <= Cardinality(above(k))
    BY <1>3
  <2>. QED
    BY <1>4, <2>2, <2>3, <2>4
<1>. QED
  BY <1>5

\* nextTempStepID finds a placeholder no cached step has.
LEMMA NextTempStepIDIs ==
    ASSUME IsFiniteSet(DOMAIN steps)
    PROVE  NextTempStepID \in Int /\ NextTempStepID < 0 /\ NextTempStepID \notin DOMAIN steps
<1>. DEFINE D == DOMAIN steps
            n == Cardinality(D)
            I == -(n + 1)..-1
            Free(s) == s \notin DOMAIN steps /\ \A e \in (s + 1)..-1 : e \in DOMAIN steps
            T == {-s : s \in I \ D}
<1>1. n \in Nat
  BY FS_CardinalityType
<1>2. IsFiniteSet(I) /\ Cardinality(I) = n + 1
  <2>1. -(n + 1) \in Int /\ -1 \in Int /\ ~ (-(n + 1) > -1) /\ -1 - (-(n + 1)) + 1 = n + 1
    BY <1>1
  <2>. QED
    BY <2>1, FS_Interval
<1>3. ~ (I \subseteq D)
  <2>. HIDE DEF I, D
  <2>1. I \subseteq D => Cardinality(I) <= Cardinality(D)
    BY FS_Subset DEF D
  <2>. QED
    BY <1>1, <1>2, <2>1
<1>4. T \in SUBSET Nat /\ T # {}
  BY <1>1, <1>3
<1>5. PICK m \in T : \A k \in T : m <= k
  <2>. HIDE DEF T
  <2>. QED BY <1>4, LeastIs
<1>6. -m \in I /\ -m \notin D
  BY <1>1, <1>5
<1>7. ASSUME NEW e \in (-m + 1)..-1 PROVE e \in D
  <2>1. e \in I
    BY <1>1, <1>6
  <2>2. e \notin D => -e \in T
    BY <2>1
  <2>3. ~ (m <= -e) /\ m \in Int
    BY <1>4, <1>5
  <2>. QED
    BY <1>5, <2>2, <2>3
<1>8. \E s \in I : Free(s)
  BY <1>6, <1>7
<1>9. NextTempStepID \in I /\ Free(NextTempStepID)
  BY <1>8 DEF NextTempStepID
<1>. QED
  BY <1>1, <1>9

\* A new step is put after the others.
LEMMA NextIdxIs ==
    ASSUME IsFiniteSet(DOMAIN steps), \A s \in DOMAIN steps : steps[s].idx \in Nat
    PROVE  NextIdx \in Nat /\ NextIdx > 0 /\ \A s \in DOMAIN steps : steps[s].idx < NextIdx
<1>1. CASE DOMAIN steps = {}
  BY <1>1 DEF NextIdx
<1>2. CASE DOMAIN steps # {}
  <2>. DEFINE Idx(s) == steps[s].idx
              T == {Idx(s) : s \in DOMAIN steps}
  <2>1. T \in SUBSET Nat /\ T # {}
    BY <1>2
  <2>2. IsFiniteSet(T)
    <3>. DEFINE g == [s \in DOMAIN steps |-> steps[s].idx]
    <3>1. T = {g[s] : s \in DOMAIN steps} /\ DOMAIN g = DOMAIN steps /\ g = [s \in DOMAIN steps |-> g[s]]
      OBVIOUS
    <3>. HIDE DEF T, g
    <3>. QED BY <3>1, FiniteValues
  <2>3. \E m \in T : \A k \in T : k <= m
    <3>. HIDE DEF T
    <3>. QED BY <2>1, <2>2, GreatestIs
  <2>. DEFINE P(n) == \A s \in DOMAIN steps : steps[s].idx <= n
  <2>4. \E n \in T : P(n)
    BY <2>3
  <2>5. (CHOOSE n \in T : P(n)) \in T /\ P(CHOOSE n \in T : P(n))
    BY <2>4
  <2>6. NextIdx = (CHOOSE n \in T : P(n)) + 1
    BY <1>2 DEF NextIdx
  <2>7. \E n \in Nat : NextIdx = n + 1 /\ P(n)
    <3>. HIDE DEF P, T
    <3>. QED BY <2>1, <2>5, <2>6
  <2>. QED
    BY <2>7
<1>. QED
  BY <1>1, <1>2

-----------------------------------------------------------------------------
\* Tables of rows.

\* What RowsAt asks of a row.
LEMMA AtPlace ==
    ASSUME NEW j, NEW type, NEW key, NEW field, NEW r
    PROVE  r \in RowsAt(j, type, key, field)
               <=> r \in j /\ r.type = type /\ r.key = key /\ r.field = field
BY DEF RowsAt

LEMMA FiniteMapped ==
    ASSUME NEW j, IsFiniteSet(j), NEW f, f = [r \in j |-> f[r]], NEW n, n = {f[r] : r \in j}
    PROVE  IsFiniteSet(n)
BY FiniteValues, DOMAIN f = j

LEMMA TableGrows ==
    ASSUME NEW j, NEW m \in Int, NEW n \in Int, m <= n, NEW a \in Int, NEW b \in Int, a <= b, Table(j, m, a)
    PROVE  Table(j, n, b)
<1>1. \A r \in j : r.id \in Nat /\ r.key \in Int
  BY DEF Table, Shape, Row, PendingChange
<1>2. \A r \in j : r.type = "test_step_order" => r.before \in Seq(Int) /\ r.after \in Seq(Int)
  BY DEF Table, Shape
<1>3. \A s : Known(s, a) => Known(s, b)
  BY DEF Known
<1>. QED
  BY <1>1, <1>2, <1>3 DEF Table, Names

LEMMA TableSubset ==
    ASSUME NEW j, NEW n, NEW b, Table(j, n, b), NEW S, S \subseteq j
    PROVE  Table(S, n, b)
<1>1. IsFiniteSet(S)
  BY FS_Subset DEF Table
<1>2. WellKeyed(S)
  BY DEF Table, WellKeyed
<1>. QED
  BY <1>1, <1>2 DEF Table

LEMMA DeleteIs ==
    ASSUME NEW j, NEW ids
    PROVE  Delete(j, ids) \subseteq j /\ \A r \in j : r \in Delete(j, ids) <=> r.id \notin ids
BY DEF Delete

\* A row with other values of the same kind.
LEMMA RowWith ==
    ASSUME NEW r, Shape(r), NEW v \in Nat
    PROVE  /\ Shape([r EXCEPT !.base = v])
           /\ \A b : Names(r, b) => Names([r EXCEPT !.base = v], b)
           /\ LET q == [r EXCEPT !.base = v]
              IN  /\ q.id = r.id /\ q.type = r.type /\ q.key = r.key /\ q.field = r.field
                  /\ q.before = r.before /\ q.after = r.after /\ q.base = v
<1>. DEFINE q == [r EXCEPT !.base = v]
<1>1. r \in Row
  BY DEF Shape
<1>2. /\ q \in Row /\ q.id = r.id /\ q.type = r.type /\ q.key = r.key /\ q.field = r.field
      /\ q.before = r.before /\ q.after = r.after /\ q.base = v
  BY <1>1 DEF Row, PendingChange
<1>. HIDE DEF q
<1>3. Shape(q)
  BY <1>2 DEF Shape
<1>4. \A b : Names(r, b) => Names(q, b)
  BY <1>2 DEF Names
<1>. QED
  BY <1>2, <1>3, <1>4 DEF q

\* A table whose rows are changed one by one, each at its place.
LEMMA TableMapped ==
    ASSUME NEW j, NEW n, NEW b, Table(j, n, b),
           NEW f, f = [r \in j |-> f[r]], NEW k, k = {f[r] : r \in j},
           \A r \in j : /\ Shape(f[r]) /\ Names(f[r], b)
                        /\ f[r].id = r.id /\ f[r].type = r.type /\ f[r].key = r.key /\ f[r].field = r.field
    PROVE  Table(k, n, b)
<1>1. IsFiniteSet(k)
  BY FiniteMapped DEF Table
<1>2. WellKeyed(k)
  BY DEF Table, WellKeyed
<1>. QED
  BY <1>1, <1>2 DEF Table

\* RebaseTestConflict keeps a table, and all of its rows but their base.
LEMMA RebasedIs ==
    ASSUME NEW j, NEW n, NEW b, Table(j, n, b), NEW v \in Nat
    PROVE  /\ Table(Rebased(j, v), n, b)
           /\ \A r \in Rebased(j, v) : r.base = v /\ \E q \in j :
                 /\ q.id = r.id /\ q.type = r.type /\ q.key = r.key /\ q.field = r.field
                 /\ q.before = r.before /\ q.after = r.after
           /\ \A q \in j : \E r \in Rebased(j, v) :
                 /\ q.id = r.id /\ q.type = r.type /\ q.key = r.key /\ q.field = r.field
                 /\ q.before = r.before /\ q.after = r.after
<1>. DEFINE f == [r \in j |-> [r EXCEPT !.base = v]]
<1>0. \A r \in j : Shape(r) /\ Names(r, b)
  BY DEF Table
<1>1. \A r \in j :
          /\ Shape(f[r]) /\ Names(f[r], b)
          /\ f[r].id = r.id /\ f[r].type = r.type /\ f[r].key = r.key /\ f[r].field = r.field
          /\ f[r].before = r.before /\ f[r].after = r.after /\ f[r].base = v
  BY <1>0, RowWith
<1>2. Rebased(j, v) = {f[r] : r \in j} /\ f = [r \in j |-> f[r]]
  BY DEF Rebased
<1>. HIDE DEF f
<1>3. Table(Rebased(j, v), n, b)
  BY <1>1, <1>2, TableMapped
<1>. QED
  BY <1>1, <1>2, <1>3

\* A row with another value of the kind a row at its place has.
LEMMA RowAsking ==
    ASSUME NEW r, Shape(r), NEW b, Names(r, b), NEW p, Shape(p), Names(p, b), p.type = r.type
    PROVE  LET q == [r EXCEPT !.after = p.after]
           IN  /\ Shape(q) /\ Names(q, b)
               /\ q.id = r.id /\ q.type = r.type /\ q.key = r.key /\ q.field = r.field
               /\ q.before = r.before /\ q.after = p.after /\ q.base = r.base
<1>. DEFINE q == [r EXCEPT !.after = p.after]
<1>1. r \in Row /\ p \in Row
  BY DEF Shape
<1>2. /\ q \in Row /\ q.id = r.id /\ q.type = r.type /\ q.key = r.key /\ q.field = r.field
      /\ q.before = r.before /\ q.after = p.after /\ q.base = r.base
  BY <1>1 DEF Row, PendingChange
<1>. HIDE DEF q
<1>3. Shape(q)
  BY <1>2 DEF Shape
<1>4. Names(q, b)
  BY <1>2 DEF Names
<1>. QED
  BY <1>2, <1>3, <1>4 DEF q

LEMMA TableRows ==
    ASSUME NEW j, NEW n, NEW b, Table(j, n, b)
    PROVE  j \in SUBSET PendingChange(Types, Int, Fields \cup {"action", "step", "order"}, Values)
BY DEF Table, Shape, Row

\* Queue keeps a table, with an id more.
LEMMA UpsertTable ==
    ASSUME NEW j, NEW n \in Nat, NEW b, Table(j, n, b),
           NEW type, NEW key, NEW field, NEW current, NEW value, NEW base,
           NEW p, p = [id |-> n + 1, type |-> type, key |-> key, field |-> field,
                       before |-> current, after |-> value, base |-> base],
           Shape(p), Names(p, b)
    PROVE  Table(Upsert(j, n + 1, type, key, field, current, value, base), n + 1, b)
<1>. DEFINE u == Upsert(j, n + 1, type, key, field, current, value, base)
            old == RowsAt(j, type, key, field)
<1>0. /\ \A r \in j : Shape(r) /\ Names(r, b) /\ r.id \in Nat /\ r.id <= n
      /\ IsFiniteSet(j) /\ WellKeyed(j)
  BY DEF Table, Shape, Row, PendingChange
<1>00. p.id = n + 1 /\ p.type = type /\ p.key = key /\ p.field = field /\ p.after = value
  OBVIOUS
<1>1. WellKeyed(u)
  <2>1. \A r \in j : r.id < n + 1
    BY <1>0
  <2>. QED BY <1>0, <2>1, TableRows, UpsertWellKeyed
<1>2. CASE old = {}
  <2>1. u = j \cup {p}
    BY <1>2 DEF Upsert, Inserted
  <2>2. IsFiniteSet(u)
    BY <1>0, <2>1, FS_AddElement
  <2>. HIDE DEF u
  <2>3. \A r \in u : Shape(r) /\ r.id <= n + 1 /\ Names(r, b)
    BY <1>0, <1>00, <2>1
  <2>. QED
    BY <1>1, <2>2, <2>3 DEF Table, u
<1>3. CASE old # {}
  <2>. DEFINE f == [r \in old |-> [r EXCEPT !.after = p.after]]
  <2>1. u = j \ old \/ u = (j \ old) \cup {f[r] : r \in old}
    BY <1>3 DEF Upsert, Overwritten
  <2>2. \A r \in old : r \in j /\ r.type = type
    BY AtPlace
  <2>3. ASSUME NEW r \in old PROVE Shape(f[r]) /\ Names(f[r], b) /\ f[r].id = r.id
    <3>1. Shape(r) /\ Names(r, b) /\ p.type = r.type /\ Shape(p) /\ Names(p, b)
      BY <1>0, <1>00, <2>2
    <3>2. f[r] = [r EXCEPT !.after = p.after]
      OBVIOUS
    <3>. HIDE DEF f
    <3>. QED BY <3>1, <3>2, RowAsking
  <2>4. old \subseteq j
    BY AtPlace
  <2>5. IsFiniteSet(old) /\ IsFiniteSet(j \ old)
    BY <1>0, <2>4, FS_Subset
  <2>6. IsFiniteSet({f[r] : r \in old})
    <3>1. f = [r \in old |-> f[r]] /\ DOMAIN f = old
      OBVIOUS
    <3>. HIDE DEF f, old
    <3>. QED BY <2>5, <3>1, FiniteValues
  <2>. HIDE DEF u, f, old
  <2>7. IsFiniteSet(u)
    BY <2>1, <2>5, <2>6, FS_Union
  <2>8. \A r \in u : Shape(r) /\ r.id <= n + 1 /\ Names(r, b)
    BY <1>0, <2>1, <2>2, <2>3
  <2>. QED
    BY <1>1, <2>7, <2>8 DEF Table, u
<1>. QED
  BY <1>2, <1>3

\* The fold of an edit into the rows that add its step.
FoldedRow(r, j, s, v) ==
    IF r \in RowsAt(j, "test_step_add", s, "step") THEN [r EXCEPT !.after = <<@[1], v>>] ELSE r
Folded(j, s, v) == {FoldedRow(r, j, s, v) : r \in j}

LEMMA FoldedRowIs ==
    ASSUME NEW j, NEW n, NEW b, Table(j, n, b), NEW s, NEW v \in Mine, NEW r \in j
    PROVE  LET q == FoldedRow(r, j, s, v)
           IN  /\ Shape(q) /\ Names(q, b)
               /\ q.id = r.id /\ q.type = r.type /\ q.key = r.key /\ q.field = r.field
               /\ q.before = r.before /\ q.base = r.base
               /\ IF r \in RowsAt(j, "test_step_add", s, "step")
                  THEN q.after = <<r.after[1], v>> ELSE q = r
<1>1. Shape(r) /\ Names(r, b)
  BY DEF Table
<1>2. CASE r \in RowsAt(j, "test_step_add", s, "step")
  <2>. DEFINE w == <<r.after[1], v>>
              q == [r EXCEPT !.after = w]
  <2>1. r.type = "test_step_add"
    BY <1>2, AtPlace
  <2>2. w \in Nat \X (Mine \cup {Blank}) /\ w \in Values
    BY <1>1, <2>1 DEF Shape, Values, Texts
  <2>3. r \in Row
    BY <1>1 DEF Shape
  <2>. HIDE DEF w
  <2>4. /\ q \in Row /\ q.id = r.id /\ q.type = r.type /\ q.key = r.key /\ q.field = r.field
        /\ q.before = r.before /\ q.after = w /\ q.base = r.base
    BY <2>2, <2>3 DEF Row, PendingChange
  <2>5. FoldedRow(r, j, s, v) = q
    BY <1>2 DEF w, FoldedRow
  <2>. HIDE DEF q
  <2>6. Shape(q) /\ Names(q, b)
    BY <1>1, <2>1, <2>2, <2>4 DEF Shape, Names
  <2>. QED
    BY <1>2, <2>4, <2>5, <2>6 DEF w
<1>3. CASE r \notin RowsAt(j, "test_step_add", s, "step")
  BY <1>1, <1>3 DEF FoldedRow
<1>. QED
  BY <1>2, <1>3

LEMMA FoldedIs ==
    ASSUME NEW j, NEW n, NEW b, Table(j, n, b), NEW s, NEW v \in Mine
    PROVE  Table(Folded(j, s, v), n, b)
<1>. DEFINE f == [r \in j |-> FoldedRow(r, j, s, v)]
            k == Folded(j, s, v)
<1>1. k = {f[r] : r \in j} /\ f = [r \in j |-> f[r]]
  BY DEF Folded
<1>2. \A r \in j : f[r] = FoldedRow(r, j, s, v)
  OBVIOUS
<1>. HIDE DEF f, k
<1>3. \A r \in j : /\ Shape(f[r]) /\ Names(f[r], b)
                   /\ f[r].id = r.id /\ f[r].type = r.type /\ f[r].key = r.key /\ f[r].field = r.field
  BY <1>2, FoldedRowIs
<1>4. Table(k, n, b)
  BY <1>1, <1>3, TableMapped
<1>. QED
  BY <1>4 DEF k

\* RemoveAt closes the gap.
LEMMA RemoveIs ==
    ASSUME NEW K, NEW s \in Seq(K), NEW a \in 1..Len(s)
    PROVE  LET r == RemoveAt(s, a)
           IN  /\ r \in Seq(K) /\ Len(r) = Len(s) - 1
               /\ \A i \in 1..Len(s) - 1 : r[i] = IF i < a THEN s[i] ELSE s[i + 1]
<1>. DEFINE u == SubSeq(s, 1, a - 1)
            v == SubSeq(s, a + 1, Len(s))
<1>1. RemoveAt(s, a) = u \o v
  BY DEF RemoveAt
<1>2. u \in Seq(K) /\ Len(u) = a - 1 /\ \A i \in 1..a - 1 : u[i] = s[i]
  OBVIOUS
<1>3. v \in Seq(K) /\ Len(v) = Len(s) - a /\ \A i \in 1..Len(s) - a : v[i] = s[a + i]
  OBVIOUS
<1>. HIDE DEF u, v
<1>4. u \o v \in Seq(K) /\ Len(u \o v) = Len(s) - 1
  BY <1>2, <1>3
<1>5. ASSUME NEW i \in 1..Len(s) - 1 PROVE (u \o v)[i] = IF i < a THEN s[i] ELSE s[i + 1]
  BY <1>2, <1>3
<1>. QED
  BY <1>1, <1>4, <1>5

\* Without takes one id out of an order that has it once.
LEMMA WithoutIs ==
    ASSUME NEW s \in Seq(Int), Distinct(s), NEW x
    PROVE  LET w == Without(s, x)
           IN  /\ w \in Seq(Int) /\ Distinct(w)
               /\ \A i \in DOMAIN w : \E k \in DOMAIN s : s[k] = w[i] /\ w[i] # x
               /\ \A i, j \in DOMAIN w : i < j =>
                     \E k, l \in DOMAIN s : k < l /\ s[k] = w[i] /\ s[l] = w[j]
<1>1. CASE \E k \in DOMAIN s : s[k] = x
  <2>. DEFINE a == CHOOSE k \in DOMAIN s : s[k] = x
              w == Without(s, x)
              at(i) == IF i < a THEN i ELSE i + 1
  <2>1. a \in 1..Len(s) /\ s[a] = x
    BY <1>1
  <2>2. w = RemoveAt(s, a)
    BY <1>1 DEF Without
  <2>. HIDE DEF a, w
  <2>3. /\ w \in Seq(Int) /\ Len(w) = Len(s) - 1
        /\ \A i \in 1..Len(s) - 1 : w[i] = IF i < a THEN s[i] ELSE s[i + 1]
    BY <2>1, <2>2, RemoveIs
  <2>4. ASSUME NEW i \in DOMAIN w
        PROVE  i \in Int /\ at(i) \in Int /\ at(i) \in DOMAIN s /\ at(i) # a /\ w[i] = s[at(i)]
    <3>1. i \in 1..Len(s) - 1 /\ a \in 1..Len(s) /\ Len(s) \in Nat
      BY <2>1, <2>3
    <3>2. i \in Int /\ at(i) \in Int /\ at(i) \in DOMAIN s /\ at(i) # a
      BY <3>1
    <3>3. w[i] = s[at(i)]
      BY <2>3, <3>1
    <3>. QED
      BY <3>2, <3>3
  <2>5. \A i, j \in DOMAIN w : i < j => at(i) < at(j)
    BY <2>1, <2>4
  <2>6. \A i, j \in DOMAIN w : at(i) = at(j) => i = j
    BY <2>1, <2>4
  <2>. HIDE DEF at
  <2>7. \A i \in DOMAIN w : w[i] # x
    BY <2>1, <2>4 DEF Distinct
  <2>8. Distinct(w)
    BY <2>4, <2>6 DEF Distinct
  <2>. QED
    BY <2>3, <2>4, <2>5, <2>7, <2>8 DEF w
<1>2. CASE ~ \E k \in DOMAIN s : s[k] = x
  BY <1>2 DEF Without
<1>. QED
  BY <1>1, <1>2

PrunedRow(r, s) ==
    IF r.type = "test_step_order" THEN [r EXCEPT !.before = Without(@, s), !.after = Without(@, s)] ELSE r

\* pruneStepFromOrder keeps a table: its rows are rows of it, an order without
\* the step.
LEMMA PrunedRowIs ==
    ASSUME NEW r, Shape(r), NEW b, Names(r, b), NEW s
    PROVE  LET q == PrunedRow(r, s)
           IN  /\ Shape(q) /\ Names(q, b)
               /\ q.id = r.id /\ q.type = r.type /\ q.key = r.key /\ q.field = r.field /\ q.base = r.base
               /\ IF r.type = "test_step_order"
                  THEN q.before = Without(r.before, s) /\ q.after = Without(r.after, s) ELSE q = r
<1>1. CASE r.type = "test_step_order"
  <2>. DEFINE x == Without(r.before, s)
              y == Without(r.after, s)
              q == [r EXCEPT !.before = x, !.after = y]
  <2>1. /\ r.before \in Seq(Int) /\ r.after \in Seq(Int) /\ Distinct(r.before) /\ Distinct(r.after)
        /\ \A k \in DOMAIN r.before : Known(r.before[k], b)
        /\ \A k \in DOMAIN r.after : Known(r.after[k], b)
    BY <1>1 DEF Shape, Names
  <2>2. /\ x \in Seq(Int) /\ Distinct(x) /\ \A i \in DOMAIN x : \E k \in DOMAIN r.before : r.before[k] = x[i]
        /\ y \in Seq(Int) /\ Distinct(y) /\ \A i \in DOMAIN y : \E k \in DOMAIN r.after : r.after[k] = y[i]
    BY <2>1, WithoutIs
  <2>3. r \in Row /\ x \in Values /\ y \in Values
    BY <2>2 DEF Shape, Values
  <2>4. PrunedRow(r, s) = q
    BY <1>1, <2>3 DEF PrunedRow, Row, PendingChange
  <2>. HIDE DEF x, y
  <2>5. /\ q \in Row /\ q.id = r.id /\ q.type = r.type /\ q.key = r.key /\ q.field = r.field
        /\ q.before = x /\ q.after = y /\ q.base = r.base
    BY <2>3 DEF Row, PendingChange
  <2>. HIDE DEF q
  <2>6. Shape(q)
    BY <1>1, <2>2, <2>5 DEF Shape
  <2>7. Names(q, b)
    BY <1>1, <2>1, <2>2, <2>5 DEF Names
  <2>. QED
    BY <1>1, <2>4, <2>5, <2>6, <2>7 DEF x, y
<1>2. CASE r.type # "test_step_order"
  BY <1>2 DEF PrunedRow
<1>. QED
  BY <1>1, <1>2

LEMMA PrunedIs ==
    ASSUME NEW j, NEW n, NEW b, Table(j, n, b), NEW s
    PROVE  /\ Table(Pruned(j, s), n, b)
           /\ \A q \in Pruned(j, s) : \E r \in j : q = PrunedRow(r, s)
           /\ \A r \in j : r.type # "test_step_order" => r \in Pruned(j, s)
<1>. DEFINE i == {q \in j : q.type = "test_step_order" => Without(q.before, s) # Without(q.after, s)}
            f == [r \in i |-> PrunedRow(r, s)]
            k == Pruned(j, s)
<1>1. k = {f[r] : r \in i} /\ f = [r \in i |-> f[r]]
  BY DEF Pruned, PrunedRow
<1>2. /\ \A r \in i : f[r] = PrunedRow(r, s)
      /\ i \subseteq j /\ \A r \in j : r.type # "test_step_order" => r \in i
  OBVIOUS
<1>. HIDE DEF i, f, k
<1>3. Table(i, n, b)
  BY <1>2, TableSubset
<1>4. \A r \in i : Shape(r) /\ Names(r, b)
  BY <1>3 DEF Table
<1>5. \A r \in i : /\ Shape(f[r]) /\ Names(f[r], b)
                   /\ f[r].id = r.id /\ f[r].type = r.type /\ f[r].key = r.key /\ f[r].field = r.field
                   /\ r.type # "test_step_order" => f[r] = r
  BY <1>2, <1>4, PrunedRowIs
<1>6. Table(k, n, b)
  BY <1>1, <1>3, <1>5, TableMapped
<1>. QED
  BY <1>1, <1>2, <1>5, <1>6 DEF k

-----------------------------------------------------------------------------
\* Lists of steps.

\* Every position has an id of its own, and At finds it.
LEMMA AtIs ==
    ASSUME NEW s, NEW n, NEW b, Listing(s, n, b)
    PROVE  /\ \A k \in DOMAIN s : At(s, s[k].id) = k /\ s[k].id \in IdsOf(s)
           /\ \A x \in IdsOf(s) : At(s, x) \in DOMAIN s /\ s[At(s, x)].id = x
<1>1. ASSUME NEW x \in IdsOf(s) PROVE At(s, x) \in DOMAIN s /\ s[At(s, x)].id = x
  <2>1. \E k \in DOMAIN s : s[k].id = x
    BY <1>1 DEF IdsOf
  <2>. QED
    BY <2>1 DEF At
<1>2. ASSUME NEW k \in DOMAIN s PROVE At(s, s[k].id) = k /\ s[k].id \in IdsOf(s)
  <2>1. s[k].id \in IdsOf(s)
    BY DEF IdsOf
  <2>2. At(s, s[k].id) \in DOMAIN s /\ s[At(s, s[k].id)].id = s[k].id
    BY <1>1, <2>1
  <2>. QED
    BY <2>1, <2>2 DEF Listing
<1>. QED
  BY <1>1, <1>2

\* Where a step of s stands once the one at f is put at t.
Spot(k, f, t) == IF k = f THEN t
                 ELSE LET e == IF k < f THEN k ELSE k - 1 IN IF e < t THEN e ELSE e + 1

\* What was at i before.
Source(i, f, t) == IF i = t THEN f
                   ELSE LET e == IF i < t THEN i ELSE i - 1 IN IF e < f THEN e ELSE e + 1

\* InsertAt makes room.
LEMMA InsertIs ==
    ASSUME NEW K, NEW r \in Seq(K), NEW q \in 1..Len(r) + 1, NEW k \in K
    PROVE  LET p == InsertAt(r, q, k)
           IN  /\ p \in Seq(K) /\ Len(p) = Len(r) + 1
               /\ \A i \in 1..Len(p) : p[i] = IF i < q THEN r[i] ELSE IF i = q THEN k ELSE r[i - 1]
<1>. DEFINE u == SubSeq(r, 1, q - 1)
            v == SubSeq(r, q, Len(r))
<1>1. u \in Seq(K) /\ Len(u) = q - 1 /\ \A i \in 1..q - 1 : u[i] = r[i]
  OBVIOUS
<1>2. v \in Seq(K) /\ Len(v) = Len(r) - q + 1 /\ \A i \in 1..Len(r) - q + 1 : v[i] = r[q + i - 1]
  OBVIOUS
<1>3. InsertAt(r, q, k) = u \o <<k>> \o v
  BY DEF InsertAt
<1>. HIDE DEF u, v
<1>4. /\ u \o <<k>> \in Seq(K) /\ Len(u \o <<k>>) = q
      /\ \A i \in 1..q : (u \o <<k>>)[i] = IF i < q THEN r[i] ELSE k
  BY <1>1
<1>. DEFINE w == u \o <<k>>
<1>. HIDE DEF w
<1>5. /\ w \o v \in Seq(K) /\ Len(w \o v) = Len(r) + 1
      /\ \A i \in 1..Len(r) + 1 : (w \o v)[i] = IF i < q THEN r[i] ELSE IF i = q THEN k ELSE r[i - 1]
  BY <1>2, <1>4 DEF w
<1>. QED
  BY <1>3, <1>5 DEF w

\* A move changes places, and nothing else.
LEMMA MovedIs ==
    ASSUME NEW K, NEW s \in Seq(K), NEW f \in 1..Len(s), NEW t \in 1..Len(s)
    PROVE  LET m == Moved(s, f, t)
           IN  /\ m \in Seq(K) /\ Len(m) = Len(s)
               /\ \A i \in DOMAIN m : Source(i, f, t) \in DOMAIN s /\ m[i] = s[Source(i, f, t)]
               /\ \A i, j \in DOMAIN m : Source(i, f, t) = Source(j, f, t) => i = j
               /\ \A k \in DOMAIN s : Spot(k, f, t) \in DOMAIN m /\ m[Spot(k, f, t)] = s[k]
<1>. DEFINE r == RemoveAt(s, f)
            m == Moved(s, f, t)
<1>1. /\ r \in Seq(K) /\ Len(r) = Len(s) - 1
      /\ \A i \in 1..Len(s) - 1 : r[i] = IF i < f THEN s[i] ELSE s[i + 1]
  BY RemoveIs
<1>. HIDE DEF r
<1>2. /\ m \in Seq(K) /\ Len(m) = Len(r) + 1
      /\ \A i \in 1..Len(m) : m[i] = IF i < t THEN r[i] ELSE IF i = t THEN s[f] ELSE r[i - 1]
  <2>. DEFINE e == s[f]
  <2>1. m = InsertAt(r, t, e)
    BY DEF Moved, r
  <2>2. t \in 1..Len(r) + 1 /\ e \in K
    BY <1>1
  <2>. HIDE DEF m, e
  <2>3. r \in Seq(K)
    BY <1>1
  <2>4. /\ InsertAt(r, t, e) \in Seq(K) /\ Len(InsertAt(r, t, e)) = Len(r) + 1
        /\ \A i \in 1..Len(InsertAt(r, t, e)) :
              InsertAt(r, t, e)[i] = IF i < t THEN r[i] ELSE IF i = t THEN e ELSE r[i - 1]
    BY <2>2, <2>3, InsertIs
  <2>. QED BY <2>1, <2>4 DEF e
<1>. HIDE DEF m
<1>3. Len(m) = Len(s) /\ Len(s) \in Nat /\ DOMAIN m = 1..Len(s)
  BY <1>1, <1>2
<1>4. ASSUME NEW i \in 1..Len(s)
      PROVE  Source(i, f, t) \in 1..Len(s) /\ m[i] = s[Source(i, f, t)]
  <2>1. CASE i = t
    BY <1>2, <1>3, <2>1 DEF Source
  <2>2. CASE i < t
    <3>1. i \in 1..Len(s) - 1 /\ m[i] = r[i]
      BY <1>2, <1>3, <2>2
    <3>2. r[i] = IF i < f THEN s[i] ELSE s[i + 1]
      BY <1>1, <3>1
    <3>. QED BY <3>1, <3>2, <2>2, <1>3 DEF Source
  <2>3. CASE i > t
    <3>1. i - 1 \in 1..Len(s) - 1 /\ m[i] = r[i - 1]
      BY <1>2, <1>3, <2>3
    <3>2. r[i - 1] = IF i - 1 < f THEN s[i - 1] ELSE s[i - 1 + 1]
      BY <1>1, <3>1
    <3>. QED BY <3>1, <3>2, <2>3, <1>3 DEF Source
  <2>. QED
    BY <1>3, <2>1, <2>2, <2>3
<1>5. \A i, j \in 1..Len(s) : Source(i, f, t) = Source(j, f, t) => i = j
  BY <1>3 DEF Source
<1>6. \A k \in 1..Len(s) : Spot(k, f, t) \in 1..Len(s) /\ Source(Spot(k, f, t), f, t) = k
  BY <1>3 DEF Source, Spot
<1>7. \A k \in DOMAIN s : Spot(k, f, t) \in DOMAIN m /\ m[Spot(k, f, t)] = s[k]
  BY <1>3, <1>4, <1>6
<1>8. \A i \in DOMAIN m : Source(i, f, t) \in DOMAIN s /\ m[i] = s[Source(i, f, t)]
  BY <1>3, <1>4
<1>9. \A i, j \in DOMAIN m : Source(i, f, t) = Source(j, f, t) => i = j
  BY <1>3, <1>5
<1>. QED
  BY <1>2, <1>3, <1>7, <1>8, <1>9 DEF m

\* A list stays one when a step is given a text, taken out, moved or added.
LEMMA ListingGrows ==
    ASSUME NEW s, NEW m \in Nat, NEW n \in Nat, m <= n, NEW a \in Nat, NEW b \in Nat, a <= b, Listing(s, m, a)
    PROVE  Listing(s, n, b)
<1>1. \A k \in DOMAIN s : s[k] \in JiraStep
  BY DEF Listing
<1>2. \A k \in DOMAIN s : s[k].id \in Nat /\ s[k].row \in Nat
  BY <1>1 DEF JiraStep
<1>3. \A k \in DOMAIN s : s[k].id \in 1..b /\ s[k].row <= n
  BY <1>2 DEF Listing
<1>. QED
  BY <1>3 DEF Listing

LEMMA TextListing ==
    ASSUME NEW s, NEW n, NEW b, Listing(s, n, b), NEW a \in DOMAIN s, NEW v \in Texts
    PROVE  LET m == [s EXCEPT ![a].text = v]
           IN  /\ Listing(m, n, b) /\ Len(m) = Len(s) /\ DOMAIN m = DOMAIN s
               /\ \A k \in DOMAIN s : /\ m[k].id = s[k].id /\ m[k].row = s[k].row
                                      /\ m[k].text = IF k = a THEN v ELSE s[k].text
<1>. DEFINE m == [s EXCEPT ![a].text = v]
<1>1. s \in Seq(JiraStep) /\ \A k \in DOMAIN s : s[k] \in JiraStep
  BY DEF Listing
<1>2. m \in Seq(JiraStep) /\ Len(m) = Len(s) /\ DOMAIN m = DOMAIN s
  <2>1. [s[a] EXCEPT !.text = v] \in JiraStep
    BY <1>1 DEF JiraStep
  <2>. QED BY <1>1, <2>1
<1>3. \A k \in DOMAIN s : /\ m[k].id = s[k].id /\ m[k].row = s[k].row
                          /\ m[k].text = IF k = a THEN v ELSE s[k].text
  BY <1>1 DEF JiraStep
<1>. HIDE DEF m
<1>4. Listing(m, n, b)
  BY <1>2, <1>3 DEF Listing
<1>. QED
  BY <1>2, <1>3, <1>4 DEF m

LEMMA RemovedListing ==
    ASSUME NEW s, NEW n, NEW b, Listing(s, n, b), NEW x \in IdsOf(s)
    PROVE  LET m == Removed(s, x)
           IN  /\ Listing(m, n, b) /\ Len(m) = Len(s) - 1
               /\ IdsOf(m) = IdsOf(s) \ {x}
               /\ \A i \in DOMAIN m : m[i] = IF i < At(s, x) THEN s[i] ELSE s[i + 1]
               /\ \A i \in DOMAIN m : \E k \in DOMAIN s : k # At(s, x) /\ m[i] = s[k]
               /\ \A k \in DOMAIN s : k # At(s, x) => \E i \in DOMAIN m : m[i] = s[k]
<1>. DEFINE a == At(s, x)
            m == Removed(s, x)
            at(i) == IF i < a THEN i ELSE i + 1
<1>0. s \in Seq(JiraStep)
  BY DEF Listing
<1>1. a \in 1..Len(s) /\ s[a].id = x
  BY <1>0, AtIs
<1>. HIDE DEF a
<1>2. m \in Seq(JiraStep) /\ Len(m) = Len(s) - 1 /\ \A i \in 1..Len(s) - 1 : m[i] = IF i < a THEN s[i] ELSE s[i + 1]
  BY <1>0, <1>1, RemoveIs DEF Removed, a
<1>. HIDE DEF m
<1>3. DOMAIN m = 1..Len(s) - 1 /\ DOMAIN s = 1..Len(s) /\ Len(s) \in Nat
  BY <1>0, <1>2
<1>4. \A i \in DOMAIN m : at(i) \in DOMAIN s /\ at(i) # a
  BY <1>1, <1>3
<1>5. \A i \in DOMAIN m : m[i] = s[at(i)]
  BY <1>2, <1>3
<1>6. \A i, j \in DOMAIN m : at(i) = at(j) => i = j
  BY <1>1, <1>3
<1>7. \A k \in DOMAIN s : k # a => \E i \in DOMAIN m : at(i) = k
  <2>. SUFFICES ASSUME NEW k \in DOMAIN s, k # a PROVE \E i \in DOMAIN m : at(i) = k
    OBVIOUS
  <2>. DEFINE i == IF k < a THEN k ELSE k - 1
  <2>1. i \in DOMAIN m /\ at(i) = k
    BY <1>1, <1>3
  <2>. QED
    BY <2>1
<1>. HIDE DEF at
<1>8. Listing(m, n, b)
  BY <1>2, <1>4, <1>5, <1>6 DEF Listing
<1>9. \A k \in DOMAIN s : k # a => \E i \in DOMAIN m : m[i] = s[k]
  BY <1>5, <1>7
<1>10. \A i \in DOMAIN m : \E k \in DOMAIN s : k # a /\ m[i] = s[k]
  BY <1>4, <1>5
<1>11. \A k \in DOMAIN s : k # a => s[k].id # x
  BY <1>1, <1>3 DEF Listing
<1>12. \A y : y \in IdsOf(m) <=> y \in IdsOf(s) /\ y # x
  <2>1. ASSUME NEW y \in IdsOf(m) PROVE y \in IdsOf(s) /\ y # x
    <3>1. PICK i \in DOMAIN m : m[i].id = y
      BY DEF IdsOf
    <3>2. PICK k \in DOMAIN s : k # a /\ m[i] = s[k]
      BY <1>10
    <3>. QED BY <1>11, <3>1, <3>2 DEF IdsOf
  <2>2. ASSUME NEW y \in IdsOf(s), y # x PROVE y \in IdsOf(m)
    <3>1. PICK k \in DOMAIN s : s[k].id = y
      BY DEF IdsOf
    <3>2. k # a
      BY <1>1, <2>2, <3>1
    <3>3. PICK i \in DOMAIN m : m[i] = s[k]
      BY <1>9, <3>2
    <3>. QED BY <3>1, <3>3 DEF IdsOf
  <2>. QED
    BY <2>1, <2>2
<1>. QED
  BY <1>2, <1>3, <1>8, <1>9, <1>10, <1>12 DEF m, a

LEMMA MovedListing ==
    ASSUME NEW s, NEW n, NEW b, Listing(s, n, b), NEW f \in DOMAIN s, NEW t \in DOMAIN s
    PROVE  LET m == Moved(s, f, t)
           IN  /\ Listing(m, n, b) /\ Len(m) = Len(s) /\ DOMAIN m = DOMAIN s
               /\ IdsOf(m) = IdsOf(s)
               /\ \A k \in DOMAIN s : Spot(k, f, t) \in DOMAIN m /\ m[Spot(k, f, t)] = s[k]
               /\ \A k \in DOMAIN s : At(m, s[k].id) = Spot(k, f, t)
<1>. DEFINE m == Moved(s, f, t)
<1>0. s \in Seq(JiraStep) /\ f \in 1..Len(s) /\ t \in 1..Len(s)
  BY DEF Listing
<1>1. /\ m \in Seq(JiraStep) /\ Len(m) = Len(s)
      /\ \A i \in DOMAIN m : Source(i, f, t) \in DOMAIN s /\ m[i] = s[Source(i, f, t)]
      /\ \A i, j \in DOMAIN m : Source(i, f, t) = Source(j, f, t) => i = j
      /\ \A k \in DOMAIN s : Spot(k, f, t) \in DOMAIN m /\ m[Spot(k, f, t)] = s[k]
  BY <1>0, MovedIs
<1>. HIDE DEF m
<1>2. Listing(m, n, b)
  <2>1. ASSUME NEW k \in DOMAIN m, NEW l \in DOMAIN m, m[k].id = m[l].id PROVE k = l
    <3>1. Source(k, f, t) \in DOMAIN s /\ Source(l, f, t) \in DOMAIN s
          /\ m[k] = s[Source(k, f, t)] /\ m[l] = s[Source(l, f, t)]
      BY <1>1
    <3>2. Source(k, f, t) = Source(l, f, t)
      BY <2>1, <3>1 DEF Listing
    <3>. QED BY <1>1, <3>2
  <2>2. ASSUME NEW k \in DOMAIN m PROVE m[k].id \in 1..b /\ m[k].row <= n
    <3>1. Source(k, f, t) \in DOMAIN s /\ m[k] = s[Source(k, f, t)]
      BY <1>1
    <3>. QED BY <3>1 DEF Listing
  <2>. QED BY <1>1, <2>1, <2>2 DEF Listing
<1>3. DOMAIN m = DOMAIN s
  BY <1>0, <1>1
<1>4. \A x : x \in IdsOf(m) <=> x \in IdsOf(s)
  <2>1. ASSUME NEW x \in IdsOf(m) PROVE x \in IdsOf(s)
    <3>1. PICK i \in DOMAIN m : m[i].id = x
      BY DEF IdsOf
    <3>2. Source(i, f, t) \in DOMAIN s /\ m[i] = s[Source(i, f, t)]
      BY <1>1
    <3>. QED BY <3>1, <3>2 DEF IdsOf
  <2>2. ASSUME NEW x \in IdsOf(s) PROVE x \in IdsOf(m)
    <3>1. PICK k \in DOMAIN s : s[k].id = x
      BY DEF IdsOf
    <3>2. Spot(k, f, t) \in DOMAIN m /\ m[Spot(k, f, t)] = s[k]
      BY <1>1
    <3>. QED BY <3>1, <3>2 DEF IdsOf
  <2>. QED
    BY <2>1, <2>2
<1>5. ASSUME NEW k \in DOMAIN s PROVE At(m, s[k].id) = Spot(k, f, t)
  <2>1. Spot(k, f, t) \in DOMAIN m /\ m[Spot(k, f, t)] = s[k]
    BY <1>1
  <2>2. At(m, m[Spot(k, f, t)].id) = Spot(k, f, t)
    BY <1>2, <2>1, AtIs
  <2>. QED BY <2>1, <2>2
<1>. QED
  BY <1>1, <1>2, <1>3, <1>4, <1>5 DEF m

LEMMA AppendedListing ==
    ASSUME NEW s, NEW n \in Nat, NEW b \in Nat, Listing(s, n, b), NEW v \in Texts, NEW r \in Nat, r <= n
    PROVE  LET m == Append(s, [id |-> b + 1, text |-> v, row |-> r])
           IN  /\ Listing(m, n, b + 1) /\ Len(m) = Len(s) + 1
               /\ IdsOf(m) = IdsOf(s) \cup {b + 1} /\ b + 1 \notin IdsOf(s)
               /\ \A k \in DOMAIN s : k \in DOMAIN m /\ m[k] = s[k]
               /\ m[Len(s) + 1] = [id |-> b + 1, text |-> v, row |-> r]
<1>. DEFINE p == [id |-> b + 1, text |-> v, row |-> r]
            m == Append(s, p)
<1>0. s \in Seq(JiraStep) /\ Len(s) \in Nat /\ DOMAIN s = 1..Len(s) /\ Listing(s, n, b + 1)
  <2>1. Listing(s, n, b + 1)
    BY ListingGrows
  <2>. QED BY <2>1 DEF Listing
<1>1. p \in JiraStep /\ p.id = b + 1 /\ p.row = r
  BY DEF JiraStep
<1>. HIDE DEF p
<1>2. m \in Seq(JiraStep) /\ Len(m) = Len(s) + 1 /\ \A k \in 1..Len(s) + 1 : m[k] = IF k = Len(s) + 1 THEN p ELSE s[k]
  BY <1>0, <1>1
<1>. HIDE DEF m
<1>3. DOMAIN m = 1..Len(s) + 1
  BY <1>0, <1>2
<1>4. \A k \in DOMAIN s : k \in DOMAIN m /\ m[k] = s[k] /\ k # Len(s) + 1
  BY <1>0, <1>2, <1>3
<1>5. Len(s) + 1 \in DOMAIN m /\ m[Len(s) + 1] = p
  BY <1>0, <1>2, <1>3
<1>6. \A k \in DOMAIN m : k \in DOMAIN s \/ k = Len(s) + 1
  BY <1>0, <1>3
<1>7. \A k \in DOMAIN s : s[k].id \in 1..b
  BY DEF Listing
<1>8. Listing(m, n, b + 1)
  <2>1. \A k, l \in DOMAIN m : m[k].id = m[l].id => k = l
    <3>1. \A k \in DOMAIN s : s[k].id # b + 1
      BY <1>7
    <3>. QED BY <1>0, <1>1, <1>4, <1>5, <1>6, <3>1 DEF Listing
  <2>2. \A k \in DOMAIN m : m[k].id \in 1..(b + 1) /\ m[k].row <= n
    BY <1>0, <1>1, <1>4, <1>5, <1>6 DEF Listing
  <2>. QED BY <1>2, <2>1, <2>2 DEF Listing
<1>9. \A y : y \in IdsOf(m) <=> y \in IdsOf(s) \/ y = b + 1
  BY <1>1, <1>4, <1>5, <1>6 DEF IdsOf
<1>10. b + 1 \notin IdsOf(s)
  BY <1>7 DEF IdsOf
<1>. QED
  BY <1>2, <1>4, <1>5, <1>8, <1>9, <1>10 DEF m, p

-----------------------------------------------------------------------------
\* The shapes are kept.

\* What holds of n rows and b steps holds of more.
LEMMA Grows ==
    ASSUME Shapes, NEW n \in Nat, lastRow <= n, NEW b \in Nat, born <= b
    PROVE  /\ Remotes(jira, n, b) /\ Cached(test, steps, b)
           /\ Table(pending, n, b) /\ Table(rows, n, b) /\ Conflicting(conflict, n, b)
<1>1. born \in Nat /\ lastRow \in Nat
  BY DEF Shapes
<1>2. \A s : Known(s, born) => Known(s, b)
  BY <1>1 DEF Known
<1>3. Table(pending, n, b) /\ Table(rows, n, b)
  <2>1. Table(pending, lastRow, born) /\ Table(rows, lastRow, born)
    BY DEF Shapes
  <2>2. lastRow \in Int /\ n \in Int /\ born \in Int /\ b \in Int
    BY <1>1
  <2>. QED BY <2>1, <2>2, TableGrows
<1>4. Remotes(jira, n, b)
  <2>1. Remotes(jira, lastRow, born)
    BY DEF Shapes
  <2>. QED BY <1>1, <2>1, ListingGrows DEF Remotes
<1>5. Cached(test, steps, b)
  BY <1>2 DEF Shapes, Cached
<1>6. ASSUME NEW c, Held(c, lastRow, born) PROVE Held(c, n, b)
  <2>1. c.row.id \in Nat /\ c.row.id <= lastRow
    BY <1>6 DEF Held, Shape, Row, PendingChange
  <2>2. c.row.id <= n
    BY <1>1, <2>1
  <2>3. Names(c.row, b)
    BY <1>2, <1>6 DEF Held, Names
  <2>. QED BY <1>6, <2>2, <2>3 DEF Held
<1>7. Conflicting(conflict, n, b)
  BY <1>6 DEF Shapes, Conflicting
<1>. QED
  BY <1>3, <1>4, <1>5, <1>7

LEMMA FlagsIs ==
    /\ Disturbances \subseteq Met
    /\ Met = {"outside", "fault", "discard", "refresh", "selected", "meanwhile", "race", "sync",
              "refused", "onscreen", "theirs", "undone", "unordered", "revived"}
BY DEF Met, Disturbances

LEMMA ActIs ==
    ASSUME Shapes, NEW now, now \subseteq Met, Act(now)
    PROVE  acts' \in Nat /\ met' \subseteq Met /\ met' = met \cup now
BY DEF Act, Shapes

\* An act of the user leaves Jira and the Commit alone.
LEMMA UserActShapes ==
    ASSUME Shapes, NEW texts, UserActsSeeing(texts),
           lastRow' \in {lastRow, lastRow + 1},
           Cached(test', steps', born), Table(pending', lastRow', born)
    PROVE  Shapes'
<1>1. Meanwhile \cup TakenBack(Dropped) \subseteq Met
  BY FlagsIs DEF Meanwhile, TakenBack
<1>2. acts' \in Nat /\ met' \subseteq Met
  <2>. HIDE DEF Shapes
  <2>1. Act(Meanwhile \cup TakenBack(Dropped))
    BY DEF UserActsSeeing
  <2>. QED BY <1>1, <2>1, ActIs
<1>3. UNCHANGED <<jira, born, conflict, pc, rows, only, version, left, idMap, moves, content>>
  BY DEF UserActsSeeing, commit
<1>4. lastRow \in Nat /\ born \in Nat /\ lastRow' \in Nat /\ lastRow <= lastRow'
  BY DEF Shapes
<1>5. Remotes(jira, lastRow', born) /\ Table(rows, lastRow', born) /\ Conflicting(conflict, lastRow', born)
  BY <1>4, Grows
<1>6. Phases'
  BY <1>3 DEF Shapes, Phases, FieldRows, StatusRows, OfType, Stay, QueuedOrder
<1>. QED
  BY <1>2, <1>3, <1>4, <1>5, <1>6 DEF Shapes

LEMMA TextsIs ==
    /\ Mine \subseteq Texts /\ Theirs \subseteq Texts /\ Texts \subseteq Values
    /\ Initial \in Texts /\ Blank \in Texts /\ Deleted \in Texts
    /\ Nat \X Texts \subseteq Values /\ Seq(Int) \subseteq Values
BY DEF Texts, Values

\* What Shapes says of the cache, of the Test in Jira and of a row.
LEMMA CacheIs ==
    ASSUME Shapes
    PROVE  /\ test.ver \in Nat /\ test.field \in [Fields -> Texts]
           /\ test = [ver |-> test.ver, field |-> test.field]
           /\ IsFiniteSet(DOMAIN steps) /\ steps = [s \in DOMAIN steps |-> steps[s]]
           /\ \A s \in DOMAIN steps : /\ steps[s].idx \in Nat /\ steps[s].text \in Texts
                                      /\ steps[s] = [idx |-> steps[s].idx, text |-> steps[s].text]
                                      /\ s \in Int /\ s # 0 /\ s <= born
           /\ born \in Nat /\ lastRow \in Nat
BY DEF Shapes, Cached, Step, Known

LEMMA JiraIs ==
    ASSUME Shapes
    PROVE  /\ jira.ver \in Nat /\ jira.field \in [Fields -> Texts] /\ jira.steps \in Seq(JiraStep)
           /\ Listing(jira.steps, lastRow, born)
           /\ \A k \in DOMAIN jira.steps :
                 /\ jira.steps[k].id \in 1..born /\ jira.steps[k].text \in Texts
                 /\ jira.steps[k].row \in Nat /\ jira.steps[k].row <= lastRow
<1>1. Remotes(jira, lastRow, born)
  BY DEF Shapes
<1>2. \A k \in DOMAIN jira.steps : jira.steps[k] \in JiraStep
  BY <1>1 DEF Remotes
<1>. QED
  BY <1>1, <1>2 DEF Remotes, Listing, JiraStep

LEMMA RowIs ==
    ASSUME NEW r, Shape(r)
    PROVE  /\ r \in Row /\ r.id \in Nat /\ r.id > 0 /\ r.type \in Types /\ r.key \in Int
           /\ r.base \in Nat /\ r.before \in Values /\ r.after \in Values
BY DEF Shape, Row, PendingChange

\* The rows an edit queues.
LEMMA NewRow ==
    ASSUME Shapes, NEW type \in Types, NEW key \in Int, NEW field \in Fields \cup {"action", "step", "order"},
           NEW x \in Values, NEW y \in Values,
           NEW p, p = [id |-> lastRow + 1, type |-> type, key |-> key, field |-> field,
                       before |-> x, after |-> y, base |-> test.ver]
    PROVE  /\ p \in Row /\ p.id > 0
           /\ p.type = type /\ p.key = key /\ p.field = field /\ p.before = x /\ p.after = y
BY CacheIs DEF Row, PendingChange

LEMMA EditTestFieldShapes ==
    ASSUME Shapes, NEW f \in Fields, NEW v \in Mine, EditTestField(f, v)
    PROVE  Shapes'
<1>. DEFINE x == test.field[f]
            p == [id |-> lastRow + 1, type |-> "test_case", key |-> TestKey, field |-> f,
                  before |-> x, after |-> v, base |-> test.ver]
<1>1. x \in Texts /\ x \in Values /\ v \in Values /\ TestKey \in Int
  BY CacheIs, TextsIs DEF TestKey
<1>. HIDE DEF x
<1>2. Shape(p) /\ Names(p, born)
  <2>1. p \in Row /\ p.id > 0 /\ p.type = "test_case" /\ p.key = TestKey /\ p.field = f
        /\ p.before = x /\ p.after = v
    <3>. HIDE DEF p
    <3>1. "test_case" \in Types /\ f \in Fields \cup {"action", "step", "order"}
      BY DEF Types
    <3>. QED BY <1>1, <3>1, NewRow DEF p
  <2>. HIDE DEF p
  <2>. QED BY <1>1, <2>1 DEF Shape, Names
<1>3. Table(pending', lastRow', born) /\ lastRow' = lastRow + 1
  <2>1. pending' = Upsert(pending, lastRow + 1, "test_case", TestKey, f, x, v, test.ver) /\ lastRow' = lastRow + 1
    BY DEF EditTestField, Queue, x
  <2>2. Table(pending, lastRow, born) /\ lastRow \in Nat
    BY DEF Shapes
  <2>3. Table(Upsert(pending, lastRow + 1, "test_case", TestKey, f, x, v, test.ver), lastRow + 1, born)
    BY <1>2, <2>2, UpsertTable
  <2>. QED BY <2>1, <2>3
<1>4. Cached(test', steps', born)
  BY TextsIs DEF EditTestField, Shapes, Cached
<1>. QED
  BY <1>3, <1>4, UserActShapes DEF EditTestField, UserActs

\* The cache with a step more, less or changed.
LEMMA CachedMapped ==
    ASSUME Shapes, NEW ss, DOMAIN ss = DOMAIN steps, ss = [s \in DOMAIN steps |-> ss[s]],
           \A s \in DOMAIN steps : ss[s] \in Step
    PROVE  Cached(test, ss, born)
BY DEF Shapes, Cached

LEMMA EditTestStepFieldShapes ==
    ASSUME Shapes, NEW s \in DOMAIN steps, NEW v \in Mine, EditTestStepField(s, v)
    PROVE  Shapes'
<1>. DEFINE x == steps[s].text
            p == [id |-> lastRow + 1, type |-> "test_step", key |-> s, field |-> "action",
                  before |-> x, after |-> v, base |-> test.ver]
<1>1. x \in Texts /\ x \in Values /\ v \in Values /\ s \in Int /\ Known(s, born)
  BY CacheIs, TextsIs DEF Known
<1>. HIDE DEF x
<1>2. Shape(p) /\ Names(p, born)
  <2>1. p \in Row /\ p.id > 0 /\ p.type = "test_step" /\ p.key = s /\ p.field = "action"
        /\ p.before = x /\ p.after = v
    <3>. HIDE DEF p
    <3>1. "test_step" \in Types /\ "action" \in Fields \cup {"action", "step", "order"}
      BY DEF Types
    <3>. QED BY <1>1, <3>1, NewRow DEF p
  <2>. HIDE DEF p
  <2>. QED BY <1>1, <2>1 DEF Shape, Names
<1>3. Table(pending', lastRow', born) /\ lastRow' \in {lastRow, lastRow + 1}
  <2>0. Table(pending, lastRow, born) /\ lastRow \in Nat
    BY DEF Shapes
  <2>1. CASE AddRow(s) # {}
    <3>1. pending' = Folded(pending, s, v) /\ lastRow' = lastRow
      BY <2>1 DEF EditTestStepField, AddRow, Folded, FoldedRow
    <3>. QED BY <2>0, <3>1, FoldedIs
  <2>2. CASE AddRow(s) = {}
    <3>1. pending' = Upsert(pending, lastRow + 1, "test_step", s, "action", x, v, test.ver) /\ lastRow' = lastRow + 1
      BY <2>2 DEF EditTestStepField, Queue, x
    <3>2. Table(Upsert(pending, lastRow + 1, "test_step", s, "action", x, v, test.ver), lastRow + 1, born)
      BY <1>2, <2>0, UpsertTable
    <3>. QED BY <3>1, <3>2
  <2>. QED BY <2>1, <2>2
<1>4. Cached(test', steps', born)
  <2>1. steps' = [steps EXCEPT ![s].text = v] /\ test' = test
    BY DEF EditTestStepField
  <2>2. DOMAIN steps' = DOMAIN steps /\ steps' = [e \in DOMAIN steps |-> steps'[e]]
        /\ \A e \in DOMAIN steps : steps'[e] = IF e = s THEN [idx |-> steps[s].idx, text |-> v] ELSE steps[e]
    <3>1. steps = [e \in DOMAIN steps |-> steps[e]] /\ steps[s] = [idx |-> steps[s].idx, text |-> steps[s].text]
      BY CacheIs
    <3>2. [steps[s] EXCEPT !.text = v] = [idx |-> steps[s].idx, text |-> v]
      BY <3>1
    <3>. QED BY <2>1, <3>1, <3>2
  <2>3. \A e \in DOMAIN steps : steps'[e] \in Step
    BY <2>2, CacheIs, TextsIs DEF Step
  <2>. QED BY <2>1, <2>2, <2>3, CachedMapped
<1>. QED
  BY <1>3, <1>4, UserActShapes DEF EditTestStepField, UserActs

LEMMA AddTestStepShapes ==
    ASSUME Shapes, NEW t \in Mine \cup {Blank}, AddTestStep(t)
    PROVE  Shapes'
<1>. DEFINE s == NextTempStepID
            step == [idx |-> NextIdx, text |-> t]
            y == Snapshot(step)
            p == [id |-> lastRow + 1, type |-> "test_step_add", key |-> s, field |-> "step",
                  before |-> Blank, after |-> y, base |-> test.ver]
<1>1. s \in Int /\ s < 0 /\ Known(s, born)
  BY CacheIs, NextTempStepIDIs DEF Known
<1>2. NextIdx \in Nat /\ step \in Step /\ y \in Nat \X (Mine \cup {Blank}) /\ y \in Values /\ Blank \in Values
  <2>1. NextIdx \in Nat
    BY CacheIs, NextIdxIs
  <2>. QED BY <2>1, TextsIs DEF Snapshot, Step
<1>. HIDE DEF s, y, step
<1>3. Shape(p) /\ Names(p, born)
  <2>1. p \in Row /\ p.id > 0 /\ p.type = "test_step_add" /\ p.key = s /\ p.field = "step"
        /\ p.before = Blank /\ p.after = y
    <3>. HIDE DEF p
    <3>1. "test_step_add" \in Types /\ "step" \in Fields \cup {"action", "step", "order"}
      BY DEF Types
    <3>. QED BY <1>1, <1>2, <3>1, NewRow DEF p
  <2>. HIDE DEF p
  <2>. QED BY <1>1, <1>2, <2>1 DEF Shape, Names
<1>4. Table(pending', lastRow', born) /\ lastRow' = lastRow + 1
  <2>0. Table(pending, lastRow, born) /\ lastRow \in Nat
    BY DEF Shapes
  <2>1. pending' = Upsert(pending, lastRow + 1, "test_step_add", s, "step", Blank, y, test.ver) /\ lastRow' = lastRow + 1
    BY DEF AddTestStep, Queue, s, y, step
  <2>2. Table(Upsert(pending, lastRow + 1, "test_step_add", s, "step", Blank, y, test.ver), lastRow + 1, born)
    BY <1>3, <2>0, UpsertTable
  <2>. QED BY <2>1, <2>2
<1>5. Cached(test', steps', born)
  <2>1. steps' = With(steps, s, step) /\ test' = test
    BY DEF AddTestStep, s, step
  <2>2. DOMAIN steps' = DOMAIN steps \cup {s} /\ steps' \in [DOMAIN steps' -> Step]
    BY <1>2, <2>1 DEF With, Shapes, Cached
  <2>3. IsFiniteSet(DOMAIN steps')
    BY <2>2, CacheIs, FS_AddElement
  <2>. QED BY <1>1, <2>1, <2>2, <2>3 DEF Shapes, Cached
<1>. QED
  BY <1>4, <1>5, UserActShapes DEF AddTestStep, UserActs

LEMMA DeleteTestStepShapes ==
    ASSUME Shapes, NEW s \in DOMAIN steps, DeleteTestStep(s)
    PROVE  Shapes'
<1>. DEFINE x == Snapshot(steps[s])
            j == {r \in pending : r.type # "test_step" \/ r.key # s}
            p == [id |-> lastRow + 1, type |-> "test_step_delete", key |-> s, field |-> "step",
                  before |-> x, after |-> Blank, base |-> test.ver]
<1>1. s \in Int /\ Known(s, born) /\ x \in Nat \X Texts /\ x \in Values /\ Blank \in Values
  BY CacheIs, TextsIs DEF Known, Snapshot
<1>. HIDE DEF x
<1>2. Shape(p) /\ Names(p, born)
  <2>1. p \in Row /\ p.id > 0 /\ p.type = "test_step_delete" /\ p.key = s /\ p.field = "step"
        /\ p.before = x /\ p.after = Blank
    <3>. HIDE DEF p
    <3>1. "test_step_delete" \in Types /\ "step" \in Fields \cup {"action", "step", "order"}
      BY DEF Types
    <3>. QED BY <1>1, <3>1, NewRow DEF p
  <2>. HIDE DEF p
  <2>. QED BY <1>1, <2>1 DEF Shape, Names
<1>3. Table(pending', lastRow', born) /\ lastRow' \in {lastRow, lastRow + 1}
  <2>0. Table(pending, lastRow, born) /\ lastRow \in Nat
    BY DEF Shapes
  <2>1. CASE AddRow(s) # {}
    <3>1. pending' = Pruned(pending \ AddRow(s), s) /\ lastRow' = lastRow
      BY <2>1 DEF DeleteTestStep
    <3>2. Table(pending \ AddRow(s), lastRow, born)
      BY <2>0, TableSubset
    <3>. QED BY <3>1, <3>2, PrunedIs
  <2>2. CASE AddRow(s) = {}
    <3>1. pending' = Upsert(j, lastRow + 1, "test_step_delete", s, "step", x, Blank, test.ver) /\ lastRow' = lastRow + 1
      BY <2>2 DEF DeleteTestStep, Queue, x
    <3>2. Table(j, lastRow, born)
      <4>1. j \subseteq pending
        OBVIOUS
      <4>. HIDE DEF j
      <4>. QED BY <2>0, <4>1, TableSubset
    <3>. HIDE DEF j
    <3>3. Table(Upsert(j, lastRow + 1, "test_step_delete", s, "step", x, Blank, test.ver), lastRow + 1, born)
      BY <1>2, <2>0, <3>2, UpsertTable
    <3>. QED BY <3>1, <3>3
  <2>. QED BY <2>1, <2>2
<1>4. Cached(test', steps', born)
  <2>1. steps' = Only(steps, DOMAIN steps \ {s}) /\ test' = test
    BY DEF DeleteTestStep
  <2>2. DOMAIN steps' = DOMAIN steps \ {s} /\ steps' \in [DOMAIN steps' -> Step]
    BY <2>1 DEF Only, Shapes, Cached
  <2>3. IsFiniteSet(DOMAIN steps')
    BY <2>2, CacheIs, FS_RemoveElement
  <2>. QED BY <2>1, <2>2, <2>3 DEF Shapes, Cached
<1>. QED
  BY <1>3, <1>4, UserActShapes DEF DeleteTestStep

\* applyStepOrder gives places, and nothing else.
LEMMA StepsInOrderIs ==
    ASSUME Shapes, NEW order \in Seq(Int)
    PROVE  LET ss == StepsInOrder(order)
           IN  /\ DOMAIN ss = DOMAIN steps /\ ss = [s \in DOMAIN steps |-> ss[s]]
               /\ \A s \in DOMAIN steps : ss[s] \in Step /\ ss[s].text = steps[s].text
               /\ \A s \in DOMAIN steps : (\A k \in DOMAIN order : order[k] # s) => ss[s] = steps[s]
               /\ Distinct(order) => \A k \in DOMAIN order : order[k] \in DOMAIN steps => ss[order[k]].idx = k
<1>. DEFINE ss == StepsInOrder(order)
            at(s) == CHOOSE k \in DOMAIN order : order[k] = s
<1>1. DOMAIN ss = DOMAIN steps /\ ss = [s \in DOMAIN steps |-> ss[s]]
  BY DEF StepsInOrder
<1>2. ASSUME NEW s \in DOMAIN steps, \E k \in DOMAIN order : order[k] = s
      PROVE  /\ ss[s] \in Step /\ ss[s].text = steps[s].text /\ ss[s].idx = at(s)
             /\ at(s) \in DOMAIN order /\ order[at(s)] = s
  <2>1. at(s) \in DOMAIN order /\ order[at(s)] = s /\ at(s) \in Nat
    BY <1>2
  <2>2. ss[s] = [steps[s] EXCEPT !.idx = at(s)]
    BY <1>2 DEF StepsInOrder
  <2>. HIDE DEF ss, at
  <2>3. ss[s] = [idx |-> at(s), text |-> steps[s].text] /\ steps[s].text \in Texts
    BY <2>2, CacheIs
  <2>. QED BY <2>1, <2>3 DEF Step
<1>3. ASSUME NEW s \in DOMAIN steps, ~ \E k \in DOMAIN order : order[k] = s
      PROVE  ss[s] \in Step /\ ss[s] = steps[s]
  BY <1>3 DEF StepsInOrder, Shapes, Cached
<1>. HIDE DEF ss, at
<1>4. ASSUME Distinct(order), NEW k \in DOMAIN order, order[k] \in DOMAIN steps
      PROVE  ss[order[k]].idx = k
  <2>1. ss[order[k]].idx = at(order[k]) /\ at(order[k]) \in DOMAIN order /\ order[at(order[k])] = order[k]
    BY <1>2, <1>4
  <2>. QED BY <1>4, <2>1 DEF Distinct
<1>. QED
  BY <1>1, <1>2, <1>3, <1>4 DEF ss

\* A listing, and the same with two neighbours swapped.
Swapped(current, i) == [current EXCEPT ![i] = current[i + 1], ![i + 1] = current[i]]

LEMMA SwappedIs ==
    ASSUME Shapes, NEW i \in 1..Cardinality(DOMAIN steps), i < Cardinality(DOMAIN steps), NEW current \in Listed
    PROVE  LET new == Swapped(current, i)
           IN  /\ current \in Seq(Int) /\ new \in Seq(Int) /\ Distinct(current) /\ Distinct(new)
               /\ \A k \in DOMAIN current : current[k] \in DOMAIN steps
               /\ \A k \in DOMAIN new : new[k] \in DOMAIN steps
               /\ DOMAIN current = 1..Cardinality(DOMAIN steps) /\ DOMAIN new = DOMAIN current
<1>. DEFINE n == Cardinality(DOMAIN steps)
            new == Swapped(current, i)
<1>1. n \in Nat
  BY CacheIs, FS_CardinalityType
<1>2. current \in [1..n -> DOMAIN steps] /\ Ordered(current)
  BY DEF Listed
<1>3. \A s \in DOMAIN steps : s \in Int
  BY CacheIs
<1>. HIDE DEF n
<1>4. DOMAIN current = 1..n /\ \A k \in 1..n : current[k] \in DOMAIN steps /\ current[k] \in Int
  BY <1>2, <1>3
<1>5. current \in Seq(Int)
  BY <1>1, <1>2, <1>3
<1>6. Distinct(current)
  <2>1. \A k, l \in 1..n : k < l \/ l < k \/ k = l
    BY <1>1
  <2>. QED BY <1>4, <2>1, <1>2 DEF Ordered, Distinct
<1>7. i \in 1..n /\ i + 1 \in 1..n
  BY <1>1 DEF n
<1>8. DOMAIN new = 1..n /\ \A k \in 1..n : new[k] = IF k = i + 1 THEN current[i] ELSE IF k = i THEN current[i + 1] ELSE current[k]
  BY <1>4, <1>7 DEF Swapped
<1>. HIDE DEF new
<1>9. \A k \in 1..n : new[k] \in DOMAIN steps /\ new[k] \in Int
  BY <1>4, <1>7, <1>8
<1>10. new \in Seq(Int)
  <2>1. new \in [1..n -> Int]
    BY <1>8, <1>9, Swapped(current, i) = [k \in DOMAIN current |-> Swapped(current, i)[k]] DEF Swapped, new
  <2>. QED BY <1>1, <2>1
<1>11. Distinct(new)
  <2>. SUFFICES ASSUME NEW k \in 1..n, NEW l \in 1..n, new[k] = new[l] PROVE k = l
    BY <1>8 DEF Distinct
  <2>. DEFINE g(e) == IF e = i + 1 THEN i ELSE IF e = i THEN i + 1 ELSE e
  <2>1. g(k) \in 1..n /\ g(l) \in 1..n /\ new[k] = current[g(k)] /\ new[l] = current[g(l)]
    BY <1>7, <1>8
  <2>2. g(k) = g(l)
    <3>. HIDE DEF g
    <3>. QED BY <1>4, <1>6, <2>1 DEF Distinct
  <2>. QED BY <2>2, <1>7
<1>. QED
  BY <1>4, <1>5, <1>6, <1>8, <1>9, <1>10, <1>11 DEF new, n

LEMMA ReorderTestStepsShapes ==
    ASSUME Shapes, NEW i \in 1..Cardinality(DOMAIN steps), ReorderTestSteps(i)
    PROVE  Shapes'
<1>1. i < Cardinality(DOMAIN steps)
  BY DEF ReorderTestSteps
<1>2. PICK current \in Listed :
          /\ steps' = StepsInOrder(Swapped(current, i))
          /\ Queue(pending, "test_step_order", TestKey, "order", current, Swapped(current, i))
  BY DEF ReorderTestSteps, Swapped
<1>. DEFINE new == Swapped(current, i)
            p == [id |-> lastRow + 1, type |-> "test_step_order", key |-> TestKey, field |-> "order",
                  before |-> current, after |-> new, base |-> test.ver]
<1>3. /\ current \in Seq(Int) /\ new \in Seq(Int) /\ Distinct(current) /\ Distinct(new)
      /\ \A k \in DOMAIN current : Known(current[k], born)
      /\ \A k \in DOMAIN new : Known(new[k], born)
  BY <1>1, SwappedIs, CacheIs DEF Known
<1>. HIDE DEF new
<1>4. Shape(p) /\ Names(p, born)
  <2>1. p \in Row /\ p.id > 0 /\ p.type = "test_step_order" /\ p.key = TestKey /\ p.field = "order"
        /\ p.before = current /\ p.after = new
    <3>. HIDE DEF p
    <3>1. "test_step_order" \in Types /\ "order" \in Fields \cup {"action", "step", "order"}
          /\ TestKey \in Int /\ current \in Values /\ new \in Values
      BY <1>3, TextsIs DEF Types, TestKey
    <3>. QED BY <3>1, NewRow DEF p
  <2>. HIDE DEF p
  <2>. QED BY <1>3, <2>1 DEF Shape, Names
<1>5. Table(pending', lastRow', born) /\ lastRow' = lastRow + 1
  <2>0. Table(pending, lastRow, born) /\ lastRow \in Nat
    BY DEF Shapes
  <2>1. pending' = Upsert(pending, lastRow + 1, "test_step_order", TestKey, "order", current, new, test.ver)
        /\ lastRow' = lastRow + 1
    BY <1>2 DEF Queue, new
  <2>2. Table(Upsert(pending, lastRow + 1, "test_step_order", TestKey, "order", current, new, test.ver), lastRow + 1, born)
    BY <1>4, <2>0, UpsertTable
  <2>. QED BY <2>1, <2>2
<1>6. Cached(test', steps', born)
  <2>1. steps' = StepsInOrder(new) /\ test' = test
    BY <1>2 DEF new, ReorderTestSteps
  <2>2. /\ DOMAIN StepsInOrder(new) = DOMAIN steps
        /\ StepsInOrder(new) = [s \in DOMAIN steps |-> StepsInOrder(new)[s]]
        /\ \A s \in DOMAIN steps : StepsInOrder(new)[s] \in Step
    BY <1>3, StepsInOrderIs
  <2>. QED BY <2>1, <2>2, CachedMapped
<1>. QED
  BY <1>5, <1>6, UserActShapes DEF ReorderTestSteps, UserActs

\* So does everything else that only changes what is local.
LEMMA LocalShapes ==
    ASSUME Shapes, UNCHANGED <<jira, born, lastRow, commit>>, conflict' \in {conflict, None},
           acts' \in Nat, met' \subseteq Met,
           Cached(test', steps', born), Table(pending', lastRow, born)
    PROVE  Shapes'
<1>1. UNCHANGED <<jira, born, lastRow, pc, rows, only, version, left, idMap, moves, content>>
  BY DEF commit
<1>2. Phases'
  BY <1>1 DEF Shapes, Phases, FieldRows, StatusRows, OfType, Stay, QueuedOrder
<1>3. Conflicting(conflict', lastRow, born)
  BY DEF Shapes, Conflicting
<1>. QED
  BY <1>1, <1>2, <1>3 DEF Shapes

LEMMA DiscardShapes ==
    ASSUME Shapes, NEW r \in pending, DiscardPendingChange(r)
    PROVE  Shapes'
<1>1. {"discard"} \cup Meanwhile \cup TakenBack({r}) \cup Revived(r) \subseteq Met
  BY FlagsIs DEF Meanwhile, TakenBack, Revived
<1>2. acts' \in Nat /\ met' \subseteq Met
  <2>. HIDE DEF Shapes
  <2>1. Act({"discard"} \cup Meanwhile \cup TakenBack({r}) \cup Revived(r))
    BY DEF DiscardPendingChange
  <2>. QED BY <1>1, <2>1, ActIs
<1>3. Shape(r) /\ Names(r, born)
  BY DEF Shapes, Table
<1>4. Table(pending', lastRow, born)
  <2>1. pending' = Delete(pending, {r.id}) /\ Table(pending, lastRow, born)
    BY DEF DiscardPendingChange, Shapes
  <2>. QED BY <2>1, DeleteIs, TableSubset
<1>5. Cached(test', steps, born)
  <2>1. CASE r.type = "test_case"
    <3>1. test' = [test EXCEPT !.field[r.field] = r.before] /\ r.before \in Texts
      BY <1>3, <2>1 DEF DiscardPendingChange, Shape
    <3>. QED BY <3>1 DEF Shapes, Cached
  <2>2. CASE r.type # "test_case"
    BY <2>2 DEF DiscardPendingChange, Shapes
  <2>. QED BY <2>1, <2>2
<1>6. /\ IsFiniteSet(DOMAIN steps') /\ steps' \in [DOMAIN steps' -> Step]
      /\ \A s \in DOMAIN steps' : Known(s, born)
  <2>0. \A s \in DOMAIN steps : Known(s, born) /\ steps[s] \in Step
    BY DEF Shapes, Cached
  <2>1. CASE r.type = "test_step" /\ r.key \in DOMAIN steps
    <3>1. steps' = [steps EXCEPT ![r.key].text = r.before] /\ r.before \in Texts
      BY <1>3, <2>1 DEF DiscardPendingChange, Shape
    <3>2. [steps[r.key] EXCEPT !.text = r.before] \in Step
      BY <2>1, <3>1, CacheIs DEF Step
    <3>3. DOMAIN steps' = DOMAIN steps /\ steps' \in [DOMAIN steps -> Step]
      BY <2>0, <3>1, <3>2, CacheIs
    <3>. QED BY <2>0, <3>3, CacheIs
  <2>2. CASE r.type = "test_step_delete"
    <3>1. steps' = With(steps, r.key, [idx |-> r.before[1], text |-> r.before[2]])
          /\ r.before \in Nat \X Texts /\ Known(r.key, born)
      BY <1>3, <2>2 DEF DiscardPendingChange, Shape, Names
    <3>2. [idx |-> r.before[1], text |-> r.before[2]] \in Step
      BY <3>1 DEF Step
    <3>3. DOMAIN steps' = DOMAIN steps \cup {r.key} /\ steps' \in [DOMAIN steps' -> Step]
      BY <2>0, <3>1, <3>2 DEF With
    <3>. QED BY <2>0, <3>1, <3>3, CacheIs, FS_AddElement
  <2>3. CASE r.type = "test_step_add"
    <3>1. steps' = Only(steps, DOMAIN steps \ {r.key})
      BY <2>3 DEF DiscardPendingChange
    <3>2. DOMAIN steps' = DOMAIN steps \ {r.key} /\ steps' \in [DOMAIN steps' -> Step]
      BY <2>0, <3>1 DEF Only
    <3>. QED BY <2>0, <3>2, CacheIs, FS_RemoveElement
  <2>4. CASE r.type = "test_step_order"
    <3>1. steps' = StepsInOrder(r.before) /\ r.before \in Seq(Int)
      BY <1>3, <2>4 DEF DiscardPendingChange, Shape
    <3>. QED BY <2>0, <3>1, StepsInOrderIs, CacheIs
  <2>5. CASE r.type = "test_case" \/ (r.type = "test_step" /\ r.key \notin DOMAIN steps)
    <3>1. steps' = steps
      BY <2>5 DEF DiscardPendingChange
    <3>. QED BY <2>0, <3>1 DEF Shapes, Cached
  <2>6. r.type \in Types
    BY <1>3, RowIs
  <2>. QED BY <2>1, <2>2, <2>3, <2>4, <2>5, <2>6 DEF Types
<1>7. Cached(test', steps', born)
  BY <1>5, <1>6 DEF Cached
<1>. QED
  BY <1>2, <1>4, <1>7, LocalShapes DEF DiscardPendingChange

\* The steps of Jira, cached.
LEMMA FetchedIs ==
    ASSUME Shapes, RefreshSteps
    PROVE  /\ DOMAIN steps' = IdsOf(jira.steps)
           /\ \A k \in DOMAIN jira.steps : LET s == jira.steps[k].id
                                           IN  /\ s \in DOMAIN steps' /\ s \in 1..born
                                               /\ steps'[s] = [idx |-> k, text |-> jira.steps[k].text]
           /\ \A s \in DOMAIN steps' : s \in 1..born /\ \E k \in DOMAIN jira.steps : jira.steps[k].id = s
<1>1. steps' = [s \in IdsOf(jira.steps) |-> [idx |-> At(jira.steps, s), text |-> jira.steps[At(jira.steps, s)].text]]
  BY DEF RefreshSteps
<1>2. Listing(jira.steps, lastRow, born)
  BY JiraIs
<1>3. ASSUME NEW k \in DOMAIN jira.steps
      PROVE  LET s == jira.steps[k].id
             IN  /\ s \in DOMAIN steps' /\ s \in 1..born
                 /\ steps'[s] = [idx |-> k, text |-> jira.steps[k].text]
  <2>1. At(jira.steps, jira.steps[k].id) = k /\ jira.steps[k].id \in IdsOf(jira.steps)
    BY <1>2, AtIs
  <2>. QED BY <1>1, <2>1, JiraIs
<1>. QED
  BY <1>1, <1>3 DEF IdsOf

LEMMA RefreshStepsShapes ==
    ASSUME Shapes, RefreshSteps
    PROVE  Shapes'
<1>1. UNCHANGED <<jira, born, test, pending, lastRow, conflict, commit>>
  BY DEF RefreshSteps
<1>2. acts' \in Nat /\ met' \subseteq Met
  <2>1. {"refresh"} \subseteq Met
    BY FlagsIs
  <2>2. acts \in Nat /\ met \subseteq Met
    BY DEF Shapes
  <2>. QED BY <2>1, <2>2, ActIs DEF RefreshSteps
<1>3. Cached(test', steps', born)
  <2>1. \A s \in DOMAIN steps' : Known(s, born) /\ steps'[s] \in Step
    <3>1. ASSUME NEW s \in DOMAIN steps' PROVE Known(s, born) /\ steps'[s] \in Step
      <4>1. PICK k \in DOMAIN jira.steps : jira.steps[k].id = s
        BY FetchedIs
      <4>2. steps'[s] = [idx |-> k, text |-> jira.steps[k].text] /\ s \in 1..born
        BY <4>1, FetchedIs
      <4>3. k \in Nat /\ jira.steps[k].text \in Texts
        BY JiraIs
      <4>4. born \in Nat
        BY CacheIs
      <4>. QED BY <4>2, <4>3, <4>4 DEF Known, Step
    <3>. QED BY <3>1
  <2>2. IsFiniteSet(DOMAIN steps')
    <3>1. DOMAIN steps' \subseteq 1..born /\ born \in Nat
      BY FetchedIs, CacheIs
    <3>2. IsFiniteSet(1..born)
      BY <3>1, FS_Interval
    <3>. QED BY <3>1, <3>2, FS_Subset
  <2>3. steps' \in [DOMAIN steps' -> Step]
    BY <2>1 DEF RefreshSteps
  <2>. QED BY <1>1, <2>1, <2>2, <2>3 DEF Cached, Shapes
<1>4. Table(pending', lastRow, born)
  BY <1>1 DEF Shapes
<1>. QED
  BY <1>1, <1>2, <1>3, <1>4, LocalShapes

LEMMA SyncTestShapes ==
    ASSUME Shapes, SyncTest
    PROVE  Shapes'
<1>1. UNCHANGED <<jira, born, steps, pending, lastRow, conflict, acts, commit>>
  BY DEF SyncTest
<1>2. acts' \in Nat /\ met' \subseteq Met
  BY FlagsIs DEF SyncTest, Shapes
<1>3. Cached(test', steps', born)
  <2>1. test' = Synced
    BY DEF SyncTest
  <2>2. Synced \in [ver: Nat, field: [Fields -> Texts]]
    BY CacheIs, JiraIs DEF Synced
  <2>. QED BY <1>1, <2>1, <2>2 DEF Shapes, Cached
<1>4. Table(pending', lastRow, born)
  BY <1>1 DEF Shapes
<1>. QED
  BY <1>1, <1>2, <1>3, <1>4, LocalShapes

\* What a resolution does to the cache, step by step.
Taken(theirs) == {c \in conflict.held : c.row.id \in theirs}
Undone(theirs) == {c \in Taken(theirs) : c.row.type = "test_step_delete"}
TextOf(theirs, s) == {c \in Taken(theirs) : c.row.type = "test_step" /\ c.row.key = s}
TakenOrder(theirs) == {c \in Taken(theirs) : c.row.type = "test_step_order"}
FieldOf(theirs, f) == {c \in Taken(theirs) : c.row.type = "test_case" /\ c.row.field = f}
Back(theirs) ==
    [s \in DOMAIN steps \cup {c.row.key : c \in Undone(theirs)} |->
       IF \E c \in Undone(theirs) : c.row.key = s
       THEN LET c == CHOOSE c \in Undone(theirs) : c.row.key = s
            IN  [idx |-> c.remote[1], text |-> c.remote[2]]
       ELSE IF TextOf(theirs, s) # {} THEN [steps[s] EXCEPT !.text = (CHOOSE c \in TextOf(theirs, s) : TRUE).remote]
       ELSE steps[s]]
PlaceOf(theirs, s) ==
    {k \in UNION {DOMAIN c.remote : c \in TakenOrder(theirs)} : \E c \in TakenOrder(theirs) : c.remote[k] = s}

LEMMA ResolveIs ==
    ASSUME NEW theirs, ResolveConflict(theirs)
    PROVE  /\ theirs \subseteq {c.row.id : c \in conflict.held}
           /\ test' = [test EXCEPT !.field = [f \in Fields |->
                          IF FieldOf(theirs, f) # {} THEN (CHOOSE c \in FieldOf(theirs, f) : TRUE).remote ELSE @[f]]]
           /\ steps' = [s \in DOMAIN Back(theirs) |->
                          IF PlaceOf(theirs, s) # {}
                          THEN [Back(theirs)[s] EXCEPT !.idx = CHOOSE k \in PlaceOf(theirs, s) : TRUE]
                          ELSE Back(theirs)[s]]
           /\ pending' = Rebased(Delete(pending, theirs), conflict.ver)
           /\ pc = "idle" /\ conflict # None /\ conflict' = None
           /\ UNCHANGED <<jira, born, lastRow, commit>>
BY DEF ResolveConflict, Resolve, Back, Undone, TextOf, TakenOrder, FieldOf, PlaceOf, Taken

\* The steps after a resolution: what was deleted comes back as the conflict
\* showed it, an edit gives way to the text it showed, the rest keep theirs.
LEMMA ResolvedSteps ==
    ASSUME Shapes, NEW theirs, ResolveConflict(theirs)
    PROVE  /\ DOMAIN steps' = DOMAIN steps \cup {c.row.key : c \in Undone(theirs)}
           /\ \A s \in DOMAIN steps' : steps'[s] \in Step /\ Known(s, born)
           /\ \A s \in DOMAIN steps' :
                 IF \E c \in Undone(theirs) : c.row.key = s
                 THEN \E c \in Undone(theirs) : c.row.key = s /\ steps'[s].text = c.remote[2]
                 ELSE /\ s \in DOMAIN steps
                      /\ IF TextOf(theirs, s) # {} THEN \E c \in TextOf(theirs, s) : steps'[s].text = c.remote
                         ELSE steps'[s].text = steps[s].text
           /\ TakenOrder(theirs) = {} => \A s \in DOMAIN steps : s \in DOMAIN steps' /\
                 ((~ \E c \in Undone(theirs) : c.row.key = s) => steps'[s].idx = steps[s].idx)
<1>. DEFINE B == Back(theirs)
            D == DOMAIN steps \cup {c.row.key : c \in Undone(theirs)}
<1>1. \A c \in conflict.held : Held(c, lastRow, born)
  BY ResolveIs DEF Shapes, Conflicting
<1>2. DOMAIN B = D
  BY DEF Back
<1>3. ASSUME NEW s \in D
      PROVE  /\ B[s] \in Step /\ Known(s, born)
             /\ IF \E c \in Undone(theirs) : c.row.key = s
                THEN \E c \in Undone(theirs) : c.row.key = s /\ B[s].text = c.remote[2]
                ELSE /\ s \in DOMAIN steps
                     /\ IF TextOf(theirs, s) # {} THEN \E c \in TextOf(theirs, s) : B[s].text = c.remote
                        ELSE B[s].text = steps[s].text
             /\ (~ \E c \in Undone(theirs) : c.row.key = s) => B[s].idx = steps[s].idx
  <2>1. CASE \E c \in Undone(theirs) : c.row.key = s
    <3>. DEFINE c == CHOOSE c \in Undone(theirs) : c.row.key = s
    <3>1. c \in Undone(theirs) /\ c.row.key = s
      BY <2>1
    <3>2. B[s] = [idx |-> c.remote[1], text |-> c.remote[2]]
      BY <1>2, <2>1 DEF Back
    <3>. HIDE DEF c, B
    <3>3. c \in conflict.held /\ c.row.type = "test_step_delete"
      BY <3>1 DEF Undone, Taken
    <3>4. c.remote \in Nat \X Texts /\ Known(c.row.key, born)
      BY <1>1, <3>3 DEF Held, Names
    <3>5. B[s] \in Step /\ B[s].text = c.remote[2]
      BY <3>2, <3>4 DEF Step
    <3>. QED BY <2>1, <3>1, <3>4, <3>5
  <2>2. CASE (~ \E c \in Undone(theirs) : c.row.key = s) /\ TextOf(theirs, s) # {}
    <3>. DEFINE c == CHOOSE c \in TextOf(theirs, s) : TRUE
    <3>1. c \in TextOf(theirs, s)
      BY <2>2
    <3>2. B[s] = [steps[s] EXCEPT !.text = c.remote] /\ s \in DOMAIN steps
      BY <1>2, <2>2 DEF Back
    <3>. HIDE DEF c, B
    <3>3. c \in conflict.held /\ c.row.type = "test_step"
      BY <3>1 DEF TextOf, Taken
    <3>4. c.remote \in Texts
      BY <1>1, <3>3 DEF Held
    <3>5. steps[s] = [idx |-> steps[s].idx, text |-> steps[s].text] /\ steps[s].idx \in Nat /\ Known(s, born)
      BY <3>2, CacheIs DEF Known
    <3>6. B[s] = [idx |-> steps[s].idx, text |-> c.remote]
      BY <3>2, <3>5
    <3>7. B[s] \in Step /\ B[s].text = c.remote /\ B[s].idx = steps[s].idx
      BY <3>4, <3>5, <3>6 DEF Step
    <3>. QED BY <2>2, <3>1, <3>2, <3>5, <3>7
  <2>3. CASE (~ \E c \in Undone(theirs) : c.row.key = s) /\ TextOf(theirs, s) = {}
    <3>1. B[s] = steps[s] /\ s \in DOMAIN steps
      BY <1>2, <2>3 DEF Back
    <3>2. steps[s] \in Step /\ Known(s, born)
      BY <3>1 DEF Shapes, Cached
    <3>. QED BY <2>3, <3>1, <3>2
  <2>. QED BY <2>1, <2>2, <2>3
<1>. HIDE DEF B
<1>4. steps' = [s \in D |-> IF PlaceOf(theirs, s) # {}
                             THEN [B[s] EXCEPT !.idx = CHOOSE k \in PlaceOf(theirs, s) : TRUE]
                             ELSE B[s]]
  BY <1>2, ResolveIs DEF B
<1>5. ASSUME NEW s \in D
      PROVE  /\ steps'[s] \in Step /\ steps'[s].text = B[s].text
             /\ TakenOrder(theirs) = {} => steps'[s] = B[s]
  <2>1. CASE PlaceOf(theirs, s) # {}
    <3>. DEFINE k == CHOOSE k \in PlaceOf(theirs, s) : TRUE
    <3>1. k \in PlaceOf(theirs, s)
      BY <2>1
    <3>2. steps'[s] = [B[s] EXCEPT !.idx = k]
      BY <1>4, <2>1
    <3>. HIDE DEF k
    <3>3. PICK c \in TakenOrder(theirs) : k \in DOMAIN c.remote
      BY <3>1 DEF PlaceOf
    <3>4. c \in conflict.held /\ c.row.type = "test_step_order"
      BY DEF TakenOrder, Taken
    <3>5. c.remote \in Seq(Int)
      BY <1>1, <3>4 DEF Held
    <3>6. k \in Nat
      BY <3>3, <3>5
    <3>7. steps'[s] \in Step /\ steps'[s].text = B[s].text
      BY <1>3, <3>2, <3>6 DEF Step
    <3>. QED BY <3>3, <3>7
  <2>2. CASE PlaceOf(theirs, s) = {}
    BY <1>3, <1>4, <2>2
  <2>. QED BY <2>1, <2>2
<1>6. DOMAIN steps' = D
  BY <1>4
<1>. HIDE DEF D
<1>7. \A s \in DOMAIN steps : s \in D
  BY DEF D
<1>. QED
  BY <1>3, <1>5, <1>6, <1>7 DEF D

LEMMA ResolveShapes ==
    ASSUME Shapes, NEW theirs, ResolveConflict(theirs)
    PROVE  Shapes'
<1>0. conflict # None /\ Conflicting(conflict, lastRow, born)
  BY ResolveIs DEF Shapes
<1>1. acts' \in Nat /\ met' \subseteq Met
  <2>. DEFINE now == (IF theirs = {} THEN {} ELSE {"theirs"}) \cup
                     (IF theirs # {} /\ conflict.ver < test.ver THEN {"undone"} ELSE {})
  <2>1. now \subseteq Met /\ Act(now)
    BY FlagsIs DEF ResolveConflict
  <2>. HIDE DEF now
  <2>. QED BY <2>1, ActIs
<1>2. Table(pending', lastRow, born)
  <2>1. pending' = Rebased(Delete(pending, theirs), conflict.ver) /\ conflict.ver \in Nat
    BY <1>0, ResolveIs DEF Conflicting
  <2>2. Table(Delete(pending, theirs), lastRow, born)
    BY DeleteIs, TableSubset DEF Shapes
  <2>. QED BY <2>1, <2>2, RebasedIs
<1>3. test' \in [ver: Nat, field: [Fields -> Texts]]
  <2>. DEFINE val(f) == IF FieldOf(theirs, f) # {} THEN (CHOOSE c \in FieldOf(theirs, f) : TRUE).remote ELSE test.field[f]
  <2>1. ASSUME NEW f \in Fields PROVE val(f) \in Texts
    <3>1. CASE FieldOf(theirs, f) # {}
      <4>. DEFINE c == CHOOSE c \in FieldOf(theirs, f) : TRUE
      <4>1. c \in FieldOf(theirs, f) /\ val(f) = c.remote
        BY <3>1
      <4>. HIDE DEF c, val
      <4>2. c \in conflict.held /\ c.row.type = "test_case"
        BY <4>1 DEF FieldOf, Taken
      <4>. QED BY <1>0, <4>1, <4>2 DEF Conflicting, Held
    <3>2. CASE FieldOf(theirs, f) = {}
      BY <3>2, CacheIs
    <3>. QED BY <3>1, <3>2
  <2>2. test' = [test EXCEPT !.field = [f \in Fields |-> val(f)]]
    BY ResolveIs
  <2>. HIDE DEF val
  <2>3. [f \in Fields |-> val(f)] \in [Fields -> Texts]
    BY <2>1
  <2>4. test = [ver |-> test.ver, field |-> test.field] /\ test.ver \in Nat
    BY CacheIs
  <2>. QED BY <2>2, <2>3, <2>4
<1>4. IsFiniteSet(DOMAIN steps')
  <2>. DEFINE U == Undone(theirs)
              f == [c \in U |-> c.row.key]
  <2>1. U \subseteq conflict.held
    BY DEF Undone, Taken
  <2>2. IsFiniteSet(U)
    <3>. HIDE DEF U
    <3>. QED BY <1>0, <2>1, FS_Subset DEF Conflicting
  <2>3. {c.row.key : c \in U} = {f[c] : c \in U} /\ f = [c \in U |-> f[c]] /\ DOMAIN f = U
    OBVIOUS
  <2>4. IsFiniteSet({f[c] : c \in U})
    <3>. HIDE DEF U, f
    <3>. QED BY <2>2, <2>3, FiniteValues
  <2>5. DOMAIN steps' = DOMAIN steps \cup {c.row.key : c \in U} /\ IsFiniteSet(DOMAIN steps)
    BY ResolvedSteps, CacheIs
  <2>. DEFINE T == {f[c] : c \in U}
  <2>6. DOMAIN steps' = DOMAIN steps \cup T
    BY <2>3, <2>5
  <2>7. IsFiniteSet(T)
    BY <2>4
  <2>. HIDE DEF U, f, T
  <2>8. IsFiniteSet(DOMAIN steps \cup T)
    BY <2>5, <2>7, FS_Union
  <2>. QED BY <2>6, <2>8
<1>5. Cached(test', steps', born)
  <2>1. steps' \in [DOMAIN steps' -> Step]
    <3>1. steps' = [s \in DOMAIN steps' |-> steps'[s]]
      BY ResolveIs
    <3>. QED BY <3>1, ResolvedSteps
  <2>. QED BY <1>3, <1>4, <2>1, ResolvedSteps DEF Cached
<1>. QED
  BY <1>1, <1>2, <1>5, ResolveIs, LocalShapes

-----------------------------------------------------------------------------
\* What a write leaves of the Test.
LEMMA WriteIs ==
    ASSUME Shapes, NEW field \in [Fields -> Texts], NEW s, NEW n, NEW b, Listing(s, n, b), Write(field, s)
    PROVE  Remotes(jira', n, b) /\ jira'.ver = jira.ver + 1 /\ jira'.field = field /\ jira'.steps = s
           /\ jira'.ver \in Nat /\ jira'.ver > jira.ver
<1>1. jira' = [ver |-> jira.ver + 1, field |-> field, steps |-> s] /\ jira.ver \in Nat
  BY JiraIs DEF Write
<1>. QED
  BY <1>1 DEF Remotes, Listing

LEMMA RemoteEditShapes ==
    ASSUME Shapes, RemoteEdit
    PROVE  Shapes'
<1>1. UNCHANGED <<born, test, steps, pending, lastRow, conflict, commit>>
  BY DEF RemoteEdit, Outside, local
<1>2. acts' \in Nat /\ met' \subseteq Met
  <2>. DEFINE now == {"outside"} \cup IF pc \in {"idle", "check"} THEN {} ELSE {"race"}
  <2>1. now \subseteq Met /\ Act(now)
    BY FlagsIs DEF RemoteEdit, Outside
  <2>. HIDE DEF now
  <2>. QED BY <2>1, ActIs
<1>3. Remotes(jira', lastRow, born)
  <2>0. Listing(jira.steps, lastRow, born) /\ jira.field \in [Fields -> Texts] /\ jira.steps \in Seq(JiraStep)
    BY JiraIs
  <2>1. ASSUME NEW f \in Fields, NEW v \in Theirs, Write([jira.field EXCEPT ![f] = v], jira.steps)
        PROVE  Remotes(jira', lastRow, born)
    <3>1. [jira.field EXCEPT ![f] = v] \in [Fields -> Texts]
      BY <2>0, TextsIs
    <3>. QED BY <2>0, <2>1, <3>1, WriteIs
  <2>2. ASSUME NEW k \in DOMAIN jira.steps, NEW v \in Theirs, Write(jira.field, [jira.steps EXCEPT ![k].text = v])
        PROVE  Remotes(jira', lastRow, born)
    <3>1. Listing([jira.steps EXCEPT ![k].text = v], lastRow, born)
      BY <2>0, TextsIs, TextListing
    <3>. QED BY <2>0, <2>2, <3>1, WriteIs
  <2>3. ASSUME NEW k \in DOMAIN jira.steps, Write(jira.field, Removed(jira.steps, jira.steps[k].id))
        PROVE  Remotes(jira', lastRow, born)
    <3>1. Listing(Removed(jira.steps, jira.steps[k].id), lastRow, born)
      BY <2>0, AtIs, RemovedListing
    <3>. QED BY <2>0, <2>3, <3>1, WriteIs
  <2>4. ASSUME NEW k \in DOMAIN jira.steps, k < Len(jira.steps), Write(jira.field, Moved(jira.steps, k, k + 1))
        PROVE  Remotes(jira', lastRow, born)
    <3>1. k + 1 \in DOMAIN jira.steps
      BY <2>0, <2>4
    <3>2. Listing(Moved(jira.steps, k, k + 1), lastRow, born)
      BY <2>0, <3>1, MovedListing
    <3>. QED BY <2>0, <2>4, <3>2, WriteIs
  <2>. QED BY <2>1, <2>2, <2>3, <2>4 DEF RemoteEdit
<1>4. UNCHANGED <<pc, rows, only, version, left, idMap, moves, content>>
  BY <1>1 DEF commit
<1>5. Phases'
  BY <1>1, <1>4 DEF Shapes, Phases, FieldRows, StatusRows, OfType, Stay, QueuedOrder
<1>. QED
  BY <1>1, <1>2, <1>3, <1>4, <1>5 DEF Shapes

-----------------------------------------------------------------------------
\* The Commit.

LEMMA LeaveIs ==
    ASSUME Leave
    PROVE  /\ pc' = "idle" /\ rows' = {} /\ only' = FALSE /\ version' = 0 /\ left' = {}
           /\ idMap' = <<>> /\ moves' = {} /\ content' = <<>>
           /\ \A n, b : Table(rows', n, b)
           /\ idMap' \in [DOMAIN idMap' -> 1..born'] /\ DOMAIN idMap' = {}
           /\ content' \in [DOMAIN content' -> Texts]
<1>1. /\ pc' = "idle" /\ rows' = {} /\ only' = FALSE /\ version' = 0 /\ left' = {}
      /\ idMap' = <<>> /\ moves' = {} /\ content' = <<>>
  BY DEF Leave
<1>2. \A n, b : Table({}, n, b)
  BY FS_EmptySet DEF Table, WellKeyed
<1>3. DOMAIN idMap' = {} /\ idMap' = [s \in {} |-> idMap'[s]] /\ DOMAIN content' = {} /\ content' = [s \in {} |-> content'[s]]
  BY <1>1
<1>. QED
  BY <1>1, <1>2, <1>3

\* The pass is over: what is left to show is what is not the Commit's.
LEMMA LeaveShapes ==
    ASSUME Shapes, Leave, born' \in {born, born + 1}, Remotes(jira', lastRow, born'), UNCHANGED <<test, steps, lastRow>>,
           Table(pending', lastRow, born), Conflicting(conflict', lastRow, born),
           acts' \in Nat, met' \subseteq Met
    PROVE  Shapes'
<1>1. born \in Nat /\ lastRow \in Nat /\ born' \in Nat /\ born <= born'
  BY DEF Shapes
<1>2. Cached(test', steps', born')
  BY <1>1, Grows
<1>3. Table(pending', lastRow', born')
  <2>1. lastRow' = lastRow /\ lastRow \in Int /\ born \in Int /\ born' \in Int /\ lastRow <= lastRow
    BY <1>1
  <2>. QED BY <1>1, <2>1, TableGrows
<1>4. Conflicting(conflict', lastRow', born')
  <2>1. ASSUME NEW c, Held(c, lastRow, born) PROVE Held(c, lastRow, born')
    <3>1. Names(c.row, born')
      <4>1. \A s : Known(s, born) => Known(s, born')
        BY <1>1 DEF Known
      <4>. QED BY <2>1, <4>1 DEF Held, Names
    <3>. QED BY <2>1, <3>1 DEF Held
  <2>. QED BY <2>1 DEF Conflicting
<1>5. Phases'
  BY LeaveIs DEF Phases
<1>. QED
  BY <1>1, <1>2, <1>3, <1>4, <1>5, LeaveIs DEF Shapes

LEMMA CommitChangesShapes ==
    ASSUME Shapes, NEW selected \in SUBSET pending, CommitChanges(selected)
    PROVE  Shapes'
<1>1. /\ rows' = selected /\ pc' = "check" /\ conflict' = None /\ pc = "idle" /\ only' \in BOOLEAN /\ met' \subseteq Met
      /\ UNCHANGED <<jira, born, test, steps, pending, lastRow, acts, version, left, idMap, moves, content>>
  BY FlagsIs DEF CommitChanges, local, Shapes
<1>2. Table(rows', lastRow, born)
  BY <1>1, TableSubset DEF Shapes
<1>3. left = {} /\ moves = {}
  BY <1>1 DEF Shapes, Phases
<1>4. Phases' /\ left' \subseteq rows'
  BY <1>1, <1>3 DEF Phases
<1>5. Conflicting(conflict', lastRow, born)
  BY <1>1 DEF Conflicting
<1>. QED
  BY <1>1, <1>2, <1>4, <1>5 DEF Shapes

LEMMA RemoteVersionShapes ==
    ASSUME Shapes, RemoteVersion
    PROVE  Shapes'
<1>1. /\ pc = "check" /\ version' \in Nat
      /\ UNCHANGED <<jira, born, test, steps, pending, lastRow, conflict, acts, rows, only, idMap, moves, content, met>>
  BY JiraIs DEF RemoteVersion, local
<1>2. left = {} /\ moves = {} /\ conflict = None
  BY <1>1 DEF Shapes, Phases
<1>3. (pc' = "scan" /\ left' = {}) \/ (pc' = "fields" /\ left' = FieldRows(rows))
  BY <1>2 DEF RemoteVersion, Enter
<1>4. Phases' /\ left' \subseteq rows'
  BY <1>1, <1>2, <1>3 DEF Phases, FieldRows, OfType
<1>. QED
  BY <1>1, <1>3, <1>4 DEF Shapes

\* What a conflict shows of a row it holds.
LEMMA RemoteIs ==
    ASSUME Shapes, NEW r, Shape(r)
    PROVE  /\ r.type \in {"test_case", "test_step"} => Remote(r) \in Texts
           /\ r.type = "test_step_delete" => IF Exists(r) THEN Remote(r) \in Nat \X Texts ELSE Remote(r) = Deleted
           /\ r.type = "test_step_order" => Remote(r) \in Seq(Int)
           /\ r.type = "test_case" => Remote(r) = jira.field[r.field]
           /\ r.type = "test_step" =>
                 Remote(r) = IF Exists(r) THEN jira.steps[At(jira.steps, r.key)].text ELSE Deleted
           /\ r.type = "test_step_delete" /\ Exists(r) =>
                 Remote(r) = <<At(jira.steps, r.key), jira.steps[At(jira.steps, r.key)].text>>
           /\ r.type = "test_step_order" => Remote(r) = OrderOf(jira.steps)
<1>1. Exists(r) => /\ At(jira.steps, r.key) \in DOMAIN jira.steps /\ At(jira.steps, r.key) \in Nat
                   /\ jira.steps[At(jira.steps, r.key)].text \in Texts
  BY JiraIs, AtIs DEF Exists
<1>2. CASE r.type = "test_case"
  BY <1>2, JiraIs DEF Remote, Shape
<1>3. CASE r.type = "test_step"
  BY <1>1, <1>3, TextsIs DEF Remote, Exists
<1>4. CASE r.type = "test_step_delete"
  BY <1>1, <1>4 DEF Remote, Exists
<1>5. CASE r.type = "test_step_order"
  <2>1. Remote(r) = OrderOf(jira.steps)
    BY <1>5 DEF Remote
  <2>2. \A k \in DOMAIN jira.steps : jira.steps[k].id \in Int
    BY JiraIs
  <2>3. OrderOf(jira.steps) \in Seq(Int)
    BY <2>2, JiraIs DEF OrderOf
  <2>. QED BY <1>5, <2>1, <2>3
<1>6. CASE r.type = "test_step_add"
  BY <1>6
<1>. QED
  BY <1>2, <1>3, <1>4, <1>5, <1>6, RowIs DEF Types

\* What detectConflicts makes of the rows.
There == {r \in rows : AlreadyThere(r)}
Rest == rows \ There
HeldBack == {[row |-> r, remote |-> Remote(r)] : r \in {q \in Rest : ~Untouched(q)}}
Open == Delete(pending, {r.id : r \in There})

LEMMA DetectIs ==
    ASSUME DetectConflicts
    PROVE  /\ pc = "scan" /\ UNCHANGED <<jira, born, test, steps, lastRow, acts, kept>>
           /\ \/ /\ HeldBack # {} \/ Rest = {}
                 /\ Leave /\ pending' = Open
                 /\ conflict' = IF HeldBack = {} THEN None ELSE [ver |-> version, held |-> HeldBack]
                 /\ met' = IF HeldBack = {} \/ rows \subseteq pending THEN met ELSE met \cup {"onscreen"}
              \/ /\ HeldBack = {} /\ Rest # {}
                 /\ rows' = Rest /\ pc' = "fields" /\ left' = FieldRows(Rest)
                 /\ pending' = Rebased(Open, version)
                 /\ UNCHANGED <<conflict, only, version, idMap, moves, content, met>>
BY DEF DetectConflicts, There, Rest, HeldBack, Open, Enter

LEMMA DetectConflictsShapes ==
    ASSUME Shapes, DetectConflicts
    PROVE  Shapes'
<1>1. /\ pc = "scan" /\ UNCHANGED <<jira, born, test, steps, lastRow, acts>>
      /\ Table(rows, lastRow, born) /\ version \in Nat /\ met \subseteq Met /\ acts \in Nat
      /\ Remotes(jira, lastRow, born) /\ moves = {} /\ conflict = None
  BY DetectIs DEF Shapes, Phases
<1>2. Table(Open, lastRow, born) /\ Table(Rest, lastRow, born)
  <2>1. Table(pending, lastRow, born)
    BY DEF Shapes
  <2>2. Open \subseteq pending /\ Rest \subseteq rows
    BY DEF Open, Rest, Delete
  <2>. QED BY <1>1, <2>1, <2>2, TableSubset
<1>3. CASE /\ Leave /\ pending' = Open
           /\ conflict' = IF HeldBack = {} THEN None ELSE [ver |-> version, held |-> HeldBack]
           /\ met' = IF HeldBack = {} \/ rows \subseteq pending THEN met ELSE met \cup {"onscreen"}
  <2>1. Conflicting(conflict', lastRow, born)
    <3>. DEFINE R == {q \in Rest : ~Untouched(q)}
                f == [r \in R |-> [row |-> r, remote |-> Remote(r)]]
    <3>1. R \subseteq Rest /\ \A r \in R : ~Untouched(r)
      OBVIOUS
    <3>2. HeldBack = {f[r] : r \in R} /\ f = [r \in R |-> f[r]] /\ DOMAIN f = R
      BY DEF HeldBack
    <3>3. \A r \in R : f[r].row = r /\ f[r].remote = Remote(r)
      OBVIOUS
    <3>. HIDE DEF R, f
    <3>4. IsFiniteSet(R)
      BY <1>2, <3>1, FS_Subset DEF Table
    <3>5. IsFiniteSet(HeldBack)
      BY <3>2, <3>4, FiniteValues
    <3>6. ASSUME NEW r \in R PROVE Held(f[r], lastRow, born)
      <4>1. Shape(r) /\ Names(r, born) /\ r.id <= lastRow
        BY <1>2, <3>1 DEF Table
      <4>2. r.type # "test_step_add" /\ (r.type = "test_step_delete" => Exists(r))
        <5>1. ~ AlreadyThere(r)
          BY <3>1 DEF Rest, There
        <5>2. r.type # "test_step_add"
          BY <3>1 DEF Untouched
        <5>3. r.type = "test_step_delete" => Remote(r) # Deleted
          BY <5>1 DEF AlreadyThere
        <5>. QED BY <4>1, <5>2, <5>3, RemoteIs
      <4>. QED BY <3>3, <4>1, <4>2, RemoteIs DEF Held
    <3>7. \A h \in HeldBack : Held(h, lastRow, born)
      BY <3>2, <3>6
    <3>. QED BY <1>1, <1>3, <3>5, <3>7 DEF Conflicting
  <2>2. met' \subseteq Met
    BY <1>1, <1>3, FlagsIs
  <2>3. Table(pending', lastRow, born)
    BY <1>2, <1>3
  <2>. QED BY <1>1, <1>3, <2>1, <2>2, <2>3, LeaveShapes
<1>4. CASE /\ rows' = Rest /\ pc' = "fields" /\ left' = FieldRows(Rest)
           /\ pending' = Rebased(Open, version)
           /\ UNCHANGED <<conflict, only, version, idMap, moves, content, met>>
  <2>1. Table(pending', lastRow, born)
    BY <1>1, <1>2, <1>4, RebasedIs
  <2>2. Phases' /\ left' \subseteq rows'
    BY <1>1, <1>4 DEF Phases, FieldRows, OfType
  <2>. QED BY <1>1, <1>2, <1>4, <2>1, <2>2 DEF Shapes
<1>. QED
  BY <1>3, <1>4, DetectIs

\* The rows a phase has before it are rows of the Commit.
LEMMA LeftIs ==
    ASSUME Shapes, NEW r \in left
    PROVE  /\ r \in rows /\ Shape(r) /\ Names(r, born) /\ r.id \in Nat /\ r.id <= lastRow
           /\ pc \in {"fields", "status"} => r.type = "test_case"
           /\ pc = "fields" => r.field # "status"
           /\ pc = "status" => r.field = "status"
           /\ pc = "deletes" => r.type = "test_step_delete"
           /\ pc = "edits" => r.type = "test_step"
           /\ pc = "adds" => r.type = "test_step_add"
<1>1. r \in rows
  BY DEF Shapes
<1>2. Shape(r) /\ Names(r, born) /\ r.id <= lastRow
  BY <1>1 DEF Shapes, Table
<1>. QED
  BY <1>1, <1>2, RowIs DEF Shapes, Phases, FieldRows, StatusRows, OfType

\* What each call does when it lands.
LEMMA LandFieldsIs ==
    ASSUME Shapes, pc = "fields", LandFields
    PROVE  /\ Remotes(jira', lastRow, born) /\ jira'.ver = jira.ver + 1 /\ jira'.steps = jira.steps
           /\ \A f \in Fields : jira'.field[f] = AfterVal(left, "test_case", TestKey, f, jira.field[f])
<1>. DEFINE g == [f \in Fields |-> AfterVal(left, "test_case", TestKey, f, jira.field[f])]
<1>1. ASSUME NEW f \in Fields PROVE AfterVal(left, "test_case", TestKey, f, jira.field[f]) \in Texts
  <2>1. \A r \in RowsAt(left, "test_case", TestKey, f) : r.after \in Texts
    <3>1. ASSUME NEW r \in RowsAt(left, "test_case", TestKey, f) PROVE r.after \in Texts
      <4>1. r \in left /\ r.type = "test_case"
        BY AtPlace
      <4>. QED BY <4>1, LeftIs, TextsIs DEF Shape
    <3>. QED BY <3>1
  <2>. DEFINE d == jira.field[f]
  <2>2. d \in Texts
    BY JiraIs
  <2>. HIDE DEF d
  <2>3. AfterVal(left, "test_case", TestKey, f, d) \in Texts
    BY <2>1, <2>2, AfterValIn
  <2>. QED BY <2>3 DEF d
<1>2. g \in [Fields -> Texts]
  BY <1>1
<1>3. Write(g, jira.steps)
  BY DEF LandFields
<1>4. \A f \in Fields : g[f] = AfterVal(left, "test_case", TestKey, f, jira.field[f])
  OBVIOUS
<1>. HIDE DEF g
<1>. QED
  BY <1>2, <1>3, <1>4, WriteIs, JiraIs

LEMMA LandStatusIs ==
    ASSUME Shapes, pc = "status", NEW r \in left, LandStatus(r)
    PROVE  /\ Remotes(jira', lastRow, born) /\ jira'.ver = jira.ver + 1 /\ jira'.steps = jira.steps
           /\ \A f \in Fields : jira'.field[f] = IF f = r.field THEN r.after ELSE jira.field[f]
<1>1. r.field \in Fields /\ r.after \in Texts
  BY LeftIs, TextsIs DEF Shape
<1>. DEFINE g == [jira.field EXCEPT ![r.field] = r.after]
<1>2. g \in [Fields -> Texts] /\ \A f \in Fields : g[f] = IF f = r.field THEN r.after ELSE jira.field[f]
  BY <1>1, JiraIs
<1>3. Write(g, jira.steps)
  BY DEF LandStatus
<1>. HIDE DEF g
<1>. QED
  BY <1>2, <1>3, WriteIs, JiraIs

LEMMA LandDeleteIs ==
    ASSUME Shapes, NEW r, Exists(r), LandDelete(r)
    PROVE  /\ Remotes(jira', lastRow, born) /\ jira'.ver = jira.ver + 1 /\ jira'.field = jira.field
           /\ jira'.steps = Removed(jira.steps, r.key)
           /\ IdsOf(jira'.steps) = IdsOf(jira.steps) \ {r.key}
           /\ \A i \in DOMAIN jira'.steps : \E k \in DOMAIN jira.steps :
                 jira.steps[k].id # r.key /\ jira'.steps[i] = jira.steps[k]
           /\ \A k \in DOMAIN jira.steps : jira.steps[k].id # r.key =>
                 \E i \in DOMAIN jira'.steps : jira'.steps[i] = jira.steps[k]
<1>0. Listing(jira.steps, lastRow, born) /\ r.key \in IdsOf(jira.steps)
  BY JiraIs DEF Exists
<1>1. /\ Listing(Removed(jira.steps, r.key), lastRow, born)
      /\ IdsOf(Removed(jira.steps, r.key)) = IdsOf(jira.steps) \ {r.key}
      /\ \A i \in DOMAIN Removed(jira.steps, r.key) : \E k \in DOMAIN jira.steps :
            k # At(jira.steps, r.key) /\ Removed(jira.steps, r.key)[i] = jira.steps[k]
      /\ \A k \in DOMAIN jira.steps : k # At(jira.steps, r.key) =>
            \E i \in DOMAIN Removed(jira.steps, r.key) : Removed(jira.steps, r.key)[i] = jira.steps[k]
  BY <1>0, RemovedListing
<1>2. /\ jira'.steps = Removed(jira.steps, r.key) /\ Remotes(jira', lastRow, born)
      /\ jira'.ver = jira.ver + 1 /\ jira'.field = jira.field
  BY <1>1, WriteIs, JiraIs DEF LandDelete
<1>3. \A k \in DOMAIN jira.steps : k # At(jira.steps, r.key) <=> jira.steps[k].id # r.key
  BY <1>0, AtIs
<1>. QED
  BY <1>1, <1>2, <1>3

LEMMA LandEditIs ==
    ASSUME Shapes, NEW r, Exists(r), r.after \in Texts, LandEdit(r)
    PROVE  /\ Remotes(jira', lastRow, born) /\ jira'.ver = jira.ver + 1 /\ jira'.field = jira.field
           /\ DOMAIN jira'.steps = DOMAIN jira.steps
           /\ \A k \in DOMAIN jira.steps :
                 /\ jira'.steps[k].id = jira.steps[k].id /\ jira'.steps[k].row = jira.steps[k].row
                 /\ jira'.steps[k].text = IF jira.steps[k].id = r.key THEN r.after ELSE jira.steps[k].text
           /\ IdsOf(jira'.steps) = IdsOf(jira.steps)
<1>. DEFINE a == At(jira.steps, r.key)
            m == [jira.steps EXCEPT ![a].text = r.after]
<1>0. Listing(jira.steps, lastRow, born) /\ a \in DOMAIN jira.steps /\ jira.steps[a].id = r.key
  BY JiraIs, AtIs DEF Exists
<1>1. \A k \in DOMAIN jira.steps : k = a <=> jira.steps[k].id = r.key
  BY <1>0, AtIs
<1>2. Write(jira.field, m)
  BY DEF LandEdit
<1>3. /\ Listing(m, lastRow, born) /\ DOMAIN m = DOMAIN jira.steps
      /\ \A k \in DOMAIN jira.steps : /\ m[k].id = jira.steps[k].id /\ m[k].row = jira.steps[k].row
                             /\ m[k].text = IF k = a THEN r.after ELSE jira.steps[k].text
  <2>. HIDE DEF a
  <2>. QED BY <1>0, TextListing
<1>. HIDE DEF m, a
<1>4. Remotes(jira', lastRow, born) /\ jira'.ver = jira.ver + 1 /\ jira'.field = jira.field /\ jira'.steps = m
  BY <1>2, <1>3, WriteIs, JiraIs
<1>5. \A x : x \in IdsOf(m) <=> x \in IdsOf(jira.steps)
  BY <1>3 DEF IdsOf
<1>. QED
  BY <1>1, <1>3, <1>4, <1>5

LEMMA LandAddIs ==
    ASSUME Shapes, pc = "adds", NEW r \in left, LandAdd(r)
    PROVE  /\ born' = born + 1
           /\ Remotes(jira', lastRow, born + 1) /\ jira'.ver = jira.ver + 1 /\ jira'.field = jira.field
           /\ IdsOf(jira'.steps) = IdsOf(jira.steps) \cup {born + 1} /\ born + 1 \notin IdsOf(jira.steps)
           /\ Len(jira'.steps) = Len(jira.steps) + 1
           /\ \A k \in DOMAIN jira.steps : k \in DOMAIN jira'.steps /\ jira'.steps[k] = jira.steps[k]
           /\ jira'.steps[Len(jira.steps) + 1] = [id |-> born + 1, text |-> r.after[2], row |-> r.id]
<1>0. Listing(jira.steps, lastRow, born) /\ lastRow \in Nat /\ born \in Nat
  BY JiraIs, CacheIs
<1>. DEFINE v == r.after[2]
<1>1. v \in Texts /\ r.id \in Nat /\ r.id <= lastRow
  BY LeftIs, TextsIs DEF Shape
<1>. DEFINE m == Append(jira.steps, [id |-> born + 1, text |-> v, row |-> r.id])
<1>2. Write(jira.field, m) /\ born' = born + 1
  BY DEF LandAdd
<1>. HIDE DEF v
<1>3. /\ Listing(m, lastRow, born + 1) /\ Len(m) = Len(jira.steps) + 1
      /\ IdsOf(m) = IdsOf(jira.steps) \cup {born + 1} /\ born + 1 \notin IdsOf(jira.steps)
      /\ \A k \in DOMAIN jira.steps : k \in DOMAIN m /\ m[k] = jira.steps[k]
      /\ m[Len(jira.steps) + 1] = [id |-> born + 1, text |-> v, row |-> r.id]
  BY <1>0, <1>1, AppendedListing
<1>. HIDE DEF m
<1>4. Remotes(jira', lastRow, born + 1) /\ jira'.ver = jira.ver + 1 /\ jira'.field = jira.field /\ jira'.steps = m
  BY <1>2, <1>3, WriteIs, JiraIs
<1>. QED
  BY <1>2, <1>3, <1>4 DEF v

\* The order a Commit goes by, and the places it gives.
LEMMA QueuedOrderIs ==
    ASSUME Shapes, OfType(rows, "test_step_order") # {}
    PROVE  /\ QueuedOrder \in Seq(Int) /\ Distinct(QueuedOrder)
           /\ \A k \in DOMAIN QueuedOrder : Known(QueuedOrder[k], born)
           /\ \A r \in OfType(rows, "test_step_order") : QueuedOrder = r.after
<1>. DEFINE q == CHOOSE r \in OfType(rows, "test_step_order") : TRUE
<1>1. q \in OfType(rows, "test_step_order") /\ QueuedOrder = q.after
  BY DEF QueuedOrder
<1>. HIDE DEF q
<1>2. \A r \in OfType(rows, "test_step_order") : r \in rows /\ r.type = "test_step_order"
  BY DEF OfType
<1>3. \A r \in rows : Shape(r) /\ Names(r, born)
  BY DEF Shapes, Table
<1>4. ASSUME NEW r \in OfType(rows, "test_step_order") PROVE r = q
  <2>1. r.key = q.key /\ r.field = q.field /\ r.type = q.type
    BY <1>1, <1>2, <1>3 DEF Shape
  <2>. QED BY <1>1, <1>2, <2>1 DEF Shapes, Table, WellKeyed
<1>. QED
  BY <1>1, <1>2, <1>3, <1>4 DEF Shape, Names

LEMMA PlaceIs ==
    ASSUME Shapes, OfType(rows, "test_step_order") # {}
    PROVE  /\ Stay(QueuedOrder) \subseteq DOMAIN QueuedOrder
           /\ \A k \in Stay(QueuedOrder) : Place(k) \in Nat /\ Place(k) > 0 /\ k \in Nat /\ k > 0
           /\ \A k, l \in Stay(QueuedOrder) : k < l => Place(k) < Place(l)
<1>1. QueuedOrder \in Seq(Int)
  BY QueuedOrderIs
<1>2. DOMAIN QueuedOrder = 1..Len(QueuedOrder) /\ Len(QueuedOrder) \in Nat /\ IsFiniteSet(DOMAIN QueuedOrder)
  BY <1>1, FS_Interval
<1>3. Stay(QueuedOrder) \subseteq DOMAIN QueuedOrder
  BY DEF Stay
<1>. DEFINE S == Stay(QueuedOrder)
            upto(k) == {l \in S : l <= k}
<1>4. IsFiniteSet(S) /\ \A k \in S : k \in Nat /\ k > 0
  BY <1>2, <1>3, FS_Subset
<1>5. ASSUME NEW k \in S PROVE IsFiniteSet(upto(k)) /\ Cardinality(upto(k)) \in Nat /\ Cardinality(upto(k)) > 0 /\ Place(k) = Cardinality(upto(k))
  <2>1. upto(k) \subseteq S /\ k \in upto(k)
    BY <1>4
  <2>2. Place(k) = Cardinality(upto(k))
    BY DEF Place
  <2>. HIDE DEF upto, S
  <2>3. IsFiniteSet(upto(k))
    BY <1>4, <2>1, FS_Subset
  <2>4. Cardinality(upto(k)) \in Nat /\ Cardinality(upto(k)) # 0
    BY <2>1, <2>3, FS_CardinalityType, FS_EmptySet
  <2>. QED BY <2>2, <2>3, <2>4
<1>6. ASSUME NEW k \in S, NEW l \in S, k < l PROVE Cardinality(upto(k)) < Cardinality(upto(l))
  <2>0. k \in Nat /\ l \in Nat /\ \A e \in S : e \in Nat
    BY <1>4
  <2>1. upto(k) \subseteq upto(l)
    <3>1. \A e \in S : e <= k => e <= l
      BY <1>6, <2>0
    <3>. QED BY <3>1
  <2>2. l \in upto(l)
    BY <2>0
  <2>3. l \notin upto(k)
    BY <1>6, <2>0
  <2>4. IsFiniteSet(upto(l)) /\ Cardinality(upto(l)) \in Nat /\ Cardinality(upto(k)) \in Nat
    BY <1>5
  <2>. HIDE DEF upto
  <2>5. Cardinality(upto(k)) <= Cardinality(upto(l)) /\ Cardinality(upto(k)) # Cardinality(upto(l))
    BY <2>1, <2>2, <2>3, <2>4, FS_Subset
  <2>. QED BY <2>4, <2>5
<1>. HIDE DEF upto
<1>. QED
  BY <1>3, <1>4, <1>5, <1>6

LEMMA LandMoveIs ==
    ASSUME Shapes, pc = "moves", NEW k \in moves, Movable(k), LandMove(k)
    PROVE  /\ Remotes(jira', lastRow, born) /\ jira'.ver = jira.ver + 1 /\ jira'.field = jira.field
           /\ IdsOf(jira'.steps) = IdsOf(jira.steps)
           /\ DOMAIN jira'.steps = DOMAIN jira.steps
           /\ Place(k) \in DOMAIN jira.steps
           /\ \A l \in DOMAIN jira.steps : LET e == Spot(l, At(jira.steps, Mover(k)), Place(k))
                                           IN  /\ e \in DOMAIN jira'.steps
                                               /\ At(jira'.steps, jira.steps[l].id) = e
                                               /\ jira'.steps[e].id = jira.steps[l].id
                                               /\ jira'.steps[e].row = jira.steps[l].row
                                               /\ jira'.steps[e].text = IF jira.steps[l].id = Mover(k)
                                                     THEN content[Mover(k)] ELSE jira.steps[l].text
<1>. DEFINE a == At(jira.steps, Mover(k))
            p == Place(k)
            v == content[Mover(k)]
            u == [jira.steps EXCEPT ![a].text = v]
            m == Moved(u, a, p)
<1>0. /\ Listing(jira.steps, lastRow, born) /\ a \in DOMAIN jira.steps /\ jira.steps[a].id = Mover(k)
      /\ v \in Texts
  BY JiraIs, AtIs DEF Movable, Shapes
<1>1. p \in DOMAIN jira.steps
  <2>1. OfType(rows, "test_step_order") # {} /\ k \in Stay(QueuedOrder)
    BY DEF Shapes, Phases
  <2>2. p \in Nat /\ p > 0 /\ p <= Len(jira.steps)
    BY <2>1, PlaceIs DEF Movable
  <2>. HIDE DEF p
  <2>. QED BY <2>2, JiraIs
<1>2. \A l \in DOMAIN jira.steps : l = a <=> jira.steps[l].id = Mover(k)
  BY <1>0, AtIs
<1>3. Write(jira.field, m)
  BY DEF LandMove
<1>. HIDE DEF p, v
<1>4. /\ Listing(u, lastRow, born) /\ DOMAIN u = DOMAIN jira.steps
      /\ \A l \in DOMAIN jira.steps : /\ u[l].id = jira.steps[l].id /\ u[l].row = jira.steps[l].row
                             /\ u[l].text = IF l = a THEN v ELSE jira.steps[l].text
  <2>. HIDE DEF a
  <2>. QED BY <1>0, TextListing
<1>. HIDE DEF u, a
<1>5. /\ Listing(m, lastRow, born) /\ DOMAIN m = DOMAIN u /\ IdsOf(m) = IdsOf(u)
      /\ \A l \in DOMAIN u : Spot(l, a, p) \in DOMAIN m /\ m[Spot(l, a, p)] = u[l]
      /\ \A l \in DOMAIN u : At(m, u[l].id) = Spot(l, a, p)
  <2>1. a \in DOMAIN u /\ p \in DOMAIN u /\ Listing(u, lastRow, born)
    BY <1>0, <1>1, <1>4
  <2>2. /\ Listing(Moved(u, a, p), lastRow, born) /\ DOMAIN Moved(u, a, p) = DOMAIN u
        /\ IdsOf(Moved(u, a, p)) = IdsOf(u)
        /\ \A l \in DOMAIN u : Spot(l, a, p) \in DOMAIN Moved(u, a, p) /\ Moved(u, a, p)[Spot(l, a, p)] = u[l]
        /\ \A l \in DOMAIN u : At(Moved(u, a, p), u[l].id) = Spot(l, a, p)
    BY <2>1, MovedListing
  <2>. QED BY <2>2
<1>. HIDE DEF m
<1>6. Remotes(jira', lastRow, born) /\ jira'.ver = jira.ver + 1 /\ jira'.field = jira.field /\ jira'.steps = m
  BY <1>3, <1>5, WriteIs, JiraIs
<1>7. \A x : x \in IdsOf(u) <=> x \in IdsOf(jira.steps)
  BY <1>4 DEF IdsOf
<1>8. \A l \in DOMAIN jira.steps : /\ Spot(l, a, p) \in DOMAIN m
                                   /\ At(m, jira.steps[l].id) = Spot(l, a, p)
                                   /\ m[Spot(l, a, p)].id = jira.steps[l].id
                                   /\ m[Spot(l, a, p)].row = jira.steps[l].row
                                   /\ m[Spot(l, a, p)].text = IF jira.steps[l].id = Mover(k)
                                         THEN v ELSE jira.steps[l].text
  BY <1>2, <1>4, <1>5
<1>. QED
  BY <1>1, <1>4, <1>5, <1>6, <1>7, <1>8 DEF a, p, v

\* A call of the Commit, or the end of a phase, keeps what is local.
LEMMA SendShapes ==
    ASSUME Shapes, Sending, pc \in {"fields", "status", "deletes", "edits", "adds"},
           Remotes(jira', lastRow, born), left' \subseteq rows,
           \/ pc' \in {"status", "deletes", "edits", "adds"} /\ left' = CASE pc' = "status" -> StatusRows(rows)
                    [] pc' = "deletes" -> OfType(rows, "test_step_delete")
                    [] pc' = "edits" -> OfType(rows, "test_step")
                    [] pc' = "adds" -> OfType(rows, "test_step_add")
           \/ pc' = pc /\ pc \in {"deletes", "edits"} /\ left' \subseteq left
    PROVE  Shapes'
<1>1. /\ UNCHANGED <<born, test, steps, pending, lastRow, conflict, acts, rows, only, version, idMap, moves, content, met>>
      /\ moves = {} /\ conflict = None
  BY DEF Sending, local, Shapes, Phases
<1>2. Phases'
  <2>1. pc' = "status" => left' = StatusRows(rows)
    OBVIOUS
  <2>2. pc' = "deletes" => left' \subseteq OfType(rows, "test_step_delete")
    BY DEF Shapes, Phases
  <2>3. pc' = "edits" => left' \subseteq OfType(rows, "test_step")
    BY DEF Shapes, Phases
  <2>4. pc' = "adds" => left' \subseteq OfType(rows, "test_step_add")
    OBVIOUS
  <2>5. pc' \notin {"idle", "check", "scan", "fields", "moves", "clear", "rebase"}
    OBVIOUS
  <2>. QED BY <1>1, <2>1, <2>2, <2>3, <2>4, <2>5 DEF Phases, StatusRows, OfType
<1>. QED
  BY <1>1, <1>2 DEF Shapes

LEMMA PhaseShapes ==
    ASSUME Shapes
    PROVE  /\ UpdateIssue => Shapes'
           /\ ApplyTransition => Shapes'
           /\ \A r \in left : RemoteDeleteStep(r) \/ UpdateTestStep(r) => Shapes'
           /\ PhaseDone => Shapes'
<1>0. Remotes(jira, lastRow, born) /\ left \subseteq rows
  BY DEF Shapes
<1>1. ASSUME UpdateIssue PROVE Shapes'
  <2>1. pc = "fields" /\ Sending /\ pc' = "status" /\ left' = StatusRows(rows)
    BY <1>1 DEF UpdateIssue, Enter
  <2>2. Remotes(jira', lastRow, born)
    BY <1>0, <1>1, <2>1, LandFieldsIs DEF UpdateIssue
  <2>. QED BY <2>1, <2>2, SendShapes DEF StatusRows, OfType
<1>2. ASSUME ApplyTransition PROVE Shapes'
  <2>1. pc = "status" /\ Sending /\ pc' = "deletes" /\ left' = OfType(rows, "test_step_delete")
    BY <1>2 DEF ApplyTransition, Enter
  <2>2. Remotes(jira', lastRow, born)
    BY <1>0, <1>2, <2>1, LandStatusIs DEF ApplyTransition
  <2>. QED BY <2>1, <2>2, SendShapes DEF OfType
<1>3. ASSUME NEW r \in left, RemoteDeleteStep(r) PROVE Shapes'
  <2>1. pc = "deletes" /\ Sending /\ pc' = pc /\ left' = left \ {r} /\ Exists(r) /\ LandDelete(r)
    BY <1>3 DEF RemoteDeleteStep
  <2>2. Remotes(jira', lastRow, born)
    BY <2>1, LandDeleteIs
  <2>. QED BY <1>0, <2>1, <2>2, SendShapes
<1>4. ASSUME NEW r \in left, UpdateTestStep(r) PROVE Shapes'
  <2>1. pc = "edits" /\ Sending /\ pc' = pc /\ left' = left \ {r} /\ Exists(r) /\ LandEdit(r)
    BY <1>4 DEF UpdateTestStep
  <2>2. r.after \in Texts
    BY <2>1, LeftIs, TextsIs DEF Shape
  <2>3. Remotes(jira', lastRow, born)
    BY <2>1, <2>2, LandEditIs
  <2>. QED BY <1>0, <2>1, <2>3, SendShapes
<1>5. ASSUME PhaseDone PROVE Shapes'
  <2>1. /\ Sending /\ jira' = jira
        /\ \/ pc = "deletes" /\ pc' = "edits" /\ left' = OfType(rows, "test_step")
           \/ pc = "edits" /\ pc' = "adds" /\ left' = OfType(rows, "test_step_add")
    BY <1>5 DEF PhaseDone, Enter
  <2>. QED BY <1>0, <2>1, SendShapes DEF OfType
<1>. QED
  BY <1>1, <1>2, <1>3, <1>4, <1>5

\* What creating a step leaves of the cache and of the ids.
LEMMA CreateStepIs ==
    ASSUME Shapes, NEW r \in left, CreateStep(r)
    PROVE  /\ pc = "adds" /\ Lowest(r) /\ r.after[2] # Blank /\ LandAdd(r) /\ left' = left \ {r} /\ pc' = pc
           /\ UNCHANGED <<test, pending, lastRow, conflict, rows, only, version, moves, content, kept>>
           /\ \/ /\ UNCHANGED <<acts, met>> /\ RenameTestStepID(r.key, born + 1)
                 /\ idMap' = With(idMap, r.key, born + 1)
              \/ /\ Act({"fault"}) /\ UNCHANGED steps
                 /\ idMap' \in {idMap, With(idMap, r.key, born + 1)}
BY DEF CreateStep

LEMMA RenamedIs ==
    ASSUME Shapes, NEW old \in Int, old < 0, RenameTestStepID(old, born + 1)
    PROVE  /\ born + 1 \notin DOMAIN steps
           /\ old \notin DOMAIN steps => steps' = steps
           /\ old \in DOMAIN steps => /\ DOMAIN steps' = (DOMAIN steps \ {old}) \cup {born + 1}
                                      /\ steps'[born + 1] = steps[old]
           /\ \A s \in DOMAIN steps : s # old => s \in DOMAIN steps' /\ steps'[s] = steps[s]
           /\ steps' = [s \in DOMAIN steps' |-> steps'[s]]
<1>1. /\ steps = [s \in DOMAIN steps |-> steps[s]] /\ born \in Nat
      /\ \A s \in DOMAIN steps : s \in Int /\ s <= born
  BY CacheIs
<1>2. born + 1 \notin DOMAIN steps /\ born + 1 # old
  BY <1>1
<1>3. CASE old \notin DOMAIN steps
  BY <1>1, <1>2, <1>3 DEF RenameTestStepID
<1>4. CASE old \in DOMAIN steps
  <2>1. steps' = Only(With(steps, born + 1, steps[old]), (DOMAIN steps \ {old}) \cup {born + 1})
    BY <1>4 DEF RenameTestStepID
  <2>. QED BY <1>2, <1>4, <2>1 DEF Only, With
<1>. QED
  BY <1>3, <1>4

LEMMA CreateStepShapes ==
    ASSUME Shapes, NEW r \in left, CreateStep(r)
    PROVE  Shapes'
<1>0. /\ pc = "adds" /\ left' = left \ {r} /\ pc' = pc
      /\ UNCHANGED <<test, pending, lastRow, conflict, rows, only, version, moves, content>>
      /\ lastRow \in Nat /\ born \in Nat /\ acts \in Nat /\ met \subseteq Met
      /\ moves = {} /\ conflict = None
  BY CreateStepIs DEF Shapes, Phases
<1>1. born' = born + 1 /\ Remotes(jira', lastRow, born + 1)
  BY CreateStepIs, LandAddIs
<1>2. r.key \in Int /\ r.key < 0
  BY <1>0, LeftIs, RowIs DEF Shape
<1>3. acts' \in Nat /\ met' \subseteq Met
  BY <1>0, CreateStepIs, ActIs, FlagsIs
<1>4. Cached(test', steps', born + 1)
  <2>0. Cached(test, steps, born + 1)
    BY <1>0, Grows
  <2>1. CASE steps' = steps
    BY <1>0, <2>0, <2>1
  <2>2. CASE RenameTestStepID(r.key, born + 1)
    <3>0. /\ steps' = steps \/ DOMAIN steps' = (DOMAIN steps \ {r.key}) \cup {born + 1}
          /\ r.key \in DOMAIN steps => steps'[born + 1] = steps[r.key]
          /\ r.key \notin DOMAIN steps => steps' = steps
          /\ \A s \in DOMAIN steps : s # r.key => steps'[s] = steps[s]
      BY <1>2, <2>2, RenamedIs
    <3>1. IsFiniteSet(DOMAIN steps')
      <4>1. IsFiniteSet(DOMAIN steps \ {r.key})
        BY CacheIs, FS_RemoveElement
      <4>2. IsFiniteSet((DOMAIN steps \ {r.key}) \cup {born + 1})
        BY <4>1, FS_AddElement
      <4>. QED BY <3>0, <4>2, CacheIs
    <3>2. \A s \in DOMAIN steps' : steps'[s] \in Step /\ Known(s, born + 1)
      <4>1. Known(born + 1, born + 1)
        BY <1>0 DEF Known
      <4>2. \A s \in DOMAIN steps : steps[s] \in Step /\ Known(s, born + 1)
        BY <2>0 DEF Cached
      <4>. QED BY <3>0, <4>1, <4>2
    <3>3. steps' \in [DOMAIN steps' -> Step]
      BY <1>2, <2>2, <3>2, RenamedIs
    <3>. QED BY <1>0, <2>0, <3>1, <3>2, <3>3 DEF Cached
  <2>. QED BY <2>1, <2>2, CreateStepIs
<1>5. /\ idMap' \in [DOMAIN idMap' -> 1..(born + 1)] /\ \A s \in DOMAIN idMap' : s \in Int /\ s < 0
  <2>0. idMap \in [DOMAIN idMap -> 1..born] /\ \A s \in DOMAIN idMap : s \in Int /\ s < 0
    BY DEF Shapes
  <2>1. \A s \in DOMAIN idMap : idMap[s] \in 1..(born + 1)
    BY <1>0, <2>0
  <2>2. CASE idMap' = idMap
    BY <2>0, <2>1, <2>2
  <2>3. CASE idMap' = With(idMap, r.key, born + 1)
    <3>1. DOMAIN idMap' = DOMAIN idMap \cup {r.key}
      BY <2>3 DEF With
    <3>2. \A s \in DOMAIN idMap' : idMap'[s] \in 1..(born + 1)
      BY <1>0, <2>1, <2>3 DEF With
    <3>3. idMap' = [s \in DOMAIN idMap' |-> idMap'[s]]
      BY <2>3 DEF With
    <3>. QED BY <1>2, <2>0, <3>1, <3>2, <3>3
  <2>. QED BY <2>2, <2>3, CreateStepIs
<1>6. Table(pending', lastRow, born + 1) /\ Table(rows', lastRow, born + 1)
  BY <1>0, Grows
<1>7. Phases'
  BY <1>0 DEF Shapes, Phases, OfType
<1>8. Conflicting(conflict', lastRow', born')
  BY <1>0 DEF Conflicting
<1>. QED
  BY <1>0, <1>1, <1>3, <1>4, <1>5, <1>6, <1>7, <1>8 DEF Shapes

LEMMA MoveShapes ==
    ASSUME Shapes
    PROVE  /\ ReadOrder => Shapes'
           /\ MoveTestStep => Shapes'
           /\ MovesDone => Shapes'
<1>1. ASSUME ReadOrder PROVE Shapes'
  <2>1. /\ pc = "adds" /\ left = {} /\ moves = {} /\ conflict = None
        /\ UNCHANGED <<jira, born, test, steps, pending, lastRow, conflict, acts, rows, only, version, left, idMap, met>>
    BY <1>1 DEF ReadOrder, local, Shapes, Phases
  <2>2. CASE OfType(rows, "test_step_order") = {}
    <3>1. pc' = "clear" /\ UNCHANGED <<moves, content>>
      BY <1>1, <2>2 DEF ReadOrder
    <3>2. Phases'
      BY <2>1, <3>1 DEF Phases
    <3>. QED BY <2>1, <3>1, <3>2 DEF Shapes
  <2>3. CASE OfType(rows, "test_step_order") # {}
    <3>1. pc' = "moves" /\ moves' = Stay(QueuedOrder) /\ content' = [s \in DOMAIN steps |-> steps[s].text]
      BY <1>1, <2>3 DEF ReadOrder
    <3>2. Phases'
      BY <2>1, <2>3, <3>1 DEF Phases, OfType, Stay, QueuedOrder
    <3>3. content' \in [DOMAIN content' -> Texts]
      BY <3>1, CacheIs
    <3>4. moves' \subseteq Nat
      BY <2>3, <3>1, PlaceIs
    <3>. QED BY <2>1, <3>1, <3>2, <3>3, <3>4 DEF Shapes
  <2>. QED BY <2>2, <2>3
<1>2. ASSUME MoveTestStep PROVE Shapes'
  <2>1. /\ pc = "moves" /\ pc' = pc
        /\ UNCHANGED <<born, test, steps, pending, lastRow, conflict, acts, rows, only, version, left, idMap, content, met>>
    BY <1>2 DEF MoveTestStep, local
  <2>2. PICK k \in moves : Movable(k) /\ LandMove(k) /\ moves' = moves \ {k}
    BY <1>2 DEF MoveTestStep
  <2>3. Remotes(jira', lastRow, born)
    BY <2>1, <2>2, LandMoveIs
  <2>4. Phases'
    BY <2>1, <2>2 DEF Shapes, Phases, OfType, Stay, QueuedOrder
  <2>. QED BY <2>1, <2>2, <2>3, <2>4 DEF Shapes
<1>3. ASSUME MovesDone PROVE Shapes'
  <2>1. /\ pc = "moves" /\ pc' = "clear" /\ moves = {} /\ left = {} /\ conflict = None
        /\ UNCHANGED <<jira, born, test, steps, pending, lastRow, conflict, acts, rows, only, version, left, idMap, moves, content, met>>
    BY <1>3 DEF MovesDone, local, Shapes, Phases
  <2>2. Phases'
    BY <2>1 DEF Phases
  <2>. QED BY <2>1, <2>2 DEF Shapes
<1>. QED
  BY <1>1, <1>2, <1>3

LEMMA EndShapes ==
    ASSUME Shapes
    PROVE  /\ ClearRows => Shapes'
           /\ RebaseRest => Shapes'
           /\ RefusedEnds => Shapes'
           /\ Fault => Shapes'
<1>0. /\ Remotes(jira, lastRow, born) /\ Table(pending, lastRow, born) /\ Conflicting(conflict, lastRow, born)
      /\ acts \in Nat /\ met \subseteq Met
  BY DEF Shapes
<1>1. ASSUME ClearRows PROVE Shapes'
  <2>1. /\ pc = "clear" /\ pending' = Delete(pending, {r.id : r \in rows})
        /\ UNCHANGED <<jira, born, test, steps, lastRow, conflict, acts, met>>
    BY <1>1 DEF ClearRows
  <2>2. Table(pending', lastRow, born)
    BY <1>0, <2>1, DeleteIs, TableSubset
  <2>3. CASE only
    <3>1. pc' = "rebase" /\ UNCHANGED <<rows, only, version, left, idMap, moves, content>>
      BY <1>1, <2>3 DEF ClearRows
    <3>2. Phases'
      BY <2>1, <3>1 DEF Shapes, Phases
    <3>. QED BY <2>1, <2>2, <3>1, <3>2 DEF Shapes
  <2>4. CASE ~ only
    <3>1. Leave
      BY <1>1, <2>4 DEF ClearRows
    <3>. QED BY <1>0, <2>1, <2>2, <3>1, LeaveShapes
  <2>. QED BY <2>3, <2>4
<1>2. ASSUME RebaseRest PROVE Shapes'
  <2>1. /\ Leave /\ pending' = Rebased(pending, jira.ver)
        /\ UNCHANGED <<jira, born, test, steps, lastRow, conflict, acts, met>>
    BY <1>2 DEF RebaseRest
  <2>2. Table(pending', lastRow, born)
    BY <1>0, <2>1, JiraIs, RebasedIs
  <2>. QED BY <1>0, <2>1, <2>2, LeaveShapes
<1>3. ASSUME RefusedEnds PROVE Shapes'
  <2>1. /\ Leave /\ met' = met \cup {"refused"}
        /\ UNCHANGED <<jira, born, test, steps, pending, lastRow, conflict, acts>>
    BY <1>3 DEF RefusedEnds, local
  <2>2. met' \subseteq Met
    BY <1>0, <2>1, FlagsIs
  <2>. QED BY <1>0, <2>1, <2>2, LeaveShapes
<1>4. ASSUME Fault PROVE Shapes'
  <2>1. /\ Leave /\ Act({"fault"}) /\ UNCHANGED <<test, steps, pending, lastRow, conflict>>
        /\ UNCHANGED <<jira, born>> \/ LandLost
    BY <1>4 DEF Fault, local
  <2>2. acts' \in Nat /\ met' \subseteq Met
    BY <2>1, ActIs, FlagsIs
  <2>3. Remotes(jira', lastRow, born') /\ born' \in {born, born + 1}
    <3>1. CASE UNCHANGED <<jira, born>>
      BY <1>0, <3>1
    <3>2. CASE pc = "fields" /\ left # {} /\ LandFields /\ UNCHANGED born
      BY <3>2, LandFieldsIs
    <3>3. CASE pc = "status" /\ (\E r \in left : Offered(r) /\ LandStatus(r)) /\ UNCHANGED born
      BY <3>3, LandStatusIs
    <3>4. CASE pc = "deletes" /\ (\E r \in left : Exists(r) /\ LandDelete(r)) /\ UNCHANGED born
      BY <3>4, LandDeleteIs
    <3>5. CASE pc = "edits" /\ (\E r \in left : Exists(r) /\ LandEdit(r)) /\ UNCHANGED born
      <4>1. PICK r \in left : Exists(r) /\ LandEdit(r)
        BY <3>5
      <4>2. r.after \in Texts
        BY <3>5, LeftIs, TextsIs DEF Shape
      <4>. QED BY <3>5, <4>1, <4>2, LandEditIs
    <3>6. CASE pc = "adds" /\ \E r \in left : Lowest(r) /\ r.after[2] # Blank /\ LandAdd(r)
      BY <3>6, LandAddIs
    <3>7. CASE pc = "moves" /\ (\E k \in moves : Coming(k) /\ Movable(k) /\ LandMove(k)) /\ UNCHANGED born
      BY <3>7, LandMoveIs
    <3>. QED BY <2>1, <3>1, <3>2, <3>3, <3>4, <3>5, <3>6, <3>7 DEF LandLost
  <2>. QED BY <1>0, <2>1, <2>2, <2>3, LeaveShapes
<1>. QED
  BY <1>1, <1>2, <1>3, <1>4

-----------------------------------------------------------------------------
LEMMA InitShapes == Init => Shapes
<1>. SUFFICES ASSUME Init PROVE Shapes
  OBVIOUS
<1>. USE DEF Init
<1>1. StartSteps \in Nat /\ born = StartSteps /\ lastRow = 0 /\ born \in Nat
  BY TestCommitAssumption
<1>2. DOMAIN steps = 1..StartSteps /\ IsFiniteSet(DOMAIN steps)
  BY <1>1, FS_Interval
<1>3. Cached(test, steps, born)
  <2>1. test \in [ver: Nat, field: [Fields -> Texts]]
    BY TextsIs
  <2>2. steps \in [DOMAIN steps -> Step]
    BY <1>1, TextsIs DEF Step
  <2>3. \A s \in DOMAIN steps : Known(s, born)
    BY <1>1 DEF Known
  <2>. QED BY <1>2, <2>1, <2>2, <2>3 DEF Cached
<1>4. Remotes(jira, lastRow, born)
  <2>1. jira.steps = [k \in 1..StartSteps |-> [id |-> k, text |-> Initial, row |-> 0]]
    OBVIOUS
  <2>2. jira.steps \in Seq(JiraStep) /\ DOMAIN jira.steps = 1..StartSteps
    <3>1. \A k \in 1..StartSteps : [id |-> k, text |-> Initial, row |-> 0] \in JiraStep
      BY <1>1, TextsIs DEF JiraStep
    <3>. QED BY <1>1, <2>1, <3>1
  <2>3. \A k \in 1..StartSteps : jira.steps[k].id = k /\ jira.steps[k].row = 0
    BY <2>1
  <2>4. Listing(jira.steps, lastRow, born)
    BY <1>1, <2>2, <2>3 DEF Listing
  <2>5. jira = [ver |-> 1, field |-> [f \in Fields |-> Initial], steps |-> jira.steps]
    OBVIOUS
  <2>. QED BY <2>2, <2>4, <2>5, TextsIs DEF Remotes
<1>5. Table({}, lastRow, born)
  BY FS_EmptySet DEF Table, WellKeyed
<1>6. idMap \in [DOMAIN idMap -> 1..born] /\ DOMAIN idMap = {} /\ content \in [DOMAIN content -> Texts]
  OBVIOUS
<1>7. Phases
  BY DEF Phases
<1>8. Table(pending, lastRow, born) /\ Table(rows, lastRow, born) /\ Conflicting(conflict, lastRow, born)
  BY <1>5 DEF Conflicting
<1>9. /\ acts \in Nat /\ version \in Nat /\ only \in BOOLEAN /\ pc = "idle" /\ rows = {}
      /\ left \subseteq rows /\ moves \subseteq Nat /\ met \subseteq Met
  OBVIOUS
<1>. HIDE DEF Init
<1>. QED
  BY <1>1, <1>3, <1>4, <1>6, <1>7, <1>8, <1>9 DEF Shapes

\* The steps a behaviour can take.
LEMMA NextIs ==
    ASSUME Next
    PROVE  \/ \E f \in Fields, v \in Mine : EditTestField(f, v)
           \/ \E s \in DOMAIN steps, v \in Mine : EditTestStepField(s, v)
           \/ \E t \in Mine \cup {Blank} : AddTestStep(t)
           \/ \E s \in DOMAIN steps : DeleteTestStep(s)
           \/ \E i \in 1..Cardinality(DOMAIN steps) : ReorderTestSteps(i)
           \/ \E r \in pending : DiscardPendingChange(r)
           \/ RefreshSteps \/ SyncTest
           \/ \E theirs : ResolveConflict(theirs)
           \/ RemoteEdit
           \/ RemoteVersion \/ DetectConflicts \/ UpdateIssue \/ ApplyTransition
           \/ \E r \in left : RemoteDeleteStep(r) \/ UpdateTestStep(r) \/ CreateStep(r)
           \/ PhaseDone \/ ReadOrder \/ MoveTestStep \/ MovesDone \/ ClearRows \/ RebaseRest
           \/ RefusedEnds \/ Fault
           \/ \E selected \in SUBSET pending : CommitChanges(selected)
BY DEF Next, UserStep, CommitStep

LEMMA NextShapes == Shapes /\ [Next]_vars => Shapes'
<1>. SUFFICES ASSUME Shapes, [Next]_vars PROVE Shapes'
  OBVIOUS
<1>1. CASE UNCHANGED vars
  BY <1>1 DEF vars, local, commit, Shapes, Phases, FieldRows, StatusRows, OfType, Stay, QueuedOrder
<1>2. ASSUME NEW f \in Fields, NEW v \in Mine, EditTestField(f, v) PROVE Shapes'
  BY <1>2, EditTestFieldShapes
<1>3. ASSUME NEW s \in DOMAIN steps, NEW v \in Mine, EditTestStepField(s, v) PROVE Shapes'
  BY <1>3, EditTestStepFieldShapes
<1>4. ASSUME NEW t \in Mine \cup {Blank}, AddTestStep(t) PROVE Shapes'
  BY <1>4, AddTestStepShapes
<1>5. ASSUME NEW s \in DOMAIN steps, DeleteTestStep(s) PROVE Shapes'
  BY <1>5, DeleteTestStepShapes
<1>6. ASSUME NEW i \in 1..Cardinality(DOMAIN steps), ReorderTestSteps(i) PROVE Shapes'
  BY <1>6, ReorderTestStepsShapes
<1>7. ASSUME NEW r \in pending, DiscardPendingChange(r) PROVE Shapes'
  BY <1>7, DiscardShapes
<1>8. CASE RefreshSteps \/ SyncTest \/ RemoteEdit
  BY <1>8, RefreshStepsShapes, SyncTestShapes, RemoteEditShapes
<1>9. ASSUME NEW theirs, ResolveConflict(theirs) PROVE Shapes'
  BY <1>9, ResolveShapes
<1>10. CASE RemoteVersion \/ DetectConflicts
  BY <1>10, RemoteVersionShapes, DetectConflictsShapes
<1>11. CASE UpdateIssue \/ ApplyTransition \/ PhaseDone
  BY <1>11, PhaseShapes
<1>12. ASSUME NEW r \in left, RemoteDeleteStep(r) \/ UpdateTestStep(r) \/ CreateStep(r) PROVE Shapes'
  BY <1>12, PhaseShapes, CreateStepShapes
<1>13. CASE ReadOrder \/ MoveTestStep \/ MovesDone
  BY <1>13, MoveShapes
<1>14. CASE ClearRows \/ RebaseRest \/ RefusedEnds \/ Fault
  BY <1>14, EndShapes
<1>15. ASSUME NEW selected \in SUBSET pending, CommitChanges(selected) PROVE Shapes'
  BY <1>15, CommitChangesShapes
<1>. QED
  BY <1>1, <1>2, <1>3, <1>4, <1>5, <1>6, <1>7, <1>8, <1>9, <1>10, <1>11, <1>12, <1>13, <1>14, <1>15, NextIs

LEMMA ShapesTypeOK == Shapes => TypeOK
<1>. SUFFICES ASSUME Shapes PROVE TypeOK
  OBVIOUS
<1>1. \A k, l \in DOMAIN jira.steps : jira.steps[k].id = jira.steps[l].id => k = l
  BY JiraIs DEF Listing
<1>2. IdsOf(jira.steps) \subseteq 1..born
  BY JiraIs DEF IdsOf
<1>3. DOMAIN steps \subseteq Int /\ \A s \in DOMAIN steps : steps[s] \in Step
  BY CacheIs DEF Shapes, Cached
<1>4. WellKeyed(pending) /\ (\A r \in pending : r \in Row /\ r.id <= lastRow) /\ rows \subseteq Row
  BY DEF Shapes, Table, Shape
<1>5. conflict # None => conflict.ver \in Nat /\ \A c \in conflict.held : c.row \in Row /\ c.remote \in Values
  <2>. SUFFICES ASSUME conflict # None, NEW c \in conflict.held PROVE c.row \in Row /\ c.remote \in Values
    BY DEF Shapes, Conflicting
  <2>1. Held(c, lastRow, born)
    BY DEF Shapes, Conflicting
  <2>2. c.row \in Row /\ c.row.type \in Types
    BY <2>1, RowIs DEF Held
  <2>. QED BY <2>1, <2>2, TextsIs DEF Held, Types
<1>6. /\ pc \in {"idle", "check", "scan", "fields", "status", "deletes", "edits", "adds", "moves", "clear", "rebase"}
      /\ pc = "idle" => rows = {}
      /\ left \subseteq rows /\ acts \in Nat /\ version \in Nat /\ only \in BOOLEAN
      /\ \A s \in DOMAIN idMap : s < 0 /\ idMap[s] \in 1..born
      /\ moves \subseteq Nat /\ \A s \in DOMAIN content : content[s] \in Texts
      /\ met \subseteq Met
  BY DEF Shapes
<1>. QED
  BY <1>1, <1>2, <1>3, <1>4, <1>5, <1>6, JiraIs, CacheIs DEF TypeOK

\* The types: what is queued, cached and sent is what its kind of row allows;
\* a step has one id, and no two rows are about the same thing.
THEOREM TypeCorrect == Spec => []TypeOK
<1>1. Spec => []Shapes
  BY InitShapes, NextShapes, PTL DEF Spec
<1>. QED
  BY <1>1, ShapesTypeOK, PTL

-----------------------------------------------------------------------------
\* What pends is shown.  Two rows with the same id differ in their base only.
Same(p, q) ==
    /\ p.id = q.id /\ p.type = q.type /\ p.key = q.key /\ p.field = q.field
    /\ p.before = q.before /\ p.after = q.after

\* The steps a row that adds one was pushed for are no placeholders any more.
Pushed(r) ==
    /\ pc \in {"adds", "moves", "clear"}
    /\ \E q \in rows : q.id = r.id
    /\ \A q \in left : q.id # r.id

\* What a Commit pushes and what a conflict shows still pends.
RowsPend == NotMet({"meanwhile"}) /\ pc \notin {"idle", "rebase"} =>
    \A q \in rows : \E p \in pending : Same(p, q)
HeldPends == NotMet({"onscreen"}) /\ conflict # None => \A c \in conflict.held : c.row \in pending

FieldsShown == NotMet({"onscreen"}) => \A r \in pending : ~IsStepRow(r) => test.field[r.field] = r.after

StepShown(r) ==
    /\ r.type = "test_step" => r.key > 0 /\ r.key \in DOMAIN steps /\ steps[r.key].text = r.after
    /\ r.type = "test_step_delete" => r.key > 0 /\ r.key \notin DOMAIN steps
    /\ r.type = "test_step_add" => Pushed(r) \/ (r.key \in DOMAIN steps /\ steps[r.key].text = r.after[2])

\* A placeholder in the cache is that of a row still to be pushed.
Adds(r, s) == r.type = "test_step_add" /\ r.key = s
Placeholders == \A s \in DOMAIN steps : s < 0 => \E r \in pending : Adds(r, s) /\ ~Pushed(r)

Calmly == NotMet({"onscreen", "refresh", "fault", "refused", "meanwhile"})
StepsShown == Calmly => Placeholders /\ \A r \in pending : StepShown(r)

\* A queued order lists placeholders that pend, and in the order of the cache.
OrderShown(r) == r.type = "test_step_order" =>
    /\ \A k \in DOMAIN r.after : r.after[k] < 0 => \E p \in pending : Adds(p, r.after[k])
    /\ \A k, l \in DOMAIN r.after : k < l /\ {r.after[k], r.after[l]} \subseteq DOMAIN steps =>
          steps[r.after[k]].idx < steps[r.after[l]].idx
AllSent == pc # "idle" => \A p \in pending : \E q \in rows : q.id = p.id
OrdersShown == Calmly /\ NotMet({"theirs", "selected", "discard"}) =>
    AllSent /\ \A r \in pending : OrderShown(r)

Shown == RowsPend /\ HeldPends /\ FieldsShown /\ StepsShown /\ OrdersShown

\* What a step does to the history, and to the Commit.
Edit(texts) == UserActsSeeing(texts) /\ MayAct

LEMMA EditsAre ==
    ASSUME Shapes
    PROVE  /\ \A f \in Fields, v \in Mine : EditTestField(f, v) => Edit({})
           /\ \A s \in DOMAIN steps, v \in Mine : EditTestStepField(s, v) => Edit({})
           /\ \A t \in Mine \cup {Blank} : AddTestStep(t) => Edit({})
           /\ \A s \in DOMAIN steps : DeleteTestStep(s) => \E texts : Edit(texts)
           /\ \A i \in 1..Cardinality(DOMAIN steps) : ReorderTestSteps(i) => Edit({})
BY DEF Edit, EditTestField, EditTestStepField, AddTestStep, DeleteTestStep, ReorderTestSteps, UserActs

LEMMA EditIs ==
    ASSUME NEW texts, Edit(texts)
    PROVE  /\ met \subseteq met' /\ UNCHANGED <<jira, born, conflict, commit>>
           /\ pc' = pc /\ rows' = rows /\ left' = left
           /\ pc # "idle" => "meanwhile" \in met'
           /\ conflict # None => "onscreen" \in met'
           /\ met' = met \cup Meanwhile \cup TakenBack(Dropped) /\ kept' = kept \cup texts
BY DEF Edit, UserActsSeeing, Act, Meanwhile, commit

LEMMA DiscardIs ==
    ASSUME NEW r, DiscardPendingChange(r)
    PROVE  /\ met \subseteq met' /\ UNCHANGED <<jira, born, conflict, commit, lastRow, kept>>
           /\ pc' = pc /\ rows' = rows /\ left' = left
           /\ pc # "idle" => "meanwhile" \in met'
           /\ conflict # None => "onscreen" \in met'
           /\ "discard" \in met'
           /\ pending' = Delete(pending, {r.id})
BY DEF DiscardPendingChange, Act, Meanwhile, commit

LEMMA RefreshIs ==
    ASSUME RefreshSteps
    PROVE  /\ UNCHANGED <<jira, born, test, pending, lastRow, conflict, commit, kept>>
           /\ pc' = pc /\ rows' = rows /\ left' = left /\ met \subseteq met'
           /\ (\E r \in pending : IsStepRow(r)) => "refresh" \in met'
BY DEF RefreshSteps, Act, commit

LEMMA SyncIs ==
    ASSUME SyncTest
    PROVE  /\ UNCHANGED <<jira, born, steps, pending, lastRow, conflict, acts, commit, kept>>
           /\ pc' = pc /\ rows' = rows /\ left' = left /\ pc = "idle"
           /\ met \subseteq met' /\ test' = Synced
           /\ met \cap {"outside", "fault", "refused"} # {} => "sync" \in met'
BY DEF SyncTest, commit

LEMMA ResolveMet ==
    ASSUME NEW theirs, ResolveConflict(theirs)
    PROVE  /\ met \subseteq met' /\ (theirs # {} => "theirs" \in met')
           /\ theirs # {} /\ conflict.ver < test.ver => "undone" \in met'
           /\ pc' = pc /\ rows' = rows /\ left' = left
BY DEF ResolveConflict, Act, commit

LEMMA RemoteEditIs ==
    ASSUME RemoteEdit
    PROVE  /\ UNCHANGED <<born, local, test, steps, pending, lastRow, conflict, commit, kept>>
           /\ pc' = pc /\ rows' = rows /\ left' = left
           /\ met \subseteq met' /\ "outside" \in met'
           /\ pc \notin {"idle", "check"} => "race" \in met'
BY DEF RemoteEdit, Outside, Act, commit, local

LEMMA CommitChangesIs ==
    ASSUME NEW selected \in SUBSET pending, CommitChanges(selected)
    PROVE  /\ pc = "idle" /\ pc' = "check" /\ rows' = selected /\ conflict' = None
           /\ UNCHANGED <<jira, born, local, test, steps, pending, lastRow, acts, version, left, idMap, moves, content, kept>>
           /\ met \subseteq met' /\ (selected # pending => "selected" \in met')
           /\ (only' # FALSE => "selected" \in met')
BY DEF CommitChanges, local

\* The steps of a Commit that send, or go on.
Sends ==
    \/ UpdateIssue \/ ApplyTransition \/ PhaseDone \/ ReadOrder \/ MoveTestStep \/ MovesDone \/ RemoteVersion
    \/ \E r \in left : RemoteDeleteStep(r) \/ UpdateTestStep(r)

LEMMA SendsIs ==
    ASSUME Sends
    PROVE  /\ UNCHANGED <<born, local, test, steps, pending, lastRow, conflict, acts, rows, only, idMap, met, kept>>
           /\ pc \notin {"idle", "rebase", "clear", "scan"} /\ pc' \notin {"idle", "rebase", "check"}
           /\ pc' \in {"moves", "clear"} => pc \in {"adds", "moves"} /\ left' = left /\ jira'.field = jira.field
           /\ pc \in {"adds", "moves"} => pc' \in {"moves", "clear"}
           /\ pc' = "adds" => pc = "edits" /\ left' = OfType(rows, "test_step_add")
<1>1. CASE UpdateIssue \/ ApplyTransition \/ PhaseDone
  BY <1>1 DEF UpdateIssue, ApplyTransition, PhaseDone, Sending, local, Enter
<1>2. CASE ReadOrder \/ MovesDone
  BY <1>2 DEF ReadOrder, MovesDone, local
<1>3. CASE MoveTestStep
  BY <1>3 DEF MoveTestStep, LandMove, Write, local
<1>4. CASE RemoteVersion
  BY <1>4 DEF RemoteVersion, local, Enter
<1>5. CASE \E r \in left : RemoteDeleteStep(r) \/ UpdateTestStep(r)
  BY <1>5 DEF RemoteDeleteStep, UpdateTestStep, Sending, local
<1>. QED
  BY <1>1, <1>2, <1>3, <1>4, <1>5 DEF Sends

LEMMA EndsAre ==
    /\ RefusedEnds => /\ Leave /\ UNCHANGED <<jira, born, test, steps, pending, lastRow, conflict, acts, kept>>
                      /\ met' = met \cup {"refused"}
    /\ Fault => /\ Leave /\ UNCHANGED <<test, steps, pending, lastRow, conflict, kept>>
                /\ pc # "idle" /\ met' = met \cup {"fault"}
    /\ ClearRows => /\ pc = "clear" /\ pc' \in {"idle", "rebase"} /\ pending' = Delete(pending, {r.id : r \in rows})
                    /\ UNCHANGED <<jira, born, test, steps, lastRow, conflict, acts, met, kept>>
                    /\ (pc' = "rebase" => only /\ rows' = rows /\ left' = left) /\ (pc' = "idle" => Leave)
    /\ RebaseRest => /\ pc = "rebase" /\ pc' = "idle" /\ pending' = Rebased(pending, jira.ver) /\ Leave
                     /\ UNCHANGED <<jira, born, test, steps, lastRow, conflict, acts, met, kept>>
BY DEF RefusedEnds, Fault, ClearRows, RebaseRest, Leave, local, Act

LEMMA CreatesIs ==
    ASSUME NEW r, CreateStep(r)
    PROVE  /\ pc = "adds" /\ pc' = pc /\ left' = left \ {r} /\ met \subseteq met'
           /\ UNCHANGED <<test, pending, lastRow, conflict, rows, only, version, moves, content, kept>>
           /\ \/ RenameTestStepID(r.key, born + 1) /\ idMap' = With(idMap, r.key, born + 1) /\ met' = met
              \/ UNCHANGED steps /\ "fault" \in met'
BY DEF CreateStep, Act

LEMMA NextRowsPend == Shapes /\ RowsPend /\ [Next]_vars => RowsPend'
<1>. SUFFICES ASSUME Shapes, RowsPend, [Next]_vars PROVE RowsPend'
  OBVIOUS
<1>. USE DEF RowsPend, NotMet
<1>1. CASE UNCHANGED vars
  BY <1>1 DEF vars, local, commit
<1>2. ASSUME met \subseteq met', UNCHANGED <<pc, rows>>, pc # "idle" => "meanwhile" \in met' PROVE RowsPend'
  BY <1>2
<1>3. ASSUME NEW texts, Edit(texts) PROVE RowsPend'
  BY <1>2, <1>3, EditIs
<1>4. ASSUME NEW r, DiscardPendingChange(r) PROVE RowsPend'
  BY <1>2, <1>4, DiscardIs
<1>5. ASSUME met \subseteq met', UNCHANGED <<pc, rows, pending>> PROVE RowsPend'
  BY <1>5
<1>6. CASE RefreshSteps \/ SyncTest \/ RemoteEdit
  BY <1>5, <1>6, RefreshIs, SyncIs, RemoteEditIs
<1>7. ASSUME NEW theirs, ResolveConflict(theirs) PROVE RowsPend'
  BY <1>7, ResolveIs, ResolveMet
<1>8. ASSUME NEW selected \in SUBSET pending, CommitChanges(selected) PROVE RowsPend'
  <2>1. rows' \subseteq pending'
    BY <1>8, CommitChangesIs
  <2>. QED BY <2>1 DEF Same
<1>9. CASE Sends
  <2>1. UNCHANGED <<rows, pending, met>> /\ pc \notin {"idle", "rebase"}
    BY <1>9, SendsIs
  <2>. QED BY <2>1
<1>10. ASSUME NEW r \in left, CreateStep(r) PROVE RowsPend'
  BY <1>5, <1>10, CreatesIs
<1>11. CASE RefusedEnds \/ Fault \/ ClearRows \/ RebaseRest
  <2>1. pc' \in {"idle", "rebase"}
    BY <1>11, EndsAre, LeaveIs
  <2>. QED BY <2>1
<1>12. CASE DetectConflicts
  <2>1. CASE pc' = "idle"
    BY <2>1
  <2>2. CASE pc' # "idle" /\ NotMet({"meanwhile"})'
    <3>1. pc = "scan" /\ rows' = Rest /\ pending' = Rebased(Open, version) /\ UNCHANGED met
      BY <1>12, <2>2, DetectIs, LeaveIs
    <3>2. ASSUME NEW q \in Rest PROVE \E p \in Rebased(Open, version) : Same(p, q)
      <4>1. PICK p \in pending : Same(p, q)
        BY <2>2, <3>1 DEF Rest
      <4>2. q.id \notin {r.id : r \in There}
        BY DEF Rest, There, Shapes, Table, WellKeyed
      <4>3. p \in Open
        BY <4>1, <4>2 DEF Open, Delete, Same
      <4>4. Table(Open, lastRow, born) /\ version \in Nat
        BY TableSubset, DeleteIs DEF Open, Shapes
      <4>5. PICK r \in Rebased(Open, version) : /\ p.id = r.id /\ p.type = r.type /\ p.key = r.key
                                               /\ p.field = r.field /\ p.before = r.before /\ p.after = r.after
        BY <4>3, <4>4, RebasedIs
      <4>. QED BY <4>1, <4>5 DEF Same
    <3>. QED BY <3>1, <3>2
  <2>. QED BY <2>1, <2>2
<1>. HIDE DEF RowsPend, NotMet
<1>. QED
  BY <1>1, <1>3, <1>4, <1>6, <1>7, <1>8, <1>9, <1>10, <1>11, <1>12, NextIs, EditsAre DEF Sends

LEMMA NextHeldPends == Shapes /\ HeldPends /\ [Next]_vars => HeldPends'
<1>. SUFFICES ASSUME Shapes, HeldPends, [Next]_vars PROVE HeldPends'
  OBVIOUS
<1>. USE DEF HeldPends, NotMet
<1>1. CASE UNCHANGED vars
  BY <1>1 DEF vars, local
<1>2. ASSUME met \subseteq met', UNCHANGED conflict, conflict # None => "onscreen" \in met' PROVE HeldPends'
  BY <1>2
<1>3. ASSUME NEW texts, Edit(texts) PROVE HeldPends'
  BY <1>2, <1>3, EditIs
<1>4. ASSUME NEW r, DiscardPendingChange(r) PROVE HeldPends'
  BY <1>2, <1>4, DiscardIs
<1>5. ASSUME met \subseteq met', UNCHANGED <<conflict, pending>> PROVE HeldPends'
  BY <1>5
<1>6. CASE RefreshSteps \/ SyncTest \/ RemoteEdit \/ Sends \/ RefusedEnds \/ Fault
  BY <1>5, <1>6, RefreshIs, SyncIs, RemoteEditIs, SendsIs, EndsAre
<1>7. ASSUME NEW theirs, ResolveConflict(theirs) PROVE HeldPends'
  BY <1>7, ResolveIs
<1>8. ASSUME NEW selected \in SUBSET pending, CommitChanges(selected) PROVE HeldPends'
  BY <1>8, CommitChangesIs
<1>9. ASSUME NEW r \in left, CreateStep(r) PROVE HeldPends'
  BY <1>5, <1>9, CreatesIs
<1>10. CASE ClearRows \/ RebaseRest
  <2>1. conflict = None /\ conflict' = conflict
    BY <1>10, EndsAre DEF Shapes, Phases
  <2>. QED BY <2>1
<1>11. CASE DetectConflicts
  <2>1. CASE conflict' = None
    BY <2>1
  <2>2. CASE conflict' # None /\ NotMet({"onscreen"})'
    <3>1. pc = "scan" /\ conflict = None
      BY <1>11, DetectIs DEF Shapes, Phases
    <3>2. pending' = Open /\ conflict' = [ver |-> version, held |-> HeldBack] /\ rows \subseteq pending
      BY <1>11, <2>2, <3>1, DetectIs
    <3>3. ASSUME NEW c \in HeldBack PROVE c.row \in Open
      <4>1. c.row \in rows /\ c.row \notin There
        BY DEF HeldBack, Rest
      <4>2. c.row.id \notin {r.id : r \in There}
        BY <4>1 DEF There, Shapes, Table, WellKeyed
      <4>. QED BY <3>2, <4>1, <4>2 DEF Open, Delete
    <3>. QED BY <3>2, <3>3
  <2>. QED BY <2>1, <2>2
<1>. HIDE DEF HeldPends, NotMet
<1>. QED
  BY <1>1, <1>3, <1>4, <1>6, <1>7, <1>8, <1>9, <1>10, <1>11, NextIs, EditsAre DEF Sends

\* What queueing leaves, and adds.
LEMMA QueueIs ==
    ASSUME Shapes, NEW j, j \subseteq pending,
           NEW type, NEW key, NEW field, NEW current, NEW value, Queue(j, type, key, field, current, value)
    PROVE  /\ lastRow' = lastRow + 1
           /\ \A r \in j : ~ (r.type = type /\ r.key = key /\ r.field = field) => r \in pending'
           /\ \A r \in pending' :
                 \/ r \in j /\ ~ (r.type = type /\ r.key = key /\ r.field = field)
                 \/ /\ r.type = type /\ r.key = key /\ r.field = field /\ r.after = value
                    /\ \/ /\ RowsAt(j, type, key, field) = {}
                          /\ r.before = current /\ r.base = test.ver /\ r.id = lastRow + 1
                       \/ \E s \in RowsAt(j, type, key, field) :
                             r.id = s.id /\ r.before = s.before /\ r.base = s.base /\ s.before # value
           /\ RowsAt(j, type, key, field) = {} =>
                 [id |-> lastRow + 1, type |-> type, key |-> key, field |-> field,
                  before |-> current, after |-> value, base |-> test.ver] \in pending'
<1>1. lastRow' = lastRow + 1 /\ pending' = Upsert(j, lastRow + 1, type, key, field, current, value, test.ver)
  BY DEF Queue
<1>2. j \in SUBSET PendingChange(Types, Int, Fields \cup {"action", "step", "order"}, Values)
  BY TableSubset, TableRows DEF Shapes
<1>3. ASSUME NEW r \in j, ~ (r.type = type /\ r.key = key /\ r.field = field) PROVE r \in pending'
  BY <1>1, <1>3 DEF Upsert, RowsAt, Inserted, Overwritten
<1>4. ASSUME NEW r \in pending'
      PROVE  \/ r \in j /\ ~(r.type = type /\ r.key = key /\ r.field = field)
             \/ /\ r.type = type /\ r.key = key /\ r.field = field /\ r.after = value
                /\ \/ RowsAt(j, type, key, field) = {} /\ r.before = current /\ r.base = test.ver /\ r.id = lastRow + 1
                   \/ \E s \in RowsAt(j, type, key, field) :
                         /\ r.id = s.id /\ r.before = s.before /\ r.base = s.base
                         /\ s.before # value
  <2>1. r \in Upsert(j, lastRow + 1, type, key, field, current, value, test.ver)
    BY <1>1
  <2>. QED BY <1>2, <2>1, UpsertRows
<1>5. ASSUME RowsAt(j, type, key, field) = {}
      PROVE  [id |-> lastRow + 1, type |-> type, key |-> key, field |-> field,
              before |-> current, after |-> value, base |-> test.ver] \in pending'
  BY <1>1, <1>5 DEF Upsert, Inserted
<1>. QED
  BY <1>1, <1>3, <1>4, <1>5

LEMMA QueuedRow ==
    ASSUME Shapes, NEW j, NEW type, NEW key, NEW field, NEW current, NEW value,
           Queue(j, type, key, field, current, value), j \subseteq pending, NEW r \in pending'
    PROVE  \/ r \in j /\ ~ (r.type = type /\ r.key = key /\ r.field = field)
           \/ r.type = type /\ r.key = key /\ r.field = field /\ r.after = value
<1>1. r \in Upsert(j, lastRow + 1, type, key, field, current, value, test.ver)
  BY DEF Queue
<1>2. j \in SUBSET PendingChange(Types, Int, Fields \cup {"action", "step", "order"}, Values)
  BY TableSubset, TableRows DEF Shapes
<1>3. \/ r \in j /\ ~ (r.type = type /\ r.key = key /\ r.field = field)
      \/ /\ r.type = type /\ r.key = key /\ r.field = field /\ r.after = value
         /\ \/ RowsAt(j, type, key, field) = {} /\ r.before = current /\ r.base = test.ver /\ r.id = lastRow + 1
            \/ \E s \in RowsAt(j, type, key, field) :
                  /\ r.id = s.id /\ r.before = s.before /\ r.base = s.base
                  /\ s.before # value
  BY <1>1, <1>2, UpsertRows
<1>. QED
  BY <1>3, Zenon

LEMMA QueueKeeps ==
    ASSUME NEW j, NEW type, NEW key, NEW field, NEW current, NEW value, Queue(j, type, key, field, current, value)
    PROVE  \A r \in j : ~ (r.type = type /\ r.key = key /\ r.field = field) => r \in pending'
BY DEF Queue, Upsert, RowsAt, Inserted, Overwritten

\* A test_case row goes with the field it shows.
LEMMA ShapeIs ==
    ASSUME Shapes
    PROVE  /\ \A r \in pending : Shape(r) /\ Names(r, born) /\ r.id \in Nat /\ r.id <= lastRow /\ r.key \in Int
           /\ \A r \in rows : Shape(r) /\ Names(r, born) /\ r.id \in Nat /\ r.id <= lastRow /\ r.key \in Int
           /\ WellKeyed(pending) /\ WellKeyed(rows)
           /\ \A r, q \in pending : r.type = q.type /\ r.key = q.key /\ r.field = q.field => r = q
           /\ \A r, q \in pending : r.id = q.id => r = q
           /\ \A r, q \in rows : r.id = q.id => r = q
BY RowIs DEF Shapes, Table, WellKeyed

LEMMA NextFieldsShown == Shapes /\ HeldPends /\ FieldsShown /\ [Next]_vars => FieldsShown'
<1>. SUFFICES ASSUME Shapes, HeldPends, FieldsShown, [Next]_vars, NotMet({"onscreen"})',
                     NEW r \in pending', ~ IsStepRow(r)
              PROVE  test'.field[r.field] = r.after
  BY DEF FieldsShown, IsStepRow
<1>0. r.type = "test_case" /\ (met \subseteq met' => NotMet({"onscreen"}))
  BY DEF IsStepRow, NotMet
<1>1. CASE UNCHANGED vars
  BY <1>0, <1>1 DEF vars, local, FieldsShown
<1>2. ASSUME met \subseteq met', UNCHANGED test, r \in pending PROVE test'.field[r.field] = r.after
  BY <1>0, <1>2 DEF FieldsShown
<1>3. ASSUME NEW f \in Fields, NEW v \in Mine, EditTestField(f, v) PROVE test'.field[r.field] = r.after
  <2>1. Edit({})
    BY <1>3, EditsAre
  <2>2. test' = [test EXCEPT !.field[f] = v] /\ Queue(pending, "test_case", TestKey, f, test.field[f], v)
    BY <1>3 DEF EditTestField
  <2>3. \A g \in Fields : test'.field[g] = IF g = f THEN v ELSE test.field[g]
    BY <2>2, CacheIs
  <2>4. CASE r.field = f /\ r.after = v
    BY <2>3, <2>4
  <2>5. CASE r \in pending /\ ~ (r.type = "test_case" /\ r.key = TestKey /\ r.field = f)
    <3>1. r.key = TestKey /\ r.field \in Fields
      BY <1>0, <2>5, ShapeIs DEF Shape
    <3>2. test.field[r.field] = r.after
      BY <1>0, <2>1, <2>5, EditIs DEF FieldsShown
    <3>. QED BY <1>0, <2>3, <2>5, <3>1, <3>2
  <2>. QED BY <2>2, <2>4, <2>5, QueuedRow
<1>4. ASSUME NEW s \in DOMAIN steps, NEW v \in Mine, EditTestStepField(s, v) PROVE test'.field[r.field] = r.after
  <2>1. Edit({}) /\ test' = test
    BY <1>4, EditsAre DEF EditTestStepField
  <2>2. r \in pending
    <3>1. CASE AddRow(s) # {}
      <4>1. pending' = Folded(pending, s, v)
        BY <1>4, <3>1 DEF EditTestStepField, Folded, FoldedRow, AddRow
      <4>2. PICK q \in pending : r = FoldedRow(q, pending, s, v)
        BY <4>1 DEF Folded
      <4>. QED
        BY <1>0, <4>2, FoldedRowIs DEF RowsAt, Shapes
    <3>2. CASE AddRow(s) = {}
      <4>1. Queue(pending, "test_step", s, "action", steps[s].text, v)
        BY <1>4, <3>2 DEF EditTestStepField
      <4>. QED BY <1>0, <4>1, QueuedRow
    <3>. QED BY <3>1, <3>2
  <2>. QED BY <1>2, <2>1, <2>2, EditIs
<1>5. ASSUME NEW t \in Mine \cup {Blank}, AddTestStep(t) PROVE test'.field[r.field] = r.after
  <2>1. Edit({}) /\ test' = test
    BY <1>5, EditsAre DEF AddTestStep
  <2>2. PICK x : Queue(pending, "test_step_add", NextTempStepID, "step", Blank, x)
    BY <1>5 DEF AddTestStep
  <2>3. r \in pending
    BY <1>0, <2>2, QueuedRow
  <2>. QED BY <1>2, <2>1, <2>3, EditIs
<1>6. ASSUME NEW s \in DOMAIN steps, DeleteTestStep(s) PROVE test'.field[r.field] = r.after
  <2>1. PICK texts : Edit(texts)
    BY <1>6, EditsAre
  <2>2. r \in pending
    <3>1. CASE AddRow(s) # {}
      <4>1. pending' = Pruned(pending \ AddRow(s), s)
        BY <1>6, <3>1 DEF DeleteTestStep
      <4>2. Table(pending \ AddRow(s), lastRow, born)
        BY TableSubset DEF Shapes
      <4>3. PICK q \in pending \ AddRow(s) : r = PrunedRow(q, s)
        BY <4>1, <4>2, PrunedIs
      <4>. QED BY <1>0, <4>3 DEF PrunedRow
    <3>2. CASE AddRow(s) = {}
      <4>. DEFINE j == {q \in pending : q.type # "test_step" \/ q.key # s}
      <4>1. Queue(j, "test_step_delete", s, "step", Snapshot(steps[s]), Blank) /\ j \subseteq pending
        BY <1>6, <3>2 DEF DeleteTestStep
      <4>2. r \in j
        <5>. HIDE DEF j
        <5>. QED BY <1>0, <4>1, QueuedRow
      <4>. QED BY <4>2
    <3>. QED BY <3>1, <3>2
  <2>3. test' = test
    BY <1>6 DEF DeleteTestStep
  <2>. QED BY <1>2, <2>1, <2>2, <2>3, EditIs
<1>7. ASSUME NEW i \in 1..Cardinality(DOMAIN steps), ReorderTestSteps(i) PROVE test'.field[r.field] = r.after
  <2>1. Edit({}) /\ test' = test
    BY <1>7, EditsAre DEF ReorderTestSteps
  <2>2. PICK x, y : Queue(pending, "test_step_order", TestKey, "order", x, y)
    BY <1>7 DEF ReorderTestSteps
  <2>3. r \in pending
    BY <1>0, <2>2, QueuedRow
  <2>. QED BY <1>2, <2>1, <2>3, EditIs
<1>8. ASSUME NEW d \in pending, DiscardPendingChange(d) PROVE test'.field[r.field] = r.after
  <2>1. r \in pending /\ r.id # d.id
    BY <1>8, DiscardIs, DeleteIs DEF Delete
  <2>2. test.field[r.field] = r.after /\ r.field \in Fields /\ r.key = TestKey
    BY <1>0, <1>8, <2>1, DiscardIs, ShapeIs DEF FieldsShown, Shape
  <2>3. CASE d.type # "test_case"
    BY <1>8, <2>2, <2>3 DEF DiscardPendingChange
  <2>4. CASE d.type = "test_case"
    <3>1. d.key = TestKey /\ d.field \in Fields
      BY <2>4, ShapeIs DEF Shape
    <3>2. r.field # d.field
      BY <1>0, <2>1, <2>2, <2>4, <3>1, ShapeIs
    <3>3. test' = [test EXCEPT !.field[d.field] = d.before]
      BY <1>8, <2>4 DEF DiscardPendingChange
    <3>. QED BY <2>2, <3>1, <3>2, <3>3, CacheIs
  <2>. QED BY <2>3, <2>4
<1>9. CASE RefreshSteps \/ RemoteEdit \/ Sends \/ RefusedEnds \/ Fault \/ ClearRows
  BY <1>2, <1>9, RefreshIs, RemoteEditIs, SendsIs, EndsAre, DeleteIs
<1>10. CASE SyncTest
  <2>1. test' = Synced /\ pending' = pending /\ met \subseteq met'
    BY <1>10, SyncIs
  <2>2. r.key = TestKey /\ r.field \in Fields /\ test.field[r.field] = r.after
    BY <1>0, <2>1, ShapeIs DEF Shape, FieldsShown
  <2>3. RowsAt(pending, "test_case", TestKey, r.field) # {}
    BY <1>0, <2>1, <2>2 DEF RowsAt
  <2>. QED BY <2>1, <2>2, <2>3 DEF Synced
<1>11. ASSUME NEW theirs, ResolveConflict(theirs) PROVE test'.field[r.field] = r.after
  <2>1. /\ pending' = Rebased(Delete(pending, theirs), conflict.ver) /\ conflict # None /\ met \subseteq met'
        /\ test' = [test EXCEPT !.field = [f \in Fields |->
                          IF FieldOf(theirs, f) # {} THEN (CHOOSE c \in FieldOf(theirs, f) : TRUE).remote ELSE @[f]]]
    BY <1>11, ResolveIs, ResolveMet
  <2>2. PICK q \in pending : /\ r.type = q.type /\ r.key = q.key /\ r.field = q.field /\ r.after = q.after
                             /\ q.id \notin theirs
    <3>1. Table(Delete(pending, theirs), lastRow, born) /\ conflict.ver \in Nat
      BY <2>1, DeleteIs, TableSubset DEF Shapes, Conflicting
    <3>2. PICK q \in Delete(pending, theirs) : /\ r.type = q.type /\ r.key = q.key /\ r.field = q.field
                                               /\ r.after = q.after
      BY <2>1, <3>1, RebasedIs
    <3>. QED BY <3>2 DEF Delete
  <2>3. q.key = TestKey /\ q.field \in Fields /\ test.field[q.field] = q.after
    BY <1>0, <2>1, <2>2, ShapeIs DEF Shape, FieldsShown, IsStepRow
  <2>4. FieldOf(theirs, q.field) = {}
    <3>. SUFFICES ASSUME NEW c \in FieldOf(theirs, q.field) PROVE FALSE
      OBVIOUS
    <3>1. c.row \in pending /\ c.row.type = "test_case" /\ c.row.field = q.field /\ c.row.id \in theirs
      BY <1>0, <2>1 DEF FieldOf, Taken, HeldPends
    <3>2. c.row.key = TestKey
      BY <3>1, ShapeIs DEF Shape
    <3>. QED BY <1>0, <2>2, <2>3, <3>1, <3>2, ShapeIs
  <2>5. test'.field[q.field] = test.field[q.field]
    BY <2>1, <2>3, <2>4, CacheIs
  <2>. QED BY <2>2, <2>3, <2>5
<1>12. ASSUME NEW selected \in SUBSET pending, CommitChanges(selected) PROVE test'.field[r.field] = r.after
  BY <1>2, <1>12, CommitChangesIs
<1>13. ASSUME NEW q \in left, CreateStep(q) PROVE test'.field[r.field] = r.after
  BY <1>2, <1>13, CreatesIs
<1>14. CASE DetectConflicts \/ RebaseRest
  <2>1. test' = test /\ met \subseteq met' /\ \E q \in pending : r.type = q.type /\ r.field = q.field /\ r.after = q.after
    <3>1. CASE RebaseRest
      <4>1. pending' = Rebased(pending, jira.ver) /\ test' = test /\ met' = met
        BY <3>1, EndsAre
      <4>2. \E q \in pending : r.type = q.type /\ r.field = q.field /\ r.after = q.after
        BY <4>1, RebasedIs, JiraIs DEF Shapes
      <4>. QED BY <4>1, <4>2
    <3>2. CASE DetectConflicts
      <4>1. test' = test /\ met \subseteq met' /\ (pending' = Open \/ pending' = Rebased(Open, version))
        BY <3>2, DetectIs
      <4>2. Open \subseteq pending /\ Table(Open, lastRow, born) /\ version \in Nat
        BY DeleteIs, TableSubset DEF Open, Shapes
      <4>3. \E q \in pending : r.type = q.type /\ r.field = q.field /\ r.after = q.after
        BY <4>1, <4>2, RebasedIs
      <4>. QED BY <4>1, <4>3
    <3>. QED BY <1>14, <3>1, <3>2
  <2>. QED BY <1>0, <2>1 DEF FieldsShown, IsStepRow
<1>. QED
  BY <1>1, <1>3, <1>4, <1>5, <1>6, <1>7, <1>8, <1>9, <1>10, <1>11, <1>12, <1>13, <1>14, NextIs DEF Sends

\* How the rows about steps follow the cache.
LEMMA ShownKept ==
    ASSUME NEW r, StepShown(r), Pushed(r) => Pushed(r)',
           r.key \in DOMAIN steps <=> r.key \in DOMAIN steps',
           r.key \in DOMAIN steps => steps'[r.key].text = steps[r.key].text
    PROVE  StepShown(r)'
BY DEF StepShown

LEMMA SameShown ==
    ASSUME NEW p, NEW q, Same(p, q)
    PROVE  StepShown(p) => StepShown(q)
BY DEF Same, StepShown, Pushed

LEMMA AddRowIs ==
    ASSUME Shapes, NEW s
    PROVE  AddRow(s) = {r \in pending : Adds(r, s)}
BY ShapeIs DEF AddRow, RowsAt, Adds, Shape

LEMMA NotPushed ==
    ASSUME pc \notin {"adds", "moves", "clear"}
    PROVE  \A r : ~ Pushed(r)
BY DEF Pushed

\* Between passes.
Still == pc = "idle" /\ pc' = "idle"
AllShown == Placeholders /\ \A r \in pending : StepShown(r)

LEMMA StillIs ==
    ASSUME Still
    PROVE  \A r : ~ Pushed(r) /\ ~ Pushed(r)'
BY DEF Still, Pushed

LEMMA EditTestFieldShown ==
    ASSUME Shapes, AllShown, Still, NEW f \in Fields, NEW v \in Mine, EditTestField(f, v)
    PROVE  AllShown'
<1>1. Queue(pending, "test_case", TestKey, f, test.field[f], v) /\ steps' = steps
  BY DEF EditTestField
<1>2. ASSUME NEW r \in pending' PROVE StepShown(r)'
  <2>1. CASE r.type = "test_case"
    BY <2>1 DEF StepShown
  <2>2. CASE r \in pending
    BY <1>1, <2>2, StillIs, ShownKept DEF AllShown
  <2>. QED BY <1>1, <2>1, <2>2, QueuedRow
<1>3. \A r \in pending : r.type = "test_step_add" => r \in pending'
  BY <1>1, QueueKeeps
<1>. QED
  BY <1>1, <1>2, <1>3, StillIs DEF AllShown, Placeholders, Adds

LEMMA EditTestStepFieldShown ==
    ASSUME Shapes, AllShown, Still, NEW s \in DOMAIN steps, NEW v \in Mine, EditTestStepField(s, v)
    PROVE  AllShown'
<1>1. /\ DOMAIN steps' = DOMAIN steps
      /\ \A e \in DOMAIN steps : steps'[e].text = IF e = s THEN v ELSE steps[e].text
  BY CacheIs DEF EditTestStepField
<1>2. ASSUME NEW r \in pending, r.key # s PROVE StepShown(r)'
  BY <1>1, <1>2, StillIs, ShownKept DEF AllShown
<1>3. CASE AddRow(s) # {}
  <2>1. pending' = Folded(pending, s, v)
    BY <1>3 DEF EditTestStepField, Folded, FoldedRow, AddRow
  <2>2. s < 0
    BY <1>3, AddRowIs, ShapeIs DEF Adds, Shape
  <2>3. ASSUME NEW q \in pending, NEW r, r = FoldedRow(q, pending, s, v) PROVE StepShown(r)'
    <3>1. /\ r.type = q.type /\ r.key = q.key /\ r.id = q.id
          /\ IF q \in RowsAt(pending, "test_step_add", s, "step") THEN r.after = <<q.after[1], v>> ELSE r = q
      BY <2>3, FoldedRowIs DEF Shapes
    <3>2. StepShown(q)
      BY DEF AllShown
    <3>3. CASE q.key = s /\ q.type = "test_step_add"
      <4>1. q \in RowsAt(pending, "test_step_add", s, "step")
        BY <3>3, AddRowIs DEF AddRow, Adds
      <4>2. r.after[2] = v
        BY <3>1, <4>1
      <4>. QED BY <1>1, <3>1, <3>3, <4>2 DEF StepShown
    <3>4. CASE q.key # s
      <4>1. r = q
        BY <3>1, <3>4, AtPlace
      <4>. QED BY <1>2, <3>1, <3>4, <4>1
    <3>5. CASE q.key = s /\ q.type # "test_step_add"
      <4>1. r = q
        BY <3>1, <3>5, AtPlace
      <4>2. s \in Int
        BY CacheIs
      <4>3. q.type # "test_step" /\ q.type # "test_step_delete"
        BY <2>2, <3>2, <3>5, <4>2 DEF StepShown
      <4>. QED BY <3>1, <3>5, <4>1, <4>3 DEF StepShown
    <3>. QED BY <3>3, <3>4, <3>5
  <2>4. \A r \in pending' : StepShown(r)'
    BY <2>1, <2>3 DEF Folded
  <2>5. \A q \in pending : \E r \in pending' : r.type = q.type /\ r.key = q.key
    BY <2>1, FoldedRowIs DEF Shapes, Folded
  <2>6. Placeholders'
    BY <1>1, <2>5, StillIs DEF AllShown, Placeholders, Adds
  <2>. QED BY <2>4, <2>6 DEF AllShown
<1>4. CASE AddRow(s) = {}
  <2>1. Queue(pending, "test_step", s, "action", steps[s].text, v)
    BY <1>4 DEF EditTestStepField
  <2>2. s > 0
    BY <1>4, AddRowIs, CacheIs DEF AllShown, Placeholders
  <2>3. ASSUME NEW r \in pending' PROVE StepShown(r)'
    <3>1. CASE r.type = "test_step" /\ r.key = s /\ r.after = v
      BY <1>1, <2>2, <3>1 DEF StepShown
    <3>2. CASE r \in pending /\ ~ (r.type = "test_step" /\ r.key = s /\ r.field = "action")
      <4>1. CASE r.key = s
        <5>1. r.type # "test_step" /\ r.type # "test_step_delete" /\ r.type # "test_step_add"
          <6>1. r.type # "test_step"
            BY <3>2, <4>1, ShapeIs DEF Shape
          <6>2. r.type # "test_step_delete"
            BY <3>2, <4>1 DEF AllShown, StepShown
          <6>3. r.type # "test_step_add"
            BY <1>4, <3>2, <4>1, AddRowIs DEF Adds
          <6>. QED BY <6>1, <6>2, <6>3
        <5>. QED BY <5>1 DEF StepShown
      <4>. QED BY <1>2, <3>2, <4>1
    <3>. QED BY <2>1, <3>1, <3>2, QueuedRow
  <2>4. \A r \in pending : r.type = "test_step_add" => r \in pending'
    BY <2>1, QueueKeeps
  <2>. QED
    BY <1>1, <2>3, <2>4, StillIs DEF AllShown, Placeholders, Adds
<1>. QED
  BY <1>3, <1>4

LEMMA AddTestStepShown ==
    ASSUME Shapes, AllShown, Still, NEW t \in Mine \cup {Blank}, AddTestStep(t)
    PROVE  AllShown'
<1>. DEFINE n == NextTempStepID
            x == [idx |-> NextIdx, text |-> t]
<1>1. n \in Int /\ n < 0 /\ n \notin DOMAIN steps
  BY CacheIs, NextTempStepIDIs
<1>2. steps' = With(steps, n, x) /\ Queue(pending, "test_step_add", n, "step", Blank, Snapshot(x))
  BY DEF AddTestStep
<1>. HIDE DEF n
<1>3. /\ DOMAIN steps' = DOMAIN steps \cup {n} /\ steps'[n].text = t
      /\ \A s \in DOMAIN steps : steps'[s] = steps[s]
  BY <1>1, <1>2 DEF With
<1>4. RowsAt(pending, "test_step_add", n, "step") = {}
  BY <1>1, StillIs DEF RowsAt, AllShown, StepShown
<1>5. ASSUME NEW r \in pending' PROVE StepShown(r)'
  <2>1. CASE r \in pending
    <3>1. r.key = n => r.type \notin {"test_step", "test_step_delete", "test_step_add"}
      BY <1>1, <2>1, StillIs DEF AllShown, StepShown
    <3>2. CASE r.key = n
      BY <3>1, <3>2 DEF StepShown
    <3>3. CASE r.key # n
      BY <1>3, <2>1, <3>3, StillIs, ShownKept DEF AllShown
    <3>. QED BY <3>2, <3>3
  <2>2. CASE r.type = "test_step_add" /\ r.key = n /\ r.after = Snapshot(x)
    <3>1. r.after[2] = t
      BY <2>2 DEF Snapshot
    <3>. QED BY <1>3, <2>2, <3>1 DEF StepShown
  <2>. QED BY <1>2, <2>1, <2>2, QueuedRow
<1>6. Placeholders'
  <2>1. \A r \in pending : r.type = "test_step_add" => r \in pending'
    BY <1>2, <1>4, QueueKeeps DEF RowsAt
  <2>2. \E r \in pending' : Adds(r, n)
    <3>. DEFINE p == [id |-> lastRow + 1, type |-> "test_step_add", key |-> n, field |-> "step",
                  before |-> Blank, after |-> Snapshot(x), base |-> test.ver]
    <3>1. p \in pending'
      BY <1>2, <1>4, QueueIs
    <3>. QED BY <3>1 DEF Adds
  <2>. QED BY <1>3, <2>1, <2>2, StillIs DEF AllShown, Placeholders, Adds
<1>. QED
  BY <1>5, <1>6 DEF AllShown

LEMMA DeleteTestStepShown ==
    ASSUME Shapes, AllShown, Still, NEW s \in DOMAIN steps, DeleteTestStep(s)
    PROVE  AllShown'
<1>1. DOMAIN steps' = DOMAIN steps \ {s} /\ \A e \in DOMAIN steps' : steps'[e] = steps[e]
  BY DEF DeleteTestStep, Only
<1>2. ASSUME NEW r \in pending, r.key # s PROVE StepShown(r)'
  BY <1>1, <1>2, StillIs, ShownKept DEF AllShown
<1>3. CASE AddRow(s) # {}
  <2>1. pending' = Pruned(pending \ AddRow(s), s) /\ Table(pending \ AddRow(s), lastRow, born)
    BY <1>3, TableSubset DEF DeleteTestStep, Shapes
  <2>2. s < 0
    BY <1>3, AddRowIs, ShapeIs DEF Adds, Shape
  <2>3. ASSUME NEW r \in pending' PROVE StepShown(r)'
    <3>1. PICK q \in pending \ AddRow(s) : r = PrunedRow(q, s)
      BY <2>1, PrunedIs
    <3>2. CASE q.type = "test_step_order"
      <4>1. r.type = "test_step_order"
        BY <3>1, <3>2, PrunedRowIs, ShapeIs
      <4>. QED BY <4>1 DEF StepShown
    <3>3. CASE q.type # "test_step_order"
      <4>1. r = q
        BY <3>1, <3>3 DEF PrunedRow
      <4>2. CASE q.key # s
        BY <1>2, <4>1, <4>2
      <4>3. CASE q.key = s
        <5>1. q.type # "test_step_add"
          BY <4>3, AddRowIs DEF Adds
        <5>2. q.type # "test_step" /\ q.type # "test_step_delete"
          BY <2>2, <4>3, CacheIs DEF AllShown, StepShown
        <5>. QED BY <4>1, <5>1, <5>2 DEF StepShown
      <4>. QED BY <4>2, <4>3
    <3>. QED BY <3>2, <3>3
  <2>4. \A q \in pending : q.type = "test_step_add" /\ q.key # s => q \in pending'
    BY <2>1, PrunedIs, AddRowIs DEF Adds
  <2>. QED BY <1>1, <2>3, <2>4, StillIs DEF AllShown, Placeholders, Adds
<1>4. CASE AddRow(s) = {}
  <2>. DEFINE j == {r \in pending : r.type # "test_step" \/ r.key # s}
  <2>1. Queue(j, "test_step_delete", s, "step", Snapshot(steps[s]), Blank) /\ j \subseteq pending
    BY <1>4 DEF DeleteTestStep
  <2>2. s > 0
    BY <1>4, AddRowIs, CacheIs DEF AllShown, Placeholders
  <2>3. ASSUME NEW r \in pending' PROVE StepShown(r)'
    <3>1. CASE r.type = "test_step_delete" /\ r.key = s
      BY <1>1, <2>2, <3>1 DEF StepShown
    <3>2. CASE r \in j
      <4>1. CASE r.key = s
        <5>1. r.type # "test_step"
          BY <3>2, <4>1
        <5>2. r.type # "test_step_delete"
          BY <3>2, <4>1 DEF AllShown, StepShown
        <5>3. r.type # "test_step_add"
          BY <1>4, <3>2, <4>1, AddRowIs DEF Adds
        <5>. QED BY <5>1, <5>2, <5>3 DEF StepShown
      <4>. QED BY <1>2, <3>2, <4>1
    <3>3. \/ r \in j /\ ~ (r.type = "test_step_delete" /\ r.key = s /\ r.field = "step")
          \/ r.type = "test_step_delete" /\ r.key = s /\ r.field = "step" /\ r.after = Blank
      <4>. HIDE DEF j
      <4>. QED BY <2>1, QueuedRow
    <3>. QED BY <3>1, <3>2, <3>3
  <2>4. \A r \in pending : r.type = "test_step_add" => r \in pending'
    BY <2>1, QueueKeeps
  <2>. QED
    BY <1>1, <2>3, <2>4, StillIs DEF AllShown, Placeholders, Adds
<1>. QED
  BY <1>3, <1>4

LEMMA ReorderTestStepsShown ==
    ASSUME Shapes, AllShown, Still, NEW i \in 1..Cardinality(DOMAIN steps), ReorderTestSteps(i)
    PROVE  AllShown'
<1>1. PICK current \in Listed : /\ steps' = StepsInOrder(Swapped(current, i))
                                /\ Queue(pending, "test_step_order", TestKey, "order", current, Swapped(current, i))
                                /\ i < Cardinality(DOMAIN steps)
  BY DEF ReorderTestSteps, Swapped
<1>2. Swapped(current, i) \in Seq(Int)
  BY <1>1, SwappedIs
<1>3. DOMAIN steps' = DOMAIN steps /\ \A s \in DOMAIN steps : steps'[s].text = steps[s].text
  BY <1>1, <1>2, StepsInOrderIs
<1>4. ASSUME NEW r \in pending' PROVE StepShown(r)'
  <2>1. CASE r.type = "test_step_order"
    BY <2>1 DEF StepShown
  <2>2. CASE r \in pending
    BY <1>3, <2>2, StillIs, ShownKept DEF AllShown
  <2>. QED BY <1>1, <2>1, <2>2, QueuedRow
<1>5. \A r \in pending : r.type = "test_step_add" => r \in pending'
  BY <1>1, QueueKeeps
<1>. QED
  BY <1>3, <1>4, <1>5, StillIs DEF AllShown, Placeholders, Adds

LEMMA DiscardShown ==
    ASSUME Shapes, AllShown, Still, NEW d \in pending, DiscardPendingChange(d)
    PROVE  AllShown'
<1>1. Shape(d) /\ StepShown(d) /\ d.type \in Types
  BY ShapeIs, RowIs DEF AllShown
<1>2. ASSUME NEW r \in pending' PROVE r \in pending /\ r # d /\ StepShown(r)
  BY DiscardIs DEF AllShown, Delete
<1>3. \A r \in pending : r # d => r \in pending'
  BY DiscardIs, ShapeIs DEF Delete
<1>4. CASE d.type = "test_case" \/ d.type = "test_step_order" \/ (d.type = "test_step" /\ d.key \notin DOMAIN steps)
  <2>1. DOMAIN steps' = DOMAIN steps /\ \A s \in DOMAIN steps : steps'[s].text = steps[s].text
    <3>1. CASE d.type = "test_step_order"
      <4>1. steps' = StepsInOrder(d.before) /\ d.before \in Seq(Int)
        BY <1>1, <3>1 DEF DiscardPendingChange, Shape
      <4>. QED BY <4>1, StepsInOrderIs
    <3>2. CASE d.type # "test_step_order"
      <4>1. steps' = steps
        BY <1>4, <3>2 DEF DiscardPendingChange
      <4>. QED BY <4>1
    <3>. QED BY <3>1, <3>2
  <2>2. \A r \in pending' : StepShown(r)'
    BY <1>2, <2>1, StillIs, ShownKept
  <2>3. d.type # "test_step_add"
    BY <1>4
  <2>. QED
    BY <1>3, <2>1, <2>2, <2>3, StillIs DEF AllShown, Placeholders, Adds
<1>5. CASE d.type = "test_step" /\ d.key \in DOMAIN steps
  <2>1. /\ DOMAIN steps' = DOMAIN steps /\ \A s \in DOMAIN steps : s # d.key => steps'[s] = steps[s]
    BY <1>5 DEF DiscardPendingChange
  <2>2. ASSUME NEW r \in pending' PROVE StepShown(r)'
    <3>1. CASE r.key # d.key
      BY <1>2, <2>1, <3>1, StillIs, ShownKept
    <3>2. CASE r.key = d.key
      <4>1. r.type # "test_step"
        BY <1>1, <1>2, <1>5, <3>2, ShapeIs DEF Shape
      <4>2. r.type # "test_step_delete"
        BY <1>2, <1>5, <3>2 DEF StepShown
      <4>3. r.type # "test_step_add"
        BY <1>1, <1>2, <1>5, <3>2, ShapeIs DEF Shape, StepShown
      <4>. QED BY <4>1, <4>2, <4>3 DEF StepShown
    <3>. QED BY <3>1, <3>2
  <2>. QED
    BY <1>3, <1>5, <2>1, <2>2, StillIs DEF AllShown, Placeholders, Adds
<1>6. CASE d.type = "test_step_delete"
  <2>1. steps' = With(steps, d.key, [idx |-> d.before[1], text |-> d.before[2]]) /\ d.key > 0 /\ d.key \notin DOMAIN steps
    BY <1>1, <1>6 DEF DiscardPendingChange, StepShown
  <2>2. DOMAIN steps' = DOMAIN steps \cup {d.key} /\ \A s \in DOMAIN steps : steps'[s] = steps[s]
    BY <2>1 DEF With
  <2>3. ASSUME NEW r \in pending' PROVE StepShown(r)'
    <3>1. CASE r.key # d.key
      BY <1>2, <2>2, <3>1, StillIs, ShownKept
    <3>2. CASE r.key = d.key
      <4>1. r.type # "test_step" /\ r.type # "test_step_add"
        BY <1>2, <2>1, <3>2, StillIs DEF StepShown
      <4>2. r.type # "test_step_delete"
        BY <1>1, <1>2, <1>6, <3>2, ShapeIs DEF Shape
      <4>. QED BY <4>1, <4>2 DEF StepShown
    <3>. QED BY <3>1, <3>2
  <2>4. d.key \in Int
    BY ShapeIs
  <2>. QED
    BY <1>3, <1>6, <2>1, <2>2, <2>3, <2>4, StillIs DEF AllShown, Placeholders, Adds
<1>7. CASE d.type = "test_step_add"
  <2>1. steps' = Only(steps, DOMAIN steps \ {d.key}) /\ d.key < 0 /\ d.key \in Int
    BY <1>1, <1>7, ShapeIs DEF DiscardPendingChange, Shape
  <2>2. DOMAIN steps' = DOMAIN steps \ {d.key} /\ \A s \in DOMAIN steps' : steps'[s] = steps[s]
    BY <2>1 DEF Only
  <2>3. ASSUME NEW r \in pending' PROVE StepShown(r)'
    <3>1. CASE r.key # d.key
      BY <1>2, <2>2, <3>1, StillIs, ShownKept
    <3>2. CASE r.key = d.key
      <4>1. r.type # "test_step" /\ r.type # "test_step_delete"
        BY <1>2, <2>1, <3>2 DEF StepShown
      <4>2. r.type # "test_step_add"
        BY <1>1, <1>2, <1>7, <3>2, ShapeIs DEF Shape
      <4>. QED BY <4>1, <4>2 DEF StepShown
    <3>. QED BY <3>1, <3>2
  <2>. QED
    BY <1>3, <2>2, <2>3, StillIs DEF AllShown, Placeholders, Adds
<1>. QED
  BY <1>1, <1>4, <1>5, <1>6, <1>7 DEF Types

LEMMA RebasedSame ==
    ASSUME NEW j, NEW n, NEW b, Table(j, n, b), NEW v \in Nat
    PROVE  /\ \A r \in Rebased(j, v) : r.base = v /\ \E q \in j : Same(q, r)
           /\ \A q \in j : \E r \in Rebased(j, v) : Same(q, r) /\ r.base = v
<1>1. ASSUME NEW r \in Rebased(j, v) PROVE r.base = v /\ \E q \in j : Same(q, r)
  BY RebasedIs DEF Same
<1>2. ASSUME NEW q \in j PROVE \E r \in Rebased(j, v) : Same(q, r) /\ r.base = v
  <2>1. \E r \in Rebased(j, v) : Same(q, r)
    BY RebasedIs DEF Same
  <2>. QED BY <1>1, <2>1
<1>. QED
  BY <1>1, <1>2

\* What is left of a conflict's rows is rebased; those taken back pended.
LEMMA ResolvedRows ==
    ASSUME Shapes, NEW theirs, ResolveConflict(theirs)
    PROVE  /\ \A r \in pending' : \E q \in pending : Same(q, r) /\ q.id \notin theirs /\ r.base = conflict.ver
           /\ \A q \in pending : q.id \notin theirs => \E r \in pending' : Same(q, r) /\ r.base = conflict.ver
<1>1. pending' = Rebased(Delete(pending, theirs), conflict.ver) /\ conflict.ver \in Nat
  BY ResolveIs DEF Shapes, Conflicting
<1>2. Table(Delete(pending, theirs), lastRow, born)
  BY DeleteIs, TableSubset DEF Shapes
<1>3. /\ \A r \in pending' : r.base = conflict.ver /\ \E q \in Delete(pending, theirs) : Same(q, r)
      /\ \A q \in Delete(pending, theirs) : \E r \in pending' : Same(q, r) /\ r.base = conflict.ver
  <2>. DEFINE D == Delete(pending, theirs)
  <2>. HIDE DEF D
  <2>. QED BY <1>1, <1>2, RebasedSame DEF D
<1>. QED
  BY <1>3 DEF Delete

LEMMA ResolveShown ==
    ASSUME Shapes, AllShown, Still, \A c \in conflict.held : c.row \in pending,
           NEW theirs, ResolveConflict(theirs)
    PROVE  AllShown'
<1>1. \A c \in Taken(theirs) : c.row \in pending /\ StepShown(c.row) /\ c.row.id \in theirs
  BY DEF Taken, AllShown
<1>2. /\ DOMAIN steps' = DOMAIN steps \cup {c.row.key : c \in Undone(theirs)}
      /\ \A s \in DOMAIN steps' :
            IF \E c \in Undone(theirs) : c.row.key = s
            THEN \E c \in Undone(theirs) : c.row.key = s /\ steps'[s].text = c.remote[2]
            ELSE /\ s \in DOMAIN steps
                 /\ IF TextOf(theirs, s) # {} THEN \E c \in TextOf(theirs, s) : steps'[s].text = c.remote
                    ELSE steps'[s].text = steps[s].text
  BY ResolvedSteps
<1>3. \A c \in Undone(theirs) : c.row.key > 0 /\ c.row.key \notin DOMAIN steps /\ c.row.key \in Int
  BY <1>1, ShapeIs DEF Undone, StepShown
<1>4. ASSUME NEW r \in pending' PROVE StepShown(r)'
  <2>1. PICK q \in pending : Same(q, r) /\ q.id \notin theirs
    BY ResolvedRows
  <2>2. StepShown(q) /\ ~ Pushed(r)' /\ ~ Pushed(r) /\ Shape(q)
    BY StillIs, ShapeIs DEF AllShown
  <2>3. StepShown(r)
    BY <2>1, <2>2, SameShown
  <2>4. CASE r.type = "test_step"
    <3>1. r.key \in DOMAIN steps /\ r.key > 0 /\ steps[r.key].text = r.after
      BY <2>3, <2>4 DEF StepShown
    <3>2. ~ \E c \in Undone(theirs) : c.row.key = r.key
      BY <1>3, <3>1
    <3>3. TextOf(theirs, r.key) = {}
      <4>. SUFFICES ASSUME NEW c \in TextOf(theirs, r.key) PROVE FALSE
        OBVIOUS
      <4>1. c.row \in pending /\ c.row.type = "test_step" /\ c.row.key = q.key /\ c.row.id \in theirs
        BY <1>1, <2>1 DEF TextOf, Same
      <4>2. c.row.field = "action" /\ q.field = "action" /\ q.type = "test_step"
        BY <2>1, <2>2, <2>4, <4>1, ShapeIs DEF Shape, Same
      <4>. QED BY <2>1, <4>1, <4>2, ShapeIs
    <3>. QED BY <1>2, <2>4, <3>1, <3>2, <3>3 DEF StepShown
  <2>5. CASE r.type = "test_step_delete"
    <3>1. r.key > 0 /\ r.key \notin DOMAIN steps
      BY <2>3, <2>5 DEF StepShown
    <3>2. ASSUME NEW c \in Undone(theirs), c.row.key = r.key PROVE FALSE
      <4>1. c.row \in pending /\ c.row.type = "test_step_delete" /\ c.row.key = q.key /\ c.row.id \in theirs
        BY <1>1, <2>1, <3>2 DEF Undone, Same
      <4>2. c.row.field = "step" /\ q.field = "step" /\ q.type = "test_step_delete"
        BY <2>1, <2>2, <2>5, <4>1, ShapeIs DEF Shape, Same
      <4>. QED BY <2>1, <4>1, <4>2, ShapeIs
    <3>. QED BY <1>2, <2>5, <3>1, <3>2 DEF StepShown
  <2>6. CASE r.type = "test_step_add"
    <3>1. r.key < 0 /\ r.key \in Int /\ r.key \in DOMAIN steps /\ steps[r.key].text = r.after[2]
      BY <2>1, <2>2, <2>3, <2>6, ShapeIs DEF StepShown, Shape, Same
    <3>2. ~ \E c \in Undone(theirs) : c.row.key = r.key
      BY <1>3, <3>1
    <3>3. TextOf(theirs, r.key) = {}
      BY <1>1, <3>1 DEF TextOf, StepShown, Taken
    <3>. QED BY <1>2, <2>6, <3>1, <3>2, <3>3 DEF StepShown
  <2>. QED BY <2>4, <2>5, <2>6 DEF StepShown
<1>5. ASSUME NEW s \in DOMAIN steps', s < 0 PROVE \E r \in pending' : Adds(r, s) /\ ~ Pushed(r)'
  <2>1. s \in DOMAIN steps
    BY <1>2, <1>3, <1>5
  <2>2. PICK q \in pending : Adds(q, s)
    BY <1>5, <2>1 DEF AllShown, Placeholders
  <2>3. q.id \notin theirs
    <3>. SUFFICES ASSUME q.id \in theirs PROVE FALSE
      OBVIOUS
    <3>1. PICK c \in conflict.held : c.row.id = q.id
      BY ResolveIs
    <3>2. c.row = q
      BY <3>1, ShapeIs
    <3>3. c.row.type # "test_step_add"
      BY ResolveIs DEF Shapes, Conflicting, Held
    <3>. QED BY <2>2, <3>2, <3>3 DEF Adds
  <2>4. PICK r \in pending' : Same(q, r)
    BY <2>3, ResolvedRows
  <2>. QED BY <2>2, <2>4, StillIs DEF Adds, Same
<1>. QED
  BY <1>4, <1>5 DEF AllShown, Placeholders

\* A row that adds a step is never found to be there already.
LEMMA AddsStayOpen ==
    ASSUME Shapes, \A q \in rows : \E p \in pending : Same(p, q), NEW r \in pending, r.type = "test_step_add"
    PROVE  r \in Open
<1>. SUFFICES ASSUME NEW t \in There, r.id = t.id PROVE FALSE
  BY DEF Open, Delete
<1>1. PICK p \in pending : Same(p, t)
  BY DEF There
<1>2. p = r
  BY <1>1, ShapeIs DEF Same
<1>. QED
  BY <1>1, <1>2 DEF Same, There, AlreadyThere

LEMMA DetectShown ==
    ASSUME Shapes, AllShown, \A q \in rows : \E p \in pending : Same(p, q), DetectConflicts
    PROVE  AllShown'
<1>1. /\ pc = "scan" /\ pc' \in {"idle", "fields"} /\ steps' = steps
      /\ pending' = Open \/ pending' = Rebased(Open, version)
  BY DetectIs, LeaveIs
<1>2. Table(Open, lastRow, born) /\ version \in Nat /\ Open \subseteq pending
  BY TableSubset, DeleteIs DEF Open, Shapes
<1>3. ASSUME NEW r \in pending' PROVE \E p \in pending : Same(p, r)
  <2>1. \E p \in Open : Same(p, r)
    BY <1>1, <1>2, RebasedIs DEF Same
  <2>. QED BY <1>2, <2>1
<1>4. ASSUME NEW r \in Open PROVE \E p \in pending' : Same(r, p)
  BY <1>1, <1>2, RebasedIs DEF Same
<1>5. \A r : ~ Pushed(r) /\ ~ Pushed(r)'
  BY <1>1 DEF Pushed
<1>6. ASSUME NEW r \in pending' PROVE StepShown(r)'
  <2>1. StepShown(r)
    BY <1>3, SameShown DEF AllShown
  <2>. QED BY <1>1, <1>5, <2>1, ShownKept
<1>7. ASSUME NEW s \in DOMAIN steps, s < 0 PROVE \E r \in pending' : Adds(r, s)
  <2>1. PICK q \in pending : Adds(q, s)
    BY <1>7 DEF AllShown, Placeholders
  <2>2. q \in Open
    BY <2>1, AddsStayOpen DEF Adds
  <2>. QED BY <1>4, <2>1, <2>2 DEF Adds, Same
<1>. QED
  BY <1>1, <1>5, <1>6, <1>7 DEF AllShown, Placeholders

LEMMA SendsShown ==
    ASSUME Shapes, AllShown, \A q \in rows : \E p \in pending : Same(p, q), Sends
    PROVE  AllShown'
<1>1. UNCHANGED <<steps, pending, rows>> /\ pc # "clear"
  BY SendsIs
<1>2. ASSUME NEW r, Pushed(r) PROVE Pushed(r)'
  BY <1>2, SendsIs DEF Pushed
<1>3. ASSUME NEW r \in pending, r.type = "test_step_add", Pushed(r)' PROVE Pushed(r)
  <2>1. pc' \in {"adds", "moves", "clear"} /\ (\E q \in rows : q.id = r.id) /\ \A q \in left' : q.id # r.id
    BY <1>1, <1>3 DEF Pushed
  <2>2. CASE pc' = "adds"
    <3>1. left' = OfType(rows, "test_step_add")
      BY <2>2, SendsIs
    <3>2. PICK q \in rows : q.id = r.id
      BY <2>1
    <3>3. PICK p \in pending : Same(p, q)
      OBVIOUS
    <3>4. p = r
      BY <3>2, <3>3, ShapeIs DEF Same
    <3>. QED BY <1>3, <2>1, <3>1, <3>2, <3>3, <3>4 DEF OfType, Same
  <2>3. CASE pc' # "adds"
    BY <2>1, <2>3, SendsIs DEF Pushed
  <2>. QED BY <2>2, <2>3
<1>4. \A r \in pending : StepShown(r)'
  BY <1>1, <1>2, ShownKept DEF AllShown
<1>. QED
  BY <1>1, <1>3, <1>4 DEF AllShown, Placeholders, Adds

LEMMA CreateStepShown ==
    ASSUME Shapes, AllShown, \A q \in rows : \E p \in pending : Same(p, q),
           NEW x \in left, CreateStep(x), "fault" \notin met'
    PROVE  AllShown'
<1>1. /\ pc = "adds" /\ pc' = "adds" /\ left' = left \ {x} /\ UNCHANGED <<pending, rows>>
      /\ RenameTestStepID(x.key, born + 1)
  BY CreatesIs
<1>2. x \in rows /\ Shape(x) /\ x.type = "test_step_add" /\ x.key < 0 /\ x.key \in Int /\ x.field = "step"
  BY <1>1, LeftIs, ShapeIs DEF Shape
<1>3. PICK m \in pending : Same(m, x)
  BY <1>2
<1>4. /\ born + 1 \notin DOMAIN steps /\ born \in Nat
      /\ x.key \notin DOMAIN steps => steps' = steps
      /\ x.key \in DOMAIN steps => DOMAIN steps' = (DOMAIN steps \ {x.key}) \cup {born + 1}
      /\ \A s \in DOMAIN steps : s # x.key => s \in DOMAIN steps' /\ steps'[s] = steps[s]
  BY <1>1, <1>2, RenamedIs DEF Shapes
<1>5. \A r : Pushed(r)' <=> Pushed(r) \/ (r.id = x.id)
  <2>1. \A q \in left : q.id = x.id => q = x
    BY <1>2, LeftIs, ShapeIs
  <2>. QED BY <1>1, <1>2, <2>1 DEF Pushed
<1>6. ASSUME NEW r \in pending PROVE StepShown(r)'
  <2>0. StepShown(r) /\ Shape(r) /\ Names(r, born) /\ r.key \in Int
    BY ShapeIs DEF AllShown
  <2>1. CASE r.type = "test_step_add" /\ r.id = x.id
    BY <1>5, <2>1 DEF StepShown
  <2>2. CASE r.type = "test_step_add" /\ r.id # x.id
    <3>1. r.key # x.key
      <4>1. r # m /\ m.type = r.type /\ m.field = r.field /\ m.key = x.key
        BY <1>2, <1>3, <2>0, <2>2 DEF Same, Shape
      <4>. QED BY <4>1, ShapeIs
    <3>. QED BY <1>4, <1>5, <2>0, <2>2, <3>1 DEF StepShown
  <2>3. CASE r.type = "test_step"
    BY <1>2, <1>4, <2>0, <2>3 DEF StepShown
  <2>4. CASE r.type = "test_step_delete"
    <3>1. r.key \in Int /\ r.key <= born /\ r.key > 0 /\ r.key \notin DOMAIN steps
      BY <2>0, <2>4 DEF StepShown, Names, Known
    <3>2. r.key \notin DOMAIN steps'
      BY <1>4, <3>1
    <3>. QED BY <2>4, <3>1, <3>2 DEF StepShown
  <2>. QED BY <2>1, <2>2, <2>3, <2>4 DEF StepShown
<1>7. ASSUME NEW s \in DOMAIN steps', s < 0 PROVE \E r \in pending : Adds(r, s) /\ ~ Pushed(r)'
  <2>1. s \in DOMAIN steps /\ (s = x.key => FALSE)
    BY <1>2, <1>4, <1>7
  <2>2. PICK r \in pending : Adds(r, s) /\ ~ Pushed(r)
    BY <1>7, <2>1 DEF AllShown, Placeholders
  <2>3. r.id # x.id
    <3>1. r.id = x.id => r = m
      BY <1>3, ShapeIs DEF Same
    <3>. QED BY <1>3, <2>1, <2>2, <3>1 DEF Same, Adds
  <2>. QED BY <1>5, <2>2, <2>3
<1>. QED
  BY <1>1, <1>6, <1>7 DEF AllShown, Placeholders

LEMMA ClearShown ==
    ASSUME Shapes, AllShown, ClearRows
    PROVE  AllShown'
<1>1. /\ pc = "clear" /\ steps' = steps /\ pending' = Delete(pending, {r.id : r \in rows})
      /\ left = {} /\ pc' \in {"idle", "rebase"}
  BY EndsAre DEF Shapes, Phases
<1>2. \A r \in pending : r \in pending' <=> ~ Pushed(r)
  BY <1>1 DEF Pushed, Delete
<1>3. \A r : ~ Pushed(r)'
  BY <1>1 DEF Pushed
<1>4. \A r \in pending' : r \in pending
  BY <1>1 DEF Delete
<1>. QED
  BY <1>1, <1>2, <1>3, <1>4 DEF AllShown, Placeholders, StepShown

LEMMA NextStepsShown == Shapes /\ RowsPend /\ HeldPends /\ StepsShown /\ [Next]_vars => StepsShown'
<1>. SUFFICES ASSUME Shapes, RowsPend, HeldPends, StepsShown, [Next]_vars, Calmly' PROVE AllShown'
  BY DEF StepsShown, AllShown
<1>0. /\ met \subseteq met' => AllShown /\ (conflict # None => \A c \in conflict.held : c.row \in pending)
      /\ met \subseteq met' /\ pc \notin {"idle", "rebase"} => \A q \in rows : \E p \in pending : Same(p, q)
      /\ met' \cap {"onscreen", "refresh", "fault", "refused", "meanwhile"} = {}
  BY DEF StepsShown, AllShown, Calmly, NotMet, RowsPend, HeldPends
<1>1. CASE UNCHANGED vars
  BY <1>0, <1>1 DEF vars, local, commit, AllShown, Placeholders, StepShown, Pushed
<1>2. ASSUME NEW texts, Edit(texts) PROVE AllShown /\ Still
  BY <1>0, <1>2, EditIs DEF Still
<1>3. ASSUME NEW f \in Fields, NEW v \in Mine, EditTestField(f, v) PROVE AllShown'
  BY <1>2, <1>3, EditsAre, EditTestFieldShown
<1>4. ASSUME NEW s \in DOMAIN steps, NEW v \in Mine, EditTestStepField(s, v) PROVE AllShown'
  BY <1>2, <1>4, EditsAre, EditTestStepFieldShown
<1>5. ASSUME NEW t \in Mine \cup {Blank}, AddTestStep(t) PROVE AllShown'
  BY <1>2, <1>5, EditsAre, AddTestStepShown
<1>6. ASSUME NEW s \in DOMAIN steps, DeleteTestStep(s) PROVE AllShown'
  BY <1>2, <1>6, EditsAre, DeleteTestStepShown
<1>7. ASSUME NEW i \in 1..Cardinality(DOMAIN steps), ReorderTestSteps(i) PROVE AllShown'
  BY <1>2, <1>7, EditsAre, ReorderTestStepsShown
<1>8. ASSUME NEW d \in pending, DiscardPendingChange(d) PROVE AllShown'
  <2>1. AllShown /\ Still
    BY <1>0, <1>8, DiscardIs DEF Still
  <2>. QED BY <1>8, <2>1, DiscardShown
<1>9. CASE RefreshSteps
  <2>1. \A r \in pending' : r.type = "test_case"
    BY <1>0, <1>9, RefreshIs DEF IsStepRow
  <2>2. \A s \in DOMAIN steps' : s > 0
    BY <1>9, FetchedIs
  <2>3. \A s \in DOMAIN steps' : s \in Int
    BY <1>9, FetchedIs
  <2>. QED BY <2>1, <2>2, <2>3 DEF AllShown, Placeholders, StepShown
<1>10. CASE SyncTest \/ RemoteEdit
  <2>1. UNCHANGED <<steps, pending, pc, rows, left>> /\ AllShown
    BY <1>0, <1>10, SyncIs, RemoteEditIs
  <2>. QED BY <2>1 DEF AllShown, Placeholders, StepShown, Pushed
<1>11. ASSUME NEW theirs, ResolveConflict(theirs) PROVE AllShown'
  <2>1. AllShown /\ Still /\ \A c \in conflict.held : c.row \in pending
    BY <1>0, <1>11, ResolveIs, ResolveMet DEF Still
  <2>. QED BY <1>11, <2>1, ResolveShown
<1>12. ASSUME NEW selected \in SUBSET pending, CommitChanges(selected) PROVE AllShown'
  <2>1. UNCHANGED <<steps, pending>> /\ AllShown /\ \A r : ~ Pushed(r) /\ ~ Pushed(r)'
    BY <1>0, <1>12, CommitChangesIs DEF Pushed
  <2>. QED BY <2>1 DEF AllShown, Placeholders, StepShown
<1>13. CASE DetectConflicts
  <2>1. pc = "scan" /\ met \subseteq met'
    BY <1>13, DetectIs
  <2>. QED BY <1>0, <1>13, <2>1, DetectShown
<1>14. CASE Sends
  <2>1. pc \notin {"idle", "rebase"} /\ met' = met
    BY <1>14, SendsIs
  <2>. QED BY <1>0, <1>14, <2>1, SendsShown
<1>15. ASSUME NEW x \in left, CreateStep(x) PROVE AllShown'
  <2>1. pc = "adds" /\ met \subseteq met' /\ "fault" \notin met'
    BY <1>0, <1>15, CreatesIs
  <2>. QED BY <1>0, <1>15, <2>1, CreateStepShown
<1>16. CASE RefusedEnds \/ Fault
  BY <1>0, <1>16, EndsAre
<1>17. CASE ClearRows
  BY <1>0, <1>17, EndsAre, ClearShown
<1>18. CASE RebaseRest
  <2>1. /\ pc = "rebase" /\ pc' = "idle" /\ pending' = Rebased(pending, jira.ver) /\ steps' = steps /\ AllShown
    BY <1>0, <1>18, EndsAre
  <2>2. /\ \A r \in pending' : \E q \in pending : Same(q, r)
        /\ \A q \in pending : \E r \in pending' : Same(q, r)
    <3>1. Table(pending, lastRow, born) /\ jira.ver \in Nat
      BY JiraIs DEF Shapes
    <3>. QED BY <2>1, <3>1, RebasedSame
  <2>3. \A r : ~ Pushed(r) /\ ~ Pushed(r)'
    BY <2>1 DEF Pushed
  <2>4. ASSUME NEW r \in pending' PROVE StepShown(r)'
    <3>1. StepShown(r)
      BY <2>1, <2>2, SameShown DEF AllShown
    <3>. QED BY <2>1, <2>3, <3>1, ShownKept
  <2>. QED BY <2>1, <2>2, <2>3, <2>4 DEF AllShown, Placeholders, Adds, Same
<1>. QED
  BY <1>1, <1>3, <1>4, <1>5, <1>6, <1>7, <1>8, <1>9, <1>10, <1>11, <1>12, <1>13, <1>14, <1>15, <1>16, <1>17, <1>18,
     NextIs DEF Sends

\* How the queued orders follow the cache.
AllOrders == \A r \in pending : OrderShown(r)

LEMMA OrderKept ==
    ASSUME NEW r, OrderShown(r),
           \A k \in DOMAIN r.after : r.after[k] \in DOMAIN steps' =>
                 r.after[k] \in DOMAIN steps /\ steps'[r.after[k]].idx = steps[r.after[k]].idx,
           \A p \in pending : p.type = "test_step_add" => \E q \in pending' : Adds(q, p.key)
    PROVE  OrderShown(r)'
<1>1. ASSUME r.type = "test_step_order", NEW k \in DOMAIN r.after, r.after[k] < 0
      PROVE  \E p \in pending' : Adds(p, r.after[k])
  BY <1>1 DEF OrderShown, Adds
<1>2. ASSUME r.type = "test_step_order", NEW k \in DOMAIN r.after, NEW l \in DOMAIN r.after, k < l,
             {r.after[k], r.after[l]} \subseteq DOMAIN steps'
      PROVE  steps'[r.after[k]].idx < steps'[r.after[l]].idx
  BY <1>2 DEF OrderShown
<1>. QED
  BY <1>1, <1>2 DEF OrderShown

LEMMA SameOrder ==
    ASSUME NEW p, NEW q, Same(p, q)
    PROVE  OrderShown(p) => OrderShown(q)
BY DEF Same, OrderShown

LEMMA EditTestFieldOrders ==
    ASSUME Shapes, AllOrders, NEW f \in Fields, NEW v \in Mine, EditTestField(f, v)
    PROVE  AllOrders'
<1>1. Queue(pending, "test_case", TestKey, f, test.field[f], v) /\ steps' = steps
  BY DEF EditTestField
<1>2. \A p \in pending : p.type = "test_step_add" => \E q \in pending' : Adds(q, p.key)
  BY <1>1, QueueKeeps DEF Adds
<1>3. ASSUME NEW r \in pending' PROVE OrderShown(r)'
  <2>1. CASE r.type # "test_step_order"
    BY <2>1 DEF OrderShown
  <2>2. CASE r \in pending
    BY <1>1, <1>2, <2>2, OrderKept DEF AllOrders
  <2>. QED BY <1>1, <2>1, <2>2, QueuedRow
<1>. QED
  BY <1>3 DEF AllOrders

LEMMA EditTestStepFieldOrders ==
    ASSUME Shapes, AllOrders, NEW s \in DOMAIN steps, NEW v \in Mine, EditTestStepField(s, v)
    PROVE  AllOrders'
<1>1. DOMAIN steps' = DOMAIN steps /\ \A e \in DOMAIN steps : steps'[e].idx = steps[e].idx
  BY CacheIs DEF EditTestStepField
<1>2. CASE AddRow(s) # {}
  <2>1. pending' = Folded(pending, s, v)
    BY <1>2 DEF EditTestStepField, Folded, FoldedRow, AddRow
  <2>2. ASSUME NEW p \in pending PROVE \E q \in pending' : q.type = p.type /\ q.key = p.key
    BY <2>1, FoldedRowIs DEF Shapes, Folded
  <2>3. ASSUME NEW r \in pending' PROVE OrderShown(r)'
    <3>1. PICK q \in pending : r = FoldedRow(q, pending, s, v)
      BY <2>1 DEF Folded
    <3>2. r.type = q.type /\ (q.type # "test_step_add" => r = q)
      <4>1. r.type = q.type
        BY <3>1, FoldedRowIs DEF Shapes
      <4>2. ASSUME q.type # "test_step_add" PROVE r = q
        BY <3>1, <4>2, AtPlace DEF FoldedRow
      <4>. QED BY <4>1, <4>2
    <3>3. CASE q.type # "test_step_order"
      BY <3>2, <3>3 DEF OrderShown
    <3>4. CASE q.type = "test_step_order"
      BY <1>1, <2>2, <3>2, <3>4, OrderKept DEF AllOrders, Adds
    <3>. QED BY <3>3, <3>4
  <2>. QED BY <2>3 DEF AllOrders
<1>3. CASE AddRow(s) = {}
  <2>1. Queue(pending, "test_step", s, "action", steps[s].text, v)
    BY <1>3 DEF EditTestStepField
  <2>2. \A p \in pending : p.type = "test_step_add" => \E q \in pending' : Adds(q, p.key)
    BY <2>1, QueueKeeps DEF Adds
  <2>3. ASSUME NEW r \in pending' PROVE OrderShown(r)'
    <3>1. CASE r.type # "test_step_order"
      BY <3>1 DEF OrderShown
    <3>2. CASE r \in pending
      BY <1>1, <2>2, <3>2, OrderKept DEF AllOrders
    <3>. QED BY <2>1, <3>1, <3>2, QueuedRow
  <2>. QED BY <2>3 DEF AllOrders
<1>. QED
  BY <1>2, <1>3

LEMMA AddTestStepOrders ==
    ASSUME Shapes, AllShown, AllOrders, Still, NEW t \in Mine \cup {Blank}, AddTestStep(t)
    PROVE  AllOrders'
<1>. DEFINE n == NextTempStepID
            x == [idx |-> NextIdx, text |-> t]
<1>1. n \in Int /\ n < 0 /\ n \notin DOMAIN steps
  BY CacheIs, NextTempStepIDIs
<1>2. steps' = With(steps, n, x) /\ Queue(pending, "test_step_add", n, "step", Blank, Snapshot(x))
  BY DEF AddTestStep
<1>. HIDE DEF n
<1>3. DOMAIN steps' = DOMAIN steps \cup {n} /\ \A s \in DOMAIN steps : steps'[s] = steps[s]
  BY <1>1, <1>2 DEF With
<1>4. \A r \in pending : ~ Adds(r, n)
  BY <1>1, StillIs DEF AllShown, StepShown, Adds
<1>5. \A p \in pending : p.type = "test_step_add" => \E q \in pending' : Adds(q, p.key)
  BY <1>2, <1>4, QueueKeeps DEF Adds
<1>6. ASSUME NEW r \in pending' PROVE OrderShown(r)'
  <2>1. CASE r.type # "test_step_order"
    BY <2>1 DEF OrderShown
  <2>2. CASE r \in pending /\ r.type = "test_step_order"
    <3>1. \A k \in DOMAIN r.after : r.after[k] # n
      BY <1>1, <1>4, <2>2 DEF AllOrders, OrderShown
    <3>2. OrderShown(r)
      BY <2>2 DEF AllOrders
    <3>. QED BY <1>3, <1>5, <3>1, <3>2, OrderKept
  <2>. QED BY <1>2, <2>1, <2>2, QueuedRow
<1>. QED
  BY <1>6 DEF AllOrders

LEMMA WithoutKeeps ==
    ASSUME NEW s \in Seq(Int), Distinct(s), NEW x, NEW w, w = Without(s, x)
    PROVE  /\ \A i \in DOMAIN w : \E k \in DOMAIN s : s[k] = w[i] /\ w[i] # x
           /\ \A i, j \in DOMAIN w : i < j =>
                 \E k, l \in DOMAIN s : k < l /\ s[k] = w[i] /\ s[l] = w[j]
BY WithoutIs

LEMMA DeleteTestStepOrders ==
    ASSUME Shapes, AllShown, AllOrders, Still, NEW s \in DOMAIN steps, DeleteTestStep(s)
    PROVE  AllOrders'
<1>1. DOMAIN steps' = DOMAIN steps \ {s} /\ \A e \in DOMAIN steps' : steps'[e] = steps[e]
  BY DEF DeleteTestStep, Only
<1>2. CASE AddRow(s) # {}
  <2>1. pending' = Pruned(pending \ AddRow(s), s) /\ Table(pending \ AddRow(s), lastRow, born)
    BY <1>2, TableSubset DEF DeleteTestStep, Shapes
  <2>2. \A q \in pending : q.type = "test_step_add" /\ q.key # s => q \in pending'
    BY <2>1, PrunedIs, AddRowIs DEF Adds
  <2>3. ASSUME NEW r \in pending', r.type = "test_step_order" PROVE OrderShown(r)'
    <3>1. PICK q \in pending \ AddRow(s) : r = PrunedRow(q, s)
      BY <2>1, PrunedIs
    <3>2. q.type = "test_step_order" /\ r.after = Without(q.after, s) /\ q.after \in Seq(Int) /\ Distinct(q.after)
      BY <2>3, <3>1, PrunedRowIs, ShapeIs DEF Shape
    <3>3. /\ \A i \in DOMAIN r.after : \E k \in DOMAIN q.after : q.after[k] = r.after[i] /\ r.after[i] # s
          /\ \A i, j \in DOMAIN r.after : i < j =>
                     \E k, l \in DOMAIN q.after : k < l /\ q.after[k] = r.after[i] /\ q.after[l] = r.after[j]
      BY <3>2, WithoutKeeps
    <3>4. OrderShown(q)
      BY <3>1 DEF AllOrders
    <3>5. ASSUME NEW i \in DOMAIN r.after, r.after[i] < 0 PROVE \E p \in pending' : Adds(p, r.after[i])
      <4>1. PICK k \in DOMAIN q.after : q.after[k] = r.after[i] /\ r.after[i] # s
        BY <3>3
      <4>2. PICK p \in pending : Adds(p, q.after[k])
        BY <3>2, <3>4, <3>5, <4>1 DEF OrderShown
      <4>. QED BY <2>2, <4>1, <4>2 DEF Adds
    <3>6. ASSUME NEW i \in DOMAIN r.after, NEW j \in DOMAIN r.after, i < j,
                 {r.after[i], r.after[j]} \subseteq DOMAIN steps'
          PROVE  steps'[r.after[i]].idx < steps'[r.after[j]].idx
      <4>1. PICK k \in DOMAIN q.after, l \in DOMAIN q.after :
                    k < l /\ q.after[k] = r.after[i] /\ q.after[l] = r.after[j]
        BY <3>3, <3>6
      <4>2. steps[q.after[k]].idx < steps[q.after[l]].idx
        BY <1>1, <3>2, <3>4, <3>6, <4>1 DEF OrderShown
      <4>. QED BY <1>1, <3>6, <4>1, <4>2
    <3>. QED BY <3>5, <3>6 DEF OrderShown
  <2>. QED BY <2>3 DEF AllOrders, OrderShown
<1>3. CASE AddRow(s) = {}
  <2>. DEFINE j == {r \in pending : r.type # "test_step" \/ r.key # s}
  <2>1. Queue(j, "test_step_delete", s, "step", Snapshot(steps[s]), Blank) /\ j \subseteq pending
    BY <1>3 DEF DeleteTestStep
  <2>2. \A r \in pending : r.type = "test_step_add" => \E q \in pending' : Adds(q, r.key)
    BY <2>1, QueueKeeps DEF Adds
  <2>3. ASSUME NEW r \in pending', r.type = "test_step_order" PROVE OrderShown(r)'
    <3>1. r \in j
      <4>. HIDE DEF j
      <4>. QED BY <2>1, <2>3, QueuedRow
    <3>. QED BY <1>1, <2>2, <3>1, OrderKept DEF AllOrders
  <2>. QED BY <2>3 DEF AllOrders, OrderShown
<1>. QED
  BY <1>2, <1>3

LEMMA ReorderTestStepsOrders ==
    ASSUME Shapes, AllShown, Still, NEW i \in 1..Cardinality(DOMAIN steps), ReorderTestSteps(i)
    PROVE  AllOrders'
<1>1. PICK current \in Listed : /\ steps' = StepsInOrder(Swapped(current, i))
                                /\ Queue(pending, "test_step_order", TestKey, "order", current, Swapped(current, i))
                                /\ i < Cardinality(DOMAIN steps)
  BY DEF ReorderTestSteps, Swapped
<1>. DEFINE new == Swapped(current, i)
<1>2. new \in Seq(Int) /\ Distinct(new) /\ \A k \in DOMAIN new : new[k] \in DOMAIN steps
  BY <1>1, SwappedIs
<1>3. DOMAIN steps' = DOMAIN steps /\ \A k \in DOMAIN new : steps'[new[k]].idx = k
  <2>. HIDE DEF new
  <2>1. steps' = StepsInOrder(new)
    BY <1>1 DEF new
  <2>. QED BY <1>2, <2>1, StepsInOrderIs
<1>4. \A k \in DOMAIN new : new[k] < 0 => \E p \in pending' : Adds(p, new[k])
  <2>1. \A r \in pending : r.type = "test_step_add" => r \in pending'
    BY <1>1, QueueKeeps
  <2>. QED BY <1>2, <2>1 DEF AllShown, Placeholders, Adds
<1>5. ASSUME NEW r \in pending', r.type = "test_step_order" PROVE r.after = new
  <2>1. CASE r \in pending
    <3>1. r.key = TestKey /\ r.field = "order"
      BY <1>5, <2>1, ShapeIs DEF Shape
    <3>. QED BY <1>1, <1>5, <3>1, QueuedRow
  <2>. QED BY <1>1, <2>1, QueuedRow
<1>. HIDE DEF new
<1>6. DOMAIN new \subseteq Nat
  BY <1>2
<1>. QED
  BY <1>3, <1>4, <1>5, <1>6 DEF AllOrders, OrderShown

LEMMA NothingTaken ==
    ASSUME Shapes, ResolveConflict({})
    PROVE  DOMAIN steps' = DOMAIN steps /\ \A s \in DOMAIN steps : steps'[s].idx = steps[s].idx
<1>1. Taken({}) = {}
  BY DEF Taken
<1>2. Undone({}) = {} /\ TakenOrder({}) = {}
  BY <1>1 DEF Undone, TakenOrder
<1>3. DOMAIN steps' = DOMAIN steps
  BY <1>2, ResolvedSteps
<1>. QED
  BY <1>2, <1>3, ResolvedSteps

LEMMA CreateStepOrders ==
    ASSUME Shapes, AllOrders, NEW x \in left, CreateStep(x), "fault" \notin met'
    PROVE  AllOrders'
<1>1. pc = "adds" /\ pending' = pending /\ RenameTestStepID(x.key, born + 1)
  BY CreatesIs
<1>2. x.key < 0 /\ x.key \in Int
  BY <1>1, LeftIs, ShapeIs DEF Shape
<1>3. /\ born + 1 \notin DOMAIN steps /\ born \in Nat
      /\ x.key \notin DOMAIN steps => steps' = steps
      /\ x.key \in DOMAIN steps => DOMAIN steps' = (DOMAIN steps \ {x.key}) \cup {born + 1}
      /\ \A s \in DOMAIN steps : s # x.key => s \in DOMAIN steps' /\ steps'[s] = steps[s]
  BY <1>1, <1>2, RenamedIs DEF Shapes
<1>4. ASSUME NEW r \in pending, r.type = "test_step_order" PROVE OrderShown(r)'
  <2>1. \A k \in DOMAIN r.after : r.after[k] # born + 1
    BY <1>3, <1>4, ShapeIs DEF Names, Known
  <2>2. OrderShown(r)
    BY DEF AllOrders
  <2>. QED BY <1>1, <1>3, <2>1, <2>2, OrderKept DEF Adds
<1>. QED
  BY <1>1, <1>4 DEF AllOrders, OrderShown

LEMMA NextOrdersShown ==
    Shapes /\ RowsPend /\ StepsShown /\ OrdersShown /\ [Next]_vars => OrdersShown'
<1>. SUFFICES ASSUME Shapes, RowsPend, StepsShown, OrdersShown, [Next]_vars,
                     Calmly', NotMet({"theirs", "selected", "discard"})'
              PROVE  AllSent' /\ AllOrders'
  BY DEF OrdersShown, AllOrders
<1>0. /\ met \subseteq met' => AllShown /\ AllOrders /\ AllSent
      /\ met \subseteq met' /\ pc \notin {"idle", "rebase"} => \A q \in rows : \E p \in pending : Same(p, q)
      /\ met' \cap {"onscreen", "refresh", "fault", "refused", "meanwhile"} = {}
      /\ met' \cap {"theirs", "selected", "discard"} = {}
  BY DEF StepsShown, AllShown, OrdersShown, AllOrders, Calmly, NotMet, RowsPend
<1>1. ASSUME UNCHANGED <<pending, steps>>, AllOrders PROVE AllOrders'
  BY <1>1 DEF AllOrders, OrderShown
<1>2. ASSUME UNCHANGED <<pending, rows, pc>>, AllSent PROVE AllSent'
  BY <1>2 DEF AllSent
<1>3. CASE UNCHANGED vars
  BY <1>0, <1>1, <1>2, <1>3 DEF vars, local, commit
<1>4. ASSUME NEW texts, Edit(texts) PROVE AllShown /\ AllOrders /\ Still /\ AllSent'
  BY <1>0, <1>4, EditIs DEF Still, AllSent
<1>5. ASSUME NEW f \in Fields, NEW v \in Mine, EditTestField(f, v) PROVE AllSent' /\ AllOrders'
  BY <1>4, <1>5, EditsAre, EditTestFieldOrders
<1>6. ASSUME NEW s \in DOMAIN steps, NEW v \in Mine, EditTestStepField(s, v) PROVE AllSent' /\ AllOrders'
  BY <1>4, <1>6, EditsAre, EditTestStepFieldOrders
<1>7. ASSUME NEW t \in Mine \cup {Blank}, AddTestStep(t) PROVE AllSent' /\ AllOrders'
  BY <1>4, <1>7, EditsAre, AddTestStepOrders
<1>8. ASSUME NEW s \in DOMAIN steps, DeleteTestStep(s) PROVE AllSent' /\ AllOrders'
  BY <1>4, <1>8, EditsAre, DeleteTestStepOrders
<1>9. ASSUME NEW i \in 1..Cardinality(DOMAIN steps), ReorderTestSteps(i) PROVE AllSent' /\ AllOrders'
  BY <1>4, <1>9, EditsAre, ReorderTestStepsOrders
<1>10. ASSUME NEW d \in pending, DiscardPendingChange(d) PROVE AllSent' /\ AllOrders'
  BY <1>0, <1>10, DiscardIs
<1>11. CASE RefreshSteps
  <2>1. \A r \in pending' : r.type = "test_case"
    BY <1>0, <1>11, RefreshIs DEF IsStepRow
  <2>2. AllSent'
    BY <1>0, <1>2, <1>11, RefreshIs
  <2>. QED BY <2>1, <2>2 DEF AllOrders, OrderShown
<1>12. CASE SyncTest \/ RemoteEdit
  BY <1>0, <1>1, <1>2, <1>12, SyncIs, RemoteEditIs
<1>13. ASSUME NEW theirs, ResolveConflict(theirs) PROVE AllSent' /\ AllOrders'
  <2>1. theirs = {} /\ AllOrders /\ pc' = "idle"
    BY <1>0, <1>13, ResolveMet, ResolveIs
  <2>2. DOMAIN steps' = DOMAIN steps /\ \A s \in DOMAIN steps : steps'[s].idx = steps[s].idx
    BY <1>13, <2>1, NothingTaken
  <2>3. ASSUME NEW p \in pending, p.type = "test_step_add" PROVE \E q \in pending' : Adds(q, p.key)
    BY <1>13, <2>1, <2>3, ResolvedRows DEF Same, Adds
  <2>4. ASSUME NEW r \in pending' PROVE OrderShown(r)'
    <3>1. PICK q \in pending : Same(q, r)
      BY <1>13, ResolvedRows
    <3>2. OrderShown(r)
      BY <2>1, <3>1, SameOrder DEF AllOrders
    <3>. QED BY <2>2, <2>3, <3>2, OrderKept
  <2>. QED BY <2>1, <2>4 DEF AllSent, AllOrders
<1>14. ASSUME NEW selected \in SUBSET pending, CommitChanges(selected) PROVE AllSent' /\ AllOrders'
  <2>1. UNCHANGED <<pending, steps>> /\ rows' = pending /\ AllOrders
    BY <1>0, <1>14, CommitChangesIs
  <2>. QED BY <1>1, <2>1 DEF AllSent
<1>15. CASE DetectConflicts
  <2>1. /\ pc = "scan" /\ met \subseteq met' /\ steps' = steps /\ pc' \in {"idle", "fields"}
        /\ pc' # "idle" => rows' = Rest
        /\ pending' = Open \/ pending' = Rebased(Open, version)
    BY <1>15, DetectIs, LeaveIs
  <2>2. Table(Open, lastRow, born) /\ version \in Nat /\ Open \subseteq pending
    BY TableSubset, DeleteIs DEF Open, Shapes
  <2>3. /\ \A r \in pending' : \E p \in Open : Same(p, r)
        /\ \A p \in Open : \E r \in pending' : Same(p, r)
    <3>1. CASE pending' = Open
      BY <3>1 DEF Same
    <3>2. CASE pending' = Rebased(Open, version)
      BY <2>2, <3>2, RebasedSame
    <3>. QED BY <2>1, <3>1, <3>2
  <2>4. AllSent'
    <3>. SUFFICES ASSUME pc' # "idle", NEW r \in pending' PROVE \E q \in Rest : q.id = r.id
      BY <2>1 DEF AllSent
    <3>1. PICK p \in Open : Same(p, r)
      BY <2>3
    <3>2. PICK q \in rows : q.id = p.id
      BY <1>0, <2>1, <2>2, <3>1 DEF AllSent
    <3>3. q \notin There
      BY <3>1, <3>2 DEF Open, Delete
    <3>. QED BY <3>1, <3>2, <3>3 DEF Rest, Same
  <2>5. ASSUME NEW p \in pending, p.type = "test_step_add" PROVE \E q \in pending' : Adds(q, p.key)
    <3>1. p \in Open
      BY <1>0, <2>1, <2>5, AddsStayOpen
    <3>. QED BY <2>3, <2>5, <3>1 DEF Same, Adds
  <2>6. ASSUME NEW r \in pending' PROVE OrderShown(r)'
    <3>1. OrderShown(r)
      BY <1>0, <2>1, <2>2, <2>3, SameOrder DEF AllOrders
    <3>. QED BY <2>1, <2>5, <3>1, OrderKept
  <2>. QED BY <2>4, <2>6 DEF AllOrders
<1>16. CASE Sends
  <2>1. UNCHANGED <<pending, steps, rows, met>> /\ pc # "idle"
    BY <1>16, SendsIs
  <2>. QED BY <1>0, <1>1, <2>1 DEF AllSent
<1>17. ASSUME NEW x \in left, CreateStep(x) PROVE AllSent' /\ AllOrders'
  <2>1. pc = "adds" /\ UNCHANGED <<pending, pc, rows>> /\ met \subseteq met' /\ "fault" \notin met'
    BY <1>0, <1>17, CreatesIs
  <2>. QED BY <1>0, <1>2, <1>17, <2>1, CreateStepOrders
<1>18. CASE RefusedEnds \/ Fault
  BY <1>0, <1>18, EndsAre
<1>19. CASE ClearRows
  <2>1. pending' = {}
    BY <1>0, <1>19, EndsAre DEF AllSent, Delete
  <2>. QED BY <2>1 DEF AllSent, AllOrders
<1>20. CASE RebaseRest
  <2>1. pc' = "idle" /\ steps' = steps /\ pending' = Rebased(pending, jira.ver) /\ AllOrders
    BY <1>0, <1>20, EndsAre
  <2>2. Table(pending, lastRow, born) /\ jira.ver \in Nat
    BY JiraIs DEF Shapes
  <2>3. /\ \A r \in pending' : \E p \in pending : Same(p, r)
        /\ \A p \in pending : \E r \in pending' : Same(p, r)
    BY <2>1, <2>2, RebasedSame
  <2>4. ASSUME NEW r \in pending' PROVE OrderShown(r)'
    <3>1. OrderShown(r)
      BY <2>1, <2>3, SameOrder DEF AllOrders
    <3>2. \A p \in pending : p.type = "test_step_add" => \E q \in pending' : Adds(q, p.key)
      BY <2>3 DEF Same, Adds
    <3>. QED BY <2>1, <3>1, <3>2, OrderKept
  <2>. QED BY <2>1, <2>4 DEF AllSent, AllOrders
<1>. QED
  BY <1>3, <1>5, <1>6, <1>7, <1>8, <1>9, <1>10, <1>11, <1>12, <1>13, <1>14, <1>15, <1>16, <1>17, <1>18, <1>19, <1>20,
     NextIs DEF Sends

LEMMA InitShown == Init => Shown
<1>. SUFFICES ASSUME Init PROVE Shown
  OBVIOUS
<1>1. pending = {} /\ conflict = None /\ pc = "idle" /\ DOMAIN steps = 1..StartSteps
  BY DEF Init
<1>2. \A s \in DOMAIN steps : s \in Int /\ s > 0
  BY <1>1
<1>3. RowsPend /\ HeldPends /\ FieldsShown
  BY <1>1 DEF RowsPend, HeldPends, FieldsShown
<1>4. StepsShown /\ OrdersShown
  BY <1>1, <1>2 DEF StepsShown, OrdersShown, Placeholders, AllSent
<1>. QED
  BY <1>3, <1>4 DEF Shown

LEMMA ShownPending == Shapes /\ Shown => PendingIsShown
<1>. SUFFICES ASSUME Shapes, Shown, pc = "idle", NotMet({"onscreen"}), NEW r \in pending
              PROVE  IF ~IsStepRow(r) THEN test.field[r.field] = r.after
        ELSE NotMet({"refresh", "fault", "refused", "meanwhile"}) =>
            CASE r.type = "test_step"        -> r.key \in DOMAIN steps /\ steps[r.key].text = r.after
              [] r.type = "test_step_delete" -> r.key \notin DOMAIN steps
              [] r.type = "test_step_add"    -> r.key \in DOMAIN steps /\ steps[r.key].text = r.after[2]
              [] r.type = "test_step_order"  -> NotMet({"theirs", "selected", "discard"}) =>
                    \A k, l \in DOMAIN r.after : k < l /\ {r.after[k], r.after[l]} \subseteq DOMAIN steps =>
                        steps[r.after[k]].idx < steps[r.after[l]].idx
  BY DEF PendingIsShown
<1>1. CASE ~ IsStepRow(r)
  BY <1>1 DEF Shown, FieldsShown
<1>2. CASE IsStepRow(r) /\ NotMet({"refresh", "fault", "refused", "meanwhile"})
  <2>1. Calmly
    BY <1>2 DEF Calmly, NotMet
  <2>2. StepShown(r) /\ ~ Pushed(r)
    BY <2>1 DEF Shown, StepsShown, Pushed
  <2>3. NotMet({"theirs", "selected", "discard"}) => OrderShown(r)
    BY <2>1 DEF Shown, OrdersShown
  <2>4. r.type \in {"test_step", "test_step_delete", "test_step_add", "test_step_order"}
    BY <1>2, ShapeIs, RowIs DEF IsStepRow, Types
  <2>5. CASE r.type = "test_step"
    BY <1>2, <2>2, <2>5 DEF StepShown
  <2>6. CASE r.type = "test_step_delete"
    BY <1>2, <2>2, <2>6 DEF StepShown
  <2>7. CASE r.type = "test_step_add"
    BY <1>2, <2>2, <2>7 DEF StepShown
  <2>8. CASE r.type = "test_step_order"
    BY <1>2, <2>3, <2>8 DEF OrderShown
  <2>. QED BY <2>4, <2>5, <2>6, <2>7, <2>8
<1>. QED
  BY <1>1, <1>2

\* What pends is what the user sees, field by field and step by step, and a
\* queued order is that of the cache, in behaviours that have not met what
\* PendingIsShown exempts, which is least for the fields.
THEOREM PendingShown == Spec => []PendingIsShown
<1>1. Shapes /\ Shown /\ [Next]_vars => Shapes' /\ Shown'
  BY NextShapes, NextRowsPend, NextHeldPends, NextFieldsShown, NextStepsShown, NextOrdersShown DEF Shown
<1>. QED
  BY <1>1, InitShapes, InitShown, ShownPending, PTL DEF Spec

-----------------------------------------------------------------------------
\* Nothing unseen is replaced.  Versions grow, and what was made on the one
\* Jira has now was made on what Jira holds now.
Versions ==
    /\ test.ver <= jira.ver /\ version <= jira.ver
    /\ \A r \in pending \cup rows : r.base <= jira.ver
    /\ conflict # None => conflict.ver <= jira.ver
    /\ pc = "scan" /\ NotMet({"race"}) => version = jira.ver

SelectedIs == only \/ pc = "rebase" => "selected" \in met
PassHasAll == NotMet({"selected", "meanwhile"}) => AllSent

FieldsLive == \A f \in Fields : jira.field[f] # Deleted
Changing == \A r \in pending : r.type = "test_step" => r.before # r.after

Plain == NotMet({"race", "selected", "meanwhile", "onscreen"})
Fits(r) == NotMet(IF IsStepRow(r) THEN {"sync", "discard", "refresh"} ELSE {"undone"})

\* A row made on the version Jira has is made on the text Jira has.
RowsHonest == Plain =>
    \A r \in pending \cup (IF pc = "check" THEN rows ELSE {}) : Fits(r) /\ r.base = jira.ver => Accounted(r)

\* So is the cache: of the fields no row is about,
Kept(type, key, field, value) == [type |-> type, key |-> key, field |-> field, value |-> value] \in kept
CacheHonest == Plain /\ NotMet({"undone"}) /\ test.ver = jira.ver =>
    \A f \in Fields : RowsAt(pending, "test_case", TestKey, f) = {} =>
        test.field[f] = jira.field[f] \/ Kept("test_case", TestKey, f, jira.field[f])

\* and of the steps, as long as nothing but Commits wrote to Jira, or nothing
\* did since the cache was synced.
Own == NotMet({"outside", "fault", "refused"})
Here(s) == s \in IdsOf(jira.steps)
JiraText(s) == jira.steps[At(jira.steps, s)].text
SentEdit(p) == \E q \in rows :
    /\ q.id = p.id /\ q.type = "test_step"
    /\ pc \in {"adds", "moves", "clear"} \/ (pc = "edits" /\ q \notin left)
SentField(q) == q.type = "test_case" /\
    (pc \in {"deletes", "edits", "adds", "moves", "clear"} \/ (pc = "status" /\ q.field # "status"))
SentWritten == (\E q \in rows : SentEdit(q) \/ SentField(q)) => test.ver < jira.ver
About(p, s) == p.type = "test_step" /\ p.key = s
TextsHonest == \A s \in DOMAIN steps : Here(s) /\ (\A p \in pending : ~ About(p, s)) => steps[s].text = JiraText(s)
EditsHonest == \A p \in pending : p.type = "test_step" /\ Here(p.key) =>
    JiraText(p.key) = IF SentEdit(p) THEN p.after ELSE p.before
DeletesHonest == \A p \in pending : p.type = "test_step_delete" /\ Here(p.key) =>
    JiraText(p.key) = p.before[2] \/ Kept(p.type, p.key, p.field, JiraText(p.key))
HeldHonest == conflict # None => \A c \in conflict.held : Here(c.row.key) =>
    c.row.type # "test_step" /\ (c.row.type = "test_step_delete" => c.remote[2] = JiraText(c.row.key))
StepPlain == Plain /\ NotMet({"sync", "discard", "refresh"})
StepsHonest == StepPlain /\ (Own \/ test.ver = jira.ver) =>
    TextsHonest /\ EditsHonest /\ DeletesHonest /\ HeldHonest
ContentCached == NotMet({"refresh", "meanwhile"}) /\ pc = "moves" =>
    content = [s \in DOMAIN steps |-> steps[s].text]

\* A conflict that shows what Jira has shows every row that would replace
\* something unseen.
ConflictNow == Plain /\ conflict # None /\ conflict.ver = jira.ver =>
    /\ \A c \in conflict.held : c.remote = Remote(c.row)
    /\ \A r \in pending : Accounted(r) \/ \E c \in conflict.held : c.row = r

\* What a pass has still to send.
ToSend(r) ==
    \/ r.type = "test_case" /\ (pc = "fields" \/ (pc = "status" /\ r.field = "status"))
    \/ r.type = "test_step_delete" /\ (pc \in {"fields", "status"} \/ (pc = "deletes" /\ r \in left))
    \/ r.type = "test_step" /\ (pc \in {"fields", "status", "deletes"} \/ (pc = "edits" /\ r \in left))
SendsSeen == Plain => \A r \in rows : ToSend(r) /\ Fits(r) => Accounted(r)

\* The rows an edit leaves: those there were, some asking for something else,
\* and one of its own.
From(q, r) ==
    /\ q.id = r.id /\ q.type = r.type /\ q.key = r.key /\ q.field = r.field /\ q.base = r.base
    /\ r.type # "test_step_order" => q.before = r.before
New(r, type, key) == r.type = type /\ r.key = key /\ r.base = test.ver /\ r.id = lastRow + 1

LEMMA QueueFrom ==
    ASSUME Shapes, NEW j, NEW type, NEW key, NEW field, NEW current, NEW value,
           Queue(j, type, key, field, current, value), j \subseteq pending, NEW r \in pending'
    PROVE  \/ \E q \in j : From(q, r) /\ (q.type = type /\ q.key = key /\ q.field = field =>
                                              r.after = value /\ (type # "test_step_order" => q.before # value))
                                      /\ (~ (q.type = type /\ q.key = key /\ q.field = field) => r = q)
           \/ New(r, type, key) /\ r.field = field /\ r.before = current /\ r.after = value
              /\ RowsAt(j, type, key, field) = {}
<1>1. r \in Upsert(j, lastRow + 1, type, key, field, current, value, test.ver)
  BY DEF Queue
<1>2. j \in SUBSET PendingChange(Types, Int, Fields \cup {"action", "step", "order"}, Values)
  BY TableSubset, TableRows DEF Shapes
<1>3. \/ r \in j /\ ~ (r.type = type /\ r.key = key /\ r.field = field)
      \/ /\ r.type = type /\ r.key = key /\ r.field = field /\ r.after = value
         /\ \/ RowsAt(j, type, key, field) = {} /\ r.before = current /\ r.base = test.ver /\ r.id = lastRow + 1
            \/ \E s \in RowsAt(j, type, key, field) :
                  /\ r.id = s.id /\ r.before = s.before /\ r.base = s.base
                  /\ s.before # value
  BY <1>1, <1>2, UpsertRows
<1>4. CASE r \in j /\ ~ (r.type = type /\ r.key = key /\ r.field = field)
  BY <1>4 DEF From
<1>5. CASE /\ r.type = type /\ r.key = key /\ r.field = field /\ r.after = value
           /\ RowsAt(j, type, key, field) = {} /\ r.before = current /\ r.base = test.ver /\ r.id = lastRow + 1
  BY <1>5 DEF New
<1>6. ASSUME r.type = type /\ r.key = key /\ r.field = field /\ r.after = value,
             NEW s \in RowsAt(j, type, key, field),
             r.id = s.id /\ r.before = s.before /\ r.base = s.base /\ s.before # value
      PROVE  \E q \in j : From(q, r) /\ (q.type = type /\ q.key = key /\ q.field = field =>
                                              r.after = value /\ (type # "test_step_order" => q.before # value))
                                      /\ (~ (q.type = type /\ q.key = key /\ q.field = field) => r = q)
  <2>1. s \in j /\ s.type = type /\ s.key = key /\ s.field = field
    BY DEF RowsAt
  <2>. QED BY <1>6, <2>1 DEF From
<1>. QED
  BY <1>3, <1>4, <1>5, <1>6

LEMMA FoldFrom ==
    ASSUME Shapes, NEW s, NEW v \in Mine, pending' = Folded(pending, s, v), NEW r \in pending'
    PROVE  \E q \in pending : From(q, r) /\ (q.type # "test_step_add" => r = q)
<1>1. PICK q \in pending : r = FoldedRow(q, pending, s, v)
  BY DEF Folded
<1>2. From(q, r)
  BY <1>1, FoldedRowIs DEF Shapes, From
<1>3. ASSUME q.type # "test_step_add" PROVE r = q
  BY <1>1, <1>3, AtPlace DEF FoldedRow
<1>. QED
  BY <1>2, <1>3

LEMMA PruneFrom ==
    ASSUME Shapes, NEW j, j \subseteq pending, NEW s, pending' = Pruned(j, s), NEW r \in pending'
    PROVE  \E q \in j : From(q, r) /\ (q.type # "test_step_order" => r = q)
<1>1. Table(j, lastRow, born)
  BY TableSubset DEF Shapes
<1>2. PICK q \in j : r = PrunedRow(q, s)
  BY <1>1, PrunedIs
<1>3. From(q, r) /\ (q.type # "test_step_order" => r = q)
  BY <1>2, PrunedRowIs, ShapeIs DEF From
<1>. QED
  BY <1>3

LEMMA EditTestFieldIs ==
    ASSUME NEW f \in Fields, NEW v \in Mine, EditTestField(f, v)
    PROVE  /\ Edit({}) /\ steps' = steps /\ test' = [test EXCEPT !.field[f] = v]
           /\ Queue(pending, "test_case", TestKey, f, test.field[f], v)
BY DEF EditTestField, Edit, UserActs

LEMMA EditTestStepFieldIs ==
    ASSUME Shapes, NEW s \in DOMAIN steps, NEW v \in Mine, EditTestStepField(s, v)
    PROVE  /\ Edit({}) /\ test' = test /\ DOMAIN steps' = DOMAIN steps /\ steps[s].text # v
           /\ \A e \in DOMAIN steps : steps'[e].text = (IF e = s THEN v ELSE steps[e].text) /\ steps'[e].idx = steps[e].idx
           /\ \/ AddRow(s) # {} /\ pending' = Folded(pending, s, v)
              \/ AddRow(s) = {} /\ Queue(pending, "test_step", s, "action", steps[s].text, v)
<1>1. Edit({}) /\ test' = test /\ steps[s].text # v /\ steps' = [steps EXCEPT ![s].text = v]
  BY DEF EditTestStepField, Edit, UserActs
<1>2. DOMAIN steps' = DOMAIN steps /\ \A e \in DOMAIN steps :
          steps'[e].text = (IF e = s THEN v ELSE steps[e].text) /\ steps'[e].idx = steps[e].idx
  BY <1>1, CacheIs
<1>3. \/ AddRow(s) # {} /\ pending' = Folded(pending, s, v)
      \/ AddRow(s) = {} /\ Queue(pending, "test_step", s, "action", steps[s].text, v)
  BY DEF EditTestStepField, Folded, FoldedRow, AddRow
<1>. QED
  BY <1>1, <1>2, <1>3

LEMMA AddTestStepIs ==
    ASSUME Shapes, NEW t \in Mine \cup {Blank}, AddTestStep(t)
    PROVE  /\ Edit({}) /\ test' = test
           /\ NextTempStepID \in Int /\ NextTempStepID < 0 /\ NextTempStepID \notin DOMAIN steps
           /\ DOMAIN steps' = DOMAIN steps \cup {NextTempStepID}
           /\ steps'[NextTempStepID] = [idx |-> NextIdx, text |-> t]
           /\ \A s \in DOMAIN steps : steps'[s] = steps[s]
           /\ Queue(pending, "test_step_add", NextTempStepID, "step", Blank, <<NextIdx, t>>)
<1>. DEFINE n == NextTempStepID
            x == [idx |-> NextIdx, text |-> t]
<1>1. n \in Int /\ n < 0 /\ n \notin DOMAIN steps
  BY CacheIs, NextTempStepIDIs
<1>2. steps' = With(steps, n, x) /\ Queue(pending, "test_step_add", n, "step", Blank, Snapshot(x))
      /\ Edit({}) /\ test' = test
  BY DEF AddTestStep, Edit, UserActs
<1>3. Snapshot(x) = <<NextIdx, t>>
  BY DEF Snapshot
<1>. HIDE DEF n
<1>4. DOMAIN steps' = DOMAIN steps \cup {n} /\ steps'[n] = x /\ \A s \in DOMAIN steps : steps'[s] = steps[s]
  BY <1>1, <1>2 DEF With
<1>. QED
  BY <1>1, <1>2, <1>3, <1>4 DEF n

LEMMA DeleteTestStepIs ==
    ASSUME Shapes, NEW s \in DOMAIN steps, DeleteTestStep(s)
    PROVE  /\ Edit({[type |-> "test_step_delete", key |-> s, field |-> "step", value |-> r.before] :
                       r \in RowsAt(pending, "test_step", s, "action")})
           /\ test' = test /\ DOMAIN steps' = DOMAIN steps \ {s} /\ \A e \in DOMAIN steps' : steps'[e] = steps[e]
           /\ \/ AddRow(s) # {} /\ pending' = Pruned(pending \ AddRow(s), s)
              \/ /\ AddRow(s) = {}
                 /\ Queue({r \in pending : r.type # "test_step" \/ r.key # s},
                          "test_step_delete", s, "step", <<steps[s].idx, steps[s].text>>, Blank)
BY DEF DeleteTestStep, Edit, Only, Snapshot

LEMMA ReorderTestStepsIs ==
    ASSUME Shapes, NEW i \in 1..Cardinality(DOMAIN steps), ReorderTestSteps(i)
    PROVE  /\ Edit({}) /\ test' = test /\ DOMAIN steps' = DOMAIN steps
           /\ \A s \in DOMAIN steps : steps'[s].text = steps[s].text
           /\ \E x, y : Queue(pending, "test_step_order", TestKey, "order", x, y)
<1>1. PICK current \in Listed : /\ steps' = StepsInOrder(Swapped(current, i))
                                /\ Queue(pending, "test_step_order", TestKey, "order", current, Swapped(current, i))
                                /\ i < Cardinality(DOMAIN steps)
  BY DEF ReorderTestSteps, Swapped
<1>2. Swapped(current, i) \in Seq(Int)
  BY <1>1, SwappedIs
<1>3. DOMAIN steps' = DOMAIN steps /\ \A s \in DOMAIN steps : steps'[s].text = steps[s].text
  BY <1>1, <1>2, StepsInOrderIs
<1>. QED
  BY <1>1, <1>3 DEF ReorderTestSteps, Edit, UserActs

\* One step of any kind: history grows, and Jira changes by whole versions.
EditStep ==
    \/ \E f \in Fields, v \in Mine : EditTestField(f, v)
    \/ \E s \in DOMAIN steps, v \in Mine : EditTestStepField(s, v)
    \/ \E t \in Mine \cup {Blank} : AddTestStep(t)
    \/ \E s \in DOMAIN steps : DeleteTestStep(s)
    \/ \E i \in 1..Cardinality(DOMAIN steps) : ReorderTestSteps(i)

LEMMA Cases ==
    ASSUME Next
    PROVE  \/ EditStep \/ \E r \in pending : DiscardPendingChange(r)
           \/ RefreshSteps \/ SyncTest \/ \E theirs : ResolveConflict(theirs)
           \/ RemoteEdit \/ Sends \/ DetectConflicts \/ \E r \in left : CreateStep(r)
           \/ ClearRows \/ RebaseRest \/ RefusedEnds \/ Fault
           \/ \E selected \in SUBSET pending : CommitChanges(selected)
BY NextIs DEF EditStep, Sends

LEMMA EditStepIs ==
    ASSUME Shapes, EditStep
    PROVE  \E texts : Edit(texts)
BY EditsAre DEF EditStep

LEMMA NextMet ==
    ASSUME Shapes, [Next]_vars
    PROVE  met \subseteq met'
<1>1. CASE UNCHANGED vars
  BY <1>1 DEF vars
<1>2. CASE EditStep
  BY <1>2, EditStepIs, EditIs
<1>3. CASE DetectConflicts
  BY <1>3, DetectIs
<1>. QED
  BY <1>1, <1>2, <1>3, Cases, DiscardIs, RefreshIs, SyncIs, ResolveMet, RemoteEditIs, SendsIs, CreatesIs, EndsAre,
     CommitChangesIs

Writes(s) == \E field : Write(field, s)
LEMMA SendsWrite ==
    ASSUME Sends
    PROVE  jira' = jira \/ \E s : Writes(s)
<1>. USE DEF Writes, LandFields, LandStatus, LandDelete, LandEdit, LandMove
<1>1. CASE UpdateIssue
  BY <1>1 DEF UpdateIssue
<1>2. CASE ApplyTransition
  BY <1>2 DEF ApplyTransition
<1>3. CASE MoveTestStep
  BY <1>3 DEF MoveTestStep
<1>4. ASSUME NEW r, RemoteDeleteStep(r) \/ UpdateTestStep(r) PROVE \E s : Writes(s)
  BY <1>4 DEF RemoteDeleteStep, UpdateTestStep
<1>5. CASE PhaseDone \/ ReadOrder \/ MovesDone \/ RemoteVersion
  BY <1>5 DEF PhaseDone, ReadOrder, MovesDone, RemoteVersion
<1>. QED
  BY <1>1, <1>2, <1>3, <1>4, <1>5 DEF Sends

LEMMA LandLostWrites ==
    ASSUME LandLost
    PROVE  \E s : Writes(s)
BY DEF LandLost, Writes, LandFields, LandStatus, LandDelete, LandEdit, LandAdd, LandMove

LEMMA NextJira ==
    ASSUME Shapes, [Next]_vars
    PROVE  /\ jira.ver \in Nat /\ jira'.ver \in Nat /\ (jira' = jira \/ jira'.ver = jira.ver + 1)
           /\ jira'.ver >= jira.ver
<1>. SUFFICES jira' = jira \/ jira'.ver = jira.ver + 1
  BY JiraIs
<1>1. ASSUME NEW s, Writes(s) PROVE jira'.ver = jira.ver + 1
  BY <1>1 DEF Writes, Write
<1>2. CASE UNCHANGED vars
  BY <1>2 DEF vars
<1>3. CASE EditStep
  BY <1>3, EditStepIs, EditIs
<1>4. CASE DetectConflicts
  BY <1>4, DetectIs
<1>5. CASE RemoteEdit
  BY <1>1, <1>5 DEF RemoteEdit, Writes
<1>6. CASE Sends
  BY <1>1, <1>6, SendsWrite
<1>7. ASSUME NEW r \in left, CreateStep(r) PROVE jira'.ver = jira.ver + 1
  BY <1>1, <1>7 DEF CreateStep, LandAdd, Writes
<1>8. CASE Fault
  BY <1>1, <1>8, LandLostWrites DEF Fault
<1>9. CASE RefreshSteps \/ SyncTest \/ ClearRows \/ RebaseRest \/ RefusedEnds
  BY <1>9, RefreshIs, SyncIs, EndsAre
<1>10. ASSUME NEW r, DiscardPendingChange(r) PROVE jira' = jira
  BY <1>10, DiscardIs
<1>11. ASSUME NEW theirs, ResolveConflict(theirs) PROVE jira' = jira
  BY <1>11, ResolveIs
<1>12. ASSUME NEW selected \in SUBSET pending, CommitChanges(selected) PROVE jira' = jira
  BY <1>12, CommitChangesIs
<1>. QED
  BY <1>2, <1>3, <1>4, <1>5, <1>6, <1>7, <1>8, <1>9, <1>10, <1>11, <1>12, Cases

LEMMA EditRows ==
    ASSUME Shapes, EditStep
    PROVE  /\ test'.ver = test.ver
           /\ \A r \in pending' : (\E q \in pending : From(q, r)) \/ (r.id = lastRow + 1 /\ r.base = test.ver)
<1>. DEFINE Good == \A r \in pending' : (\E q \in pending : From(q, r)) \/ (r.id = lastRow + 1 /\ r.base = test.ver)
<1>1. ASSUME NEW j, NEW type, NEW key, NEW field, NEW current, NEW value,
             Queue(j, type, key, field, current, value), j \subseteq pending
      PROVE  Good
  BY <1>1, QueueFrom DEF New
<1>2. ASSUME NEW f \in Fields, NEW v \in Mine, EditTestField(f, v) PROVE test'.ver = test.ver /\ Good
  BY <1>1, <1>2, EditTestFieldIs, CacheIs
<1>3. ASSUME NEW s \in DOMAIN steps, NEW v \in Mine, EditTestStepField(s, v) PROVE test'.ver = test.ver /\ Good
  <2>1. test' = test
    BY <1>3, EditTestStepFieldIs
  <2>2. CASE pending' = Folded(pending, s, v)
    BY <2>1, <2>2, FoldFrom
  <2>3. CASE Queue(pending, "test_step", s, "action", steps[s].text, v)
    BY <1>1, <2>1, <2>3
  <2>. QED BY <1>3, <2>2, <2>3, EditTestStepFieldIs
<1>4. ASSUME NEW t \in Mine \cup {Blank}, AddTestStep(t) PROVE test'.ver = test.ver /\ Good
  BY <1>1, <1>4, AddTestStepIs
<1>5. ASSUME NEW s \in DOMAIN steps, DeleteTestStep(s) PROVE test'.ver = test.ver /\ Good
  <2>1. test' = test
    BY <1>5, DeleteTestStepIs
  <2>2. CASE pending' = Pruned(pending \ AddRow(s), s)
    BY <2>1, <2>2, PruneFrom
  <2>3. CASE Queue({r \in pending : r.type # "test_step" \/ r.key # s},
                   "test_step_delete", s, "step", <<steps[s].idx, steps[s].text>>, Blank)
    BY <1>1, <2>1, <2>3
  <2>. QED BY <1>5, <2>2, <2>3, DeleteTestStepIs
<1>6. ASSUME NEW i \in 1..Cardinality(DOMAIN steps), ReorderTestSteps(i) PROVE test'.ver = test.ver /\ Good
  BY <1>1, <1>6, ReorderTestStepsIs
<1>. HIDE DEF Good
<1>7. test'.ver = test.ver /\ Good
  BY <1>2, <1>3, <1>4, <1>5, <1>6 DEF EditStep
<1>. QED
  BY <1>7 DEF Good

LEMMA NextVersions == Shapes /\ Versions /\ [Next]_vars => Versions'
<1>. SUFFICES ASSUME Shapes, Versions, [Next]_vars PROVE Versions'
  OBVIOUS
<1>0. /\ jira.ver \in Nat /\ jira'.ver \in Nat /\ (jira' = jira \/ jira'.ver = jira.ver + 1)
      /\ test.ver \in Nat /\ version \in Nat
      /\ \A r \in pending \cup rows : r.base \in Nat
      /\ conflict # None => conflict.ver \in Nat
      /\ jira'.ver >= jira.ver /\ met \subseteq met'
  BY NextJira, NextMet, CacheIs, ShapeIs, RowIs DEF Shapes, Conflicting
<1>. USE DEF Versions, NotMet
<1>1. ASSUME test'.ver \in {test.ver, jira.ver} /\ version' \in {version, jira.ver, 0},
             \A r \in pending' \cup rows' : r.base = jira.ver \/ \E q \in pending \cup rows : r.base = q.base,
             conflict' = None \/ UNCHANGED conflict,
             pc' = "scan" => (pc = "scan" /\ UNCHANGED <<version, jira>>) \/ (version' = jira.ver /\ jira' = jira)
      PROVE  Versions'
  BY <1>0, <1>1
<1>2. CASE UNCHANGED vars
  BY <1>1, <1>2 DEF vars, local, commit
<1>3. CASE EditStep
  <2>1. UNCHANGED <<jira, conflict, version, rows, pc>>
    BY <1>3, EditStepIs, EditIs DEF commit
  <2>2. test'.ver = test.ver /\ \A r \in pending' : (\E q \in pending : r.base = q.base) \/ r.base = test.ver
    BY <1>3, EditRows DEF From
  <2>. QED BY <1>0, <2>1, <2>2
<1>4. ASSUME NEW d \in pending, DiscardPendingChange(d) PROVE Versions'
  <2>1. test'.ver = test.ver
    BY <1>4, CacheIs DEF DiscardPendingChange
  <2>2. UNCHANGED <<jira, conflict, version, rows, pc>> /\ pending' \subseteq pending
    <3>1. UNCHANGED <<jira, conflict, commit, rows, pc>> /\ pending' = Delete(pending, {d.id})
      BY <1>4, DiscardIs
    <3>. QED BY <3>1, DeleteIs DEF commit
  <2>. QED BY <1>1, <2>1, <2>2
<1>5. CASE RefreshSteps \/ SyncTest
  BY <1>1, <1>5, RefreshIs, SyncIs DEF commit, Synced
<1>6. ASSUME NEW theirs, ResolveConflict(theirs) PROVE Versions'
  <2>1. test'.ver = test.ver /\ UNCHANGED <<version, rows, pc, jira>> /\ conflict' = None /\ pc = "idle" /\ conflict # None
    BY <1>6, ResolveIs, CacheIs DEF commit
  <2>2. \A r \in pending' : r.base = conflict.ver
    BY <1>6, ResolvedRows
  <2>. QED BY <1>0, <2>1, <2>2
<1>7. CASE RemoteEdit
  <2>1. UNCHANGED <<pending, test, version, rows, pc, conflict>> /\ (pc = "scan" => "race" \in met')
    BY <1>7, RemoteEditIs DEF commit
  <2>. QED BY <1>0, <2>1
<1>8. ASSUME NEW selected \in SUBSET pending, CommitChanges(selected) PROVE Versions'
  <2>1. UNCHANGED <<pending, test, version, jira>> /\ rows' \subseteq pending /\ conflict' = None /\ pc' # "scan"
    BY <1>8, CommitChangesIs
  <2>. QED BY <1>1, <2>1
<1>9. CASE Sends
  <2>1. UNCHANGED <<pending, test, rows, conflict>>
    BY <1>9, SendsIs
  <2>2. CASE RemoteVersion
    BY <1>1, <2>1, <2>2 DEF RemoteVersion
  <2>3. CASE ~ RemoteVersion
    <3>1. version' = version /\ pc' # "scan"
      BY <1>9, <2>3 DEF Sends, UpdateIssue, ApplyTransition, PhaseDone, ReadOrder, MoveTestStep, MovesDone,
                        RemoteDeleteStep, UpdateTestStep, Sending, Enter
    <3>. QED BY <1>1, <2>1, <3>1
  <2>. QED BY <2>2, <2>3
<1>10. ASSUME NEW x \in left, CreateStep(x) PROVE Versions'
  <2>1. UNCHANGED <<pending, test, rows, conflict, version>> /\ pc' = "adds"
    BY <1>10, CreatesIs
  <2>. QED BY <1>1, <2>1
<1>11. CASE RefusedEnds \/ Fault
  BY <1>1, <1>11, EndsAre, LeaveIs
<1>12. CASE ClearRows
  <2>1. /\ UNCHANGED <<jira, test, conflict>> /\ pending' \subseteq pending /\ pc' # "scan" /\ rows' \subseteq rows
        /\ version' \in {version, 0}
    BY <1>12, EndsAre, LeaveIs, DeleteIs DEF ClearRows
  <2>. QED BY <1>1, <2>1
<1>13. CASE RebaseRest
  <2>1. \A r \in pending' : r.base = jira.ver
    <3>1. pending' = Rebased(pending, jira.ver) /\ Table(pending, lastRow, born)
      BY <1>13, EndsAre DEF Shapes
    <3>. QED BY <1>0, <3>1, RebasedSame
  <2>2. UNCHANGED <<jira, test, conflict>> /\ pc' = "idle" /\ rows' = {} /\ version' = 0
    BY <1>13, EndsAre, LeaveIs
  <2>. QED BY <1>1, <2>1, <2>2
<1>14. CASE DetectConflicts
  <2>1. UNCHANGED <<jira, test>> /\ Open \subseteq pending /\ Rest \subseteq rows
    BY <1>14, DetectIs, DeleteIs DEF Open, Rest
  <2>2. CASE pc' = "idle"
    <3>1. pending' = Open /\ rows' = {} /\ version' = 0 /\ (conflict' = None \/ conflict'.ver = version)
      BY <1>14, <2>2, DetectIs, LeaveIs
    <3>. QED BY <1>0, <2>1, <2>2, <3>1
  <2>3. CASE pc' # "idle"
    <3>1. pending' = Rebased(Open, version) /\ rows' = Rest /\ pc' = "fields" /\ UNCHANGED <<conflict, version>>
      BY <1>14, <2>3, DetectIs, LeaveIs
    <3>2. \A r \in pending' : r.base = version
      <4>1. Table(Open, lastRow, born)
        BY <2>1, TableSubset DEF Shapes
      <4>. QED BY <1>0, <3>1, <4>1, RebasedSame
    <3>. QED BY <1>0, <2>1, <3>1, <3>2
  <2>. QED BY <2>2, <2>3
<1>. HIDE DEF Versions, NotMet
<1>. QED
  BY <1>2, <1>3, <1>4, <1>5, <1>6, <1>7, <1>8, <1>9, <1>10, <1>11, <1>12, <1>13, <1>14, Cases

LEMMA NextSelectedIs == Shapes /\ SelectedIs /\ [Next]_vars => SelectedIs'
<1>. SUFFICES ASSUME Shapes, SelectedIs, [Next]_vars PROVE SelectedIs'
  OBVIOUS
<1>0. met \subseteq met'
  BY NextMet
<1>. USE DEF SelectedIs
<1>1. ASSUME only' = only /\ (pc' = "rebase" => pc = "rebase") PROVE SelectedIs'
  BY <1>0, <1>1
<1>2. CASE UNCHANGED vars
  BY <1>1, <1>2 DEF vars, commit
<1>3. CASE EditStep
  BY <1>1, <1>3, EditStepIs, EditIs DEF commit
<1>4. ASSUME NEW d \in pending, DiscardPendingChange(d) PROVE SelectedIs'
  BY <1>1, <1>4, DiscardIs DEF commit
<1>5. CASE RefreshSteps \/ SyncTest \/ RemoteEdit
  BY <1>1, <1>5, RefreshIs, SyncIs, RemoteEditIs DEF commit
<1>6. ASSUME NEW theirs, ResolveConflict(theirs) PROVE SelectedIs'
  BY <1>1, <1>6, ResolveIs DEF commit
<1>7. ASSUME NEW selected \in SUBSET pending, CommitChanges(selected) PROVE SelectedIs'
  BY <1>0, <1>7, CommitChangesIs DEF CommitChanges
<1>8. CASE Sends
  BY <1>1, <1>8, SendsIs
<1>9. ASSUME NEW x \in left, CreateStep(x) PROVE SelectedIs'
  BY <1>1, <1>9, CreatesIs
<1>10. CASE RefusedEnds \/ Fault \/ RebaseRest
  BY <1>10, EndsAre, LeaveIs
<1>11. CASE ClearRows
  <2>1. CASE only
    BY <1>0, <1>11, <2>1, EndsAre, LeaveIs
  <2>2. CASE ~ only
    BY <1>11, <2>2, EndsAre, LeaveIs
  <2>. QED BY <2>1, <2>2
<1>12. CASE DetectConflicts
  BY <1>1, <1>12, DetectIs, LeaveIs
<1>. HIDE DEF SelectedIs
<1>. QED
  BY <1>2, <1>3, <1>4, <1>5, <1>6, <1>7, <1>8, <1>9, <1>10, <1>11, <1>12, Cases

LEMMA NextPassHasAll == Shapes /\ PassHasAll /\ [Next]_vars => PassHasAll'
<1>. SUFFICES ASSUME Shapes, PassHasAll, [Next]_vars, NotMet({"selected", "meanwhile"})' PROVE AllSent'
  BY DEF PassHasAll
<1>0. met \subseteq met' /\ AllSent /\ "meanwhile" \notin met' /\ "selected" \notin met'
  BY NextMet DEF PassHasAll, NotMet
<1>1. ASSUME UNCHANGED <<pending, rows>>, pc' = pc \/ pc # "idle" PROVE AllSent'
  BY <1>0, <1>1 DEF AllSent
<1>2. ASSUME pc' = "idle" PROVE AllSent'
  BY <1>2 DEF AllSent
<1>3. CASE UNCHANGED vars
  BY <1>1, <1>3 DEF vars, local, commit
<1>4. CASE EditStep
  BY <1>0, <1>2, <1>4, EditStepIs, EditIs
<1>5. ASSUME NEW d \in pending, DiscardPendingChange(d) PROVE AllSent'
  BY <1>0, <1>2, <1>5, DiscardIs
<1>6. CASE RefreshSteps \/ SyncTest \/ RemoteEdit
  BY <1>1, <1>6, RefreshIs, SyncIs, RemoteEditIs
<1>7. ASSUME NEW theirs, ResolveConflict(theirs) PROVE AllSent'
  BY <1>2, <1>7, ResolveIs, ResolveMet
<1>8. ASSUME NEW selected \in SUBSET pending, CommitChanges(selected) PROVE AllSent'
  <2>1. pending' = pending /\ rows' = pending
    BY <1>0, <1>8, CommitChangesIs
  <2>. QED BY <2>1 DEF AllSent
<1>9. CASE Sends
  BY <1>1, <1>9, SendsIs
<1>10. ASSUME NEW x \in left, CreateStep(x) PROVE AllSent'
  BY <1>1, <1>10, CreatesIs
<1>11. CASE RefusedEnds \/ Fault \/ RebaseRest
  BY <1>2, <1>11, EndsAre, LeaveIs
<1>12. CASE ClearRows
  <2>1. pending' = {}
    BY <1>0, <1>12, EndsAre DEF AllSent, Delete
  <2>. QED BY <2>1 DEF AllSent
<1>13. CASE DetectConflicts
  <2>. SUFFICES ASSUME pc' # "idle", NEW r \in pending' PROVE \E q \in rows' : q.id = r.id
    BY DEF AllSent
  <2>1. pc = "scan" /\ rows' = Rest /\ pending' = Rebased(Open, version)
    BY <1>13, DetectIs, LeaveIs
  <2>2. Table(Open, lastRow, born) /\ version \in Nat /\ Open \subseteq pending
    BY TableSubset, DeleteIs DEF Open, Shapes
  <2>3. PICK p \in Open : Same(p, r)
    BY <2>1, <2>2, RebasedSame
  <2>4. PICK q \in rows : q.id = p.id
    BY <1>0, <2>1, <2>2 DEF AllSent
  <2>5. q \notin There
    BY <2>3, <2>4 DEF Open, Delete
  <2>. QED BY <2>1, <2>3, <2>4, <2>5 DEF Rest, Same
<1>. QED
  BY <1>3, <1>4, <1>5, <1>6, <1>7, <1>8, <1>9, <1>10, <1>11, <1>12, <1>13, Cases

\* The calls of a pass that reach Jira.
Lands ==
    \/ pc = "fields" /\ left # {} /\ LandFields
    \/ pc = "status" /\ \E r \in left : Offered(r) /\ LandStatus(r)
    \/ pc = "deletes" /\ \E r \in left : Exists(r) /\ LandDelete(r)
    \/ pc = "edits" /\ \E r \in left : Exists(r) /\ LandEdit(r)
    \/ pc = "adds" /\ \E r \in left : Lowest(r) /\ r.after[2] # Blank /\ LandAdd(r)
    \/ pc = "moves" /\ \E k \in moves : Coming(k) /\ Movable(k) /\ LandMove(k)

LEMMA LandsAre ==
    /\ LandLost => Lands
    /\ Sends => jira' = jira \/ Lands
    /\ \A r \in left : CreateStep(r) => Lands
    /\ Fault => jira' = jira \/ Lands
<1>1. LandLost => Lands
  BY DEF LandLost, Lands
<1>2. UpdateIssue => jira' = jira \/ Lands
  BY DEF UpdateIssue, Lands
<1>3. ApplyTransition => jira' = jira \/ Lands
  BY DEF ApplyTransition, Lands
<1>4. MoveTestStep => Lands
  BY DEF MoveTestStep, Lands
<1>5. ASSUME NEW r \in left, RemoteDeleteStep(r) \/ UpdateTestStep(r) PROVE Lands
  BY <1>5 DEF RemoteDeleteStep, UpdateTestStep, Lands
<1>6. PhaseDone \/ ReadOrder \/ MovesDone \/ RemoteVersion => jira' = jira
  BY DEF PhaseDone, ReadOrder, MovesDone, RemoteVersion
<1>7. \A r \in left : CreateStep(r) => Lands
  BY DEF CreateStep, Lands
<1>8. Fault => jira' = jira \/ Lands
  BY <1>1 DEF Fault
<1>9. Sends => jira' = jira \/ Lands
  BY <1>2, <1>3, <1>4, <1>5, <1>6 DEF Sends
<1>. QED
  BY <1>1, <1>7, <1>8, <1>9

\* Only the calls for fields touch fields.
LEMMA LandsFields ==
    ASSUME Shapes, Lands, pc \notin {"fields", "status"}
    PROVE  jira'.field = jira.field
<1>1. CASE pc = "deletes"
  BY <1>1, LandDeleteIs DEF Lands
<1>2. CASE pc = "edits"
  <2>1. PICK r \in left : Exists(r) /\ LandEdit(r)
    BY <1>2 DEF Lands
  <2>2. r.after \in Texts
    BY <1>2, LeftIs, TextsIs DEF Shape
  <2>. QED BY <2>1, <2>2, LandEditIs
<1>3. CASE pc = "adds"
  BY <1>3, LandAddIs DEF Lands
<1>4. CASE pc = "moves"
  BY <1>4, LandMoveIs DEF Lands
<1>. QED
  BY <1>1, <1>2, <1>3, <1>4 DEF Lands

\* A field never reads as the mark of a step that is gone.
LEMMA NextFieldsLive == Shapes /\ FieldsLive /\ [Next]_vars => FieldsLive'
<1>. SUFFICES ASSUME Shapes, FieldsLive, [Next]_vars PROVE FieldsLive'
  OBVIOUS
<1>0. Deleted \notin Mine /\ Deleted \notin Theirs
  BY TestCommitAssumption
<1>1. ASSUME jira'.field = jira.field PROVE FieldsLive'
  BY <1>1 DEF FieldsLive
<1>2. ASSUME pc = "fields", LandFields PROVE FieldsLive'
  <2>. SUFFICES ASSUME NEW f \in Fields PROVE AfterVal(left, "test_case", TestKey, f, jira.field[f]) # Deleted
    BY <1>2, LandFieldsIs DEF FieldsLive
  <2>1. CASE RowsAt(left, "test_case", TestKey, f) = {}
    BY <2>1 DEF AfterVal, FieldsLive
  <2>2. CASE RowsAt(left, "test_case", TestKey, f) # {}
    <3>1. PICK r \in RowsAt(left, "test_case", TestKey, f) : RowAt(left, "test_case", TestKey, f) = r
      BY <2>2 DEF RowAt
    <3>2. r \in left /\ r.type = "test_case"
      BY <3>1, AtPlace
    <3>3. r.after \in Mine
      BY <3>2, LeftIs DEF Shape
    <3>. QED BY <1>0, <2>2, <3>1, <3>3 DEF AfterVal
  <2>. QED BY <2>1, <2>2
<1>3. ASSUME pc = "status", NEW r \in left, LandStatus(r) PROVE FieldsLive'
  <2>1. r.after \in Mine
    BY <1>3, LeftIs DEF Shape
  <2>. QED BY <1>0, <1>3, <2>1, LandStatusIs DEF FieldsLive
<1>4. CASE UNCHANGED vars
  BY <1>1, <1>4 DEF vars
<1>5. CASE EditStep
  BY <1>1, <1>5, EditStepIs, EditIs
<1>6. ASSUME NEW d \in pending, DiscardPendingChange(d) PROVE FieldsLive'
  BY <1>1, <1>6, DiscardIs
<1>7. CASE RefreshSteps \/ SyncTest \/ ClearRows \/ RebaseRest \/ RefusedEnds
  BY <1>1, <1>7, RefreshIs, SyncIs, EndsAre
<1>8. ASSUME NEW theirs, ResolveConflict(theirs) PROVE FieldsLive'
  BY <1>1, <1>8, ResolveIs
<1>9. CASE RemoteEdit
  <2>1. CASE \E f \in Fields, v \in Theirs : Write([jira.field EXCEPT ![f] = v], jira.steps)
    BY <1>0, <2>1, JiraIs DEF Write, FieldsLive
  <2>2. CASE \E s : Write(jira.field, s)
    BY <1>1, <2>2 DEF Write
  <2>. QED BY <1>9, <2>1, <2>2 DEF RemoteEdit
<1>10. CASE Lands
  BY <1>1, <1>2, <1>3, <1>10, LandsFields DEF Lands
<1>11. CASE jira' = jira
  BY <1>1, <1>11
<1>12. CASE Sends \/ Fault \/ \E x \in left : CreateStep(x)
  BY <1>10, <1>11, <1>12, LandsAre
<1>13. CASE DetectConflicts
  BY <1>1, <1>13, DetectIs
<1>14. ASSUME NEW selected \in SUBSET pending, CommitChanges(selected) PROVE FieldsLive'
  BY <1>1, <1>14, CommitChangesIs
<1>. QED
  BY <1>4, <1>5, <1>6, <1>7, <1>8, <1>9, <1>12, <1>13, <1>14, Cases

\* The row an edit makes is made on what the cache shows.
NewField(r) ==
    r.type = "test_case" /\ r.before = test.field[r.field] /\ RowsAt(pending, "test_case", TestKey, r.field) = {}
NewText(r) ==
    /\ r.type = "test_step" /\ r.key \in DOMAIN steps
    /\ r.before = steps[r.key].text /\ r.before # r.after
    /\ \A p \in pending : ~ About(p, r.key)
NewDelete(r) ==
    /\ r.type = "test_step_delete" /\ r.field = "step" /\ r.key \in DOMAIN steps
    /\ r.before = <<steps[r.key].idx, steps[r.key].text>>
    /\ \A p \in pending : About(p, r.key) =>
          [type |-> "test_step_delete", key |-> r.key, field |-> "step", value |-> p.before] \in kept'
NewOther(r) == r.type \in {"test_step_add", "test_step_order"}
Made(r) == r.base = test.ver /\ (NewField(r) \/ NewText(r) \/ NewDelete(r) \/ NewOther(r))
Keeps(r) == \E q \in pending : From(q, r) /\ (q.type = "test_step" => r = q \/ r.before # r.after)

LEMMA AboutIs ==
    ASSUME Shapes, NEW s
    PROVE  RowsAt(pending, "test_step", s, "action") = {p \in pending : About(p, s)}
BY ShapeIs DEF RowsAt, About, Shape

LEMMA QueuedKeeps ==
    ASSUME Shapes, NEW j, NEW type, NEW key, NEW field, NEW current, NEW value,
           Queue(j, type, key, field, current, value), j \subseteq pending, NEW r \in pending'
    PROVE  \/ Keeps(r)
           \/ New(r, type, key) /\ r.field = field /\ r.before = current /\ r.after = value
              /\ RowsAt(j, type, key, field) = {}
<1>1. CASE New(r, type, key) /\ r.field = field /\ r.before = current /\ r.after = value
              /\ RowsAt(j, type, key, field) = {}
  BY <1>1
<1>2. ASSUME NEW q \in j, From(q, r),
             (q.type = type /\ q.key = key /\ q.field = field =>
                 r.after = value /\ (type # "test_step_order" => q.before # value)),
             ~ (q.type = type /\ q.key = key /\ q.field = field) => r = q
      PROVE  Keeps(r)
  <2>1. q.type = "test_step" => r = q \/ r.before # r.after
    BY <1>2 DEF From
  <2>. QED BY <1>2, <2>1 DEF Keeps
<1>. QED
  BY <1>1, <1>2, QueueFrom

LEMMA EditFacts ==
    ASSUME Shapes, EditStep, NEW r \in pending'
    PROVE  Keeps(r) \/ Made(r)
<1>1. ASSUME NEW f \in Fields, NEW v \in Mine, EditTestField(f, v) PROVE Keeps(r) \/ Made(r)
  <2>1. \/ Keeps(r)
        \/ New(r, "test_case", TestKey) /\ r.field = f /\ r.before = test.field[f] /\ r.after = v
           /\ RowsAt(pending, "test_case", TestKey, f) = {}
    BY <1>1, EditTestFieldIs, QueuedKeeps
  <2>. QED BY <2>1 DEF New, Made, NewField
<1>2. ASSUME NEW s \in DOMAIN steps, NEW v \in Mine, EditTestStepField(s, v) PROVE Keeps(r) \/ Made(r)
  <2>1. CASE pending' = Folded(pending, s, v)
    BY <2>1, FoldFrom DEF Keeps
  <2>2. CASE Queue(pending, "test_step", s, "action", steps[s].text, v)
    <3>1. \/ Keeps(r)
          \/ New(r, "test_step", s) /\ r.field = "action" /\ r.before = steps[s].text /\ r.after = v
             /\ RowsAt(pending, "test_step", s, "action") = {}
      BY <2>2, QueuedKeeps
    <3>2. steps[s].text # v
      BY <1>2, EditTestStepFieldIs
    <3>3. RowsAt(pending, "test_step", s, "action") = {} => \A p \in pending : ~ About(p, s)
      BY AboutIs
    <3>. QED BY <3>1, <3>2, <3>3 DEF New, Made, NewText
  <2>. QED BY <1>2, <2>1, <2>2, EditTestStepFieldIs
<1>3. ASSUME NEW t \in Mine \cup {Blank}, AddTestStep(t) PROVE Keeps(r) \/ Made(r)
  <2>1. Queue(pending, "test_step_add", NextTempStepID, "step", Blank, <<NextIdx, t>>)
    BY <1>3, AddTestStepIs
  <2>2. Keeps(r) \/ New(r, "test_step_add", NextTempStepID)
    BY <2>1, QueuedKeeps
  <2>. QED BY <2>2 DEF New, Made, NewOther
<1>4. ASSUME NEW s \in DOMAIN steps, DeleteTestStep(s) PROVE Keeps(r) \/ Made(r)
  <2>1. CASE pending' = Pruned(pending \ AddRow(s), s)
    <3>1. \E q \in pending \ AddRow(s) : From(q, r) /\ (q.type # "test_step_order" => r = q)
      BY <2>1, PruneFrom
    <3>. QED BY <3>1 DEF Keeps
  <2>2. CASE Queue({q \in pending : q.type # "test_step" \/ q.key # s},
                   "test_step_delete", s, "step", <<steps[s].idx, steps[s].text>>, Blank)
    <3>. DEFINE j == {q \in pending : q.type # "test_step" \/ q.key # s}
    <3>1. \/ Keeps(r)
          \/ New(r, "test_step_delete", s) /\ r.field = "step" /\ r.before = <<steps[s].idx, steps[s].text>>
      <4>1. j \subseteq pending
        OBVIOUS
      <4>. HIDE DEF j
      <4>2. Queue(j, "test_step_delete", s, "step", <<steps[s].idx, steps[s].text>>, Blank)
        BY <2>2 DEF j
      <4>. QED BY <4>1, <4>2, QueuedKeeps
    <3>2. ASSUME NEW p \in pending, About(p, s)
          PROVE  [type |-> "test_step_delete", key |-> s, field |-> "step", value |-> p.before] \in kept'
      <4>1. p \in RowsAt(pending, "test_step", s, "action")
        BY <3>2, AboutIs
      <4>2. kept' = kept \cup {[type |-> "test_step_delete", key |-> s, field |-> "step", value |-> q.before] :
                                  q \in RowsAt(pending, "test_step", s, "action")}
        BY <1>4, DeleteTestStepIs, EditIs
      <4>. QED BY <4>1, <4>2
    <3>. QED BY <3>1, <3>2 DEF New, Made, NewDelete
  <2>. QED BY <1>4, <2>1, <2>2, DeleteTestStepIs
<1>5. ASSUME NEW i \in 1..Cardinality(DOMAIN steps), ReorderTestSteps(i) PROVE Keeps(r) \/ Made(r)
  <2>1. PICK x, y : Queue(pending, "test_step_order", TestKey, "order", x, y)
    BY <1>5, ReorderTestStepsIs
  <2>2. Keeps(r) \/ New(r, "test_step_order", TestKey)
    BY <2>1, QueuedKeeps
  <2>. QED BY <2>2 DEF New, Made, NewOther
<1>. QED
  BY <1>1, <1>2, <1>3, <1>4, <1>5 DEF EditStep

\* The rows of every other step were there.
LEMMA OtherRows ==
    ASSUME Shapes, [Next]_vars, ~ EditStep, NEW r \in pending'
    PROVE  \E q \in pending : Same(q, r)
<1>0. \A q : Same(q, q)
  BY DEF Same
<1>1. ASSUME pending' \subseteq pending PROVE \E q \in pending : Same(q, r)
  BY <1>0, <1>1
<1>2. CASE UNCHANGED vars
  BY <1>1, <1>2 DEF vars, local
<1>3. ASSUME NEW d \in pending, DiscardPendingChange(d) PROVE \E q \in pending : Same(q, r)
  <2>1. pending' = Delete(pending, {d.id})
    BY <1>3, DiscardIs
  <2>. QED BY <1>1, <2>1, DeleteIs
<1>4. CASE RefreshSteps \/ SyncTest \/ RemoteEdit \/ Sends \/ RefusedEnds \/ Fault
  BY <1>1, <1>4, RefreshIs, SyncIs, RemoteEditIs, SendsIs, EndsAre
<1>5. ASSUME NEW theirs, ResolveConflict(theirs) PROVE \E q \in pending : Same(q, r)
  BY <1>5, ResolvedRows
<1>6. ASSUME NEW x \in left, CreateStep(x) PROVE \E q \in pending : Same(q, r)
  BY <1>1, <1>6, CreatesIs
<1>7. ASSUME NEW selected \in SUBSET pending, CommitChanges(selected) PROVE \E q \in pending : Same(q, r)
  BY <1>1, <1>7, CommitChangesIs
<1>8. CASE ClearRows
  BY <1>1, <1>8, EndsAre, DeleteIs
<1>9. CASE RebaseRest
  <2>1. pending' = Rebased(pending, jira.ver) /\ Table(pending, lastRow, born) /\ jira.ver \in Nat
    BY <1>9, EndsAre, JiraIs DEF Shapes
  <2>. QED BY <2>1, RebasedSame
<1>10. CASE DetectConflicts
  <2>1. Table(Open, lastRow, born) /\ version \in Nat /\ Open \subseteq pending
    BY TableSubset, DeleteIs DEF Open, Shapes
  <2>2. pending' = Open \/ pending' = Rebased(Open, version)
    BY <1>10, DetectIs
  <2>3. CASE pending' = Rebased(Open, version)
    <3>1. \E q \in Open : Same(q, r)
      BY <2>1, <2>3, RebasedSame
    <3>. QED BY <2>1, <3>1
  <2>. QED BY <1>1, <2>1, <2>2, <2>3
<1>. QED
  BY <1>2, <1>3, <1>4, <1>5, <1>6, <1>7, <1>8, <1>9, <1>10, Cases

LEMMA NextChanging == Shapes /\ Changing /\ [Next]_vars => Changing'
<1>. SUFFICES ASSUME Shapes, Changing, [Next]_vars, NEW r \in pending', r.type = "test_step"
              PROVE  r.before # r.after
  BY DEF Changing
<1>1. CASE EditStep
  <2>1. CASE Keeps(r)
    BY <2>1 DEF Keeps, From, Changing
  <2>2. CASE Made(r)
    BY <2>2 DEF Made, NewField, NewText, NewDelete, NewOther
  <2>. QED BY <1>1, <2>1, <2>2, EditFacts
<1>2. CASE ~ EditStep
  <2>1. PICK q \in pending : Same(q, r)
    BY <1>2, OtherRows
  <2>. QED BY <2>1 DEF Same, Changing
<1>. QED
  BY <1>1, <1>2

\* A write to Jira leaves the journal, the cache and the screen alone.
LEMMA NextWrite ==
    ASSUME Shapes, [Next]_vars, jira' # jira
    PROVE  UNCHANGED <<test, pending, conflict, kept>> /\ rows' \subseteq rows
<1>1. CASE UNCHANGED vars
  BY <1>1 DEF vars
<1>2. CASE EditStep
  BY <1>2, EditStepIs, EditIs
<1>3. CASE DetectConflicts
  BY <1>3, DetectIs
<1>4. ASSUME NEW d, DiscardPendingChange(d) PROVE FALSE
  BY <1>4, DiscardIs
<1>5. ASSUME NEW theirs, ResolveConflict(theirs) PROVE FALSE
  BY <1>5, ResolveIs
<1>6. ASSUME NEW selected \in SUBSET pending, CommitChanges(selected) PROVE FALSE
  BY <1>6, CommitChangesIs
<1>7. CASE RefreshSteps \/ SyncTest \/ ClearRows \/ RebaseRest \/ RefusedEnds
  BY <1>7, RefreshIs, SyncIs, EndsAre
<1>8. CASE Fault
  BY <1>8, EndsAre, LeaveIs
<1>9. CASE RemoteEdit \/ Sends
  BY <1>9, RemoteEditIs, SendsIs
<1>10. ASSUME NEW x \in left, CreateStep(x) PROVE UNCHANGED <<test, pending, conflict, kept>> /\ rows' \subseteq rows
  BY <1>10, CreatesIs
<1>. QED
  BY <1>1, <1>2, <1>3, <1>4, <1>5, <1>6, <1>7, <1>8, <1>9, <1>10, Cases

LEMMA NextKept ==
    ASSUME Shapes, [Next]_vars
    PROVE  kept \subseteq kept'
<1>1. CASE jira' # jira
  BY <1>1, NextWrite
<1>2. CASE UNCHANGED vars
  BY <1>2 DEF vars
<1>3. CASE EditStep
  BY <1>3, EditStepIs, EditIs
<1>4. CASE DetectConflicts
  BY <1>4, DetectIs
<1>5. ASSUME NEW d, DiscardPendingChange(d) PROVE kept' = kept
  BY <1>5, DiscardIs
<1>6. ASSUME NEW theirs, ResolveConflict(theirs) PROVE kept \subseteq kept'
  BY <1>6 DEF ResolveConflict, Resolve
<1>7. ASSUME NEW selected \in SUBSET pending, CommitChanges(selected) PROVE kept' = kept
  BY <1>7, CommitChangesIs
<1>8. CASE RefreshSteps \/ SyncTest \/ ClearRows \/ RebaseRest \/ RefusedEnds \/ Fault \/ RemoteEdit \/ Sends
  BY <1>8, RefreshIs, SyncIs, EndsAre, RemoteEditIs, SendsIs
<1>9. ASSUME NEW x \in left, CreateStep(x) PROVE kept' = kept
  BY <1>9, CreatesIs
<1>. QED
  BY <1>2, <1>3, <1>4, <1>5, <1>6, <1>7, <1>8, <1>9, Cases

\* What accounts for a text goes on accounting for it.
LEMMA AccountedStays ==
    ASSUME NEW q, NEW r, q.type = r.type, q.key = r.key, q.field = r.field, q.before = r.before,
           jira' = jira, kept \subseteq kept', Accounted(q)
    PROVE  Accounted(r)'
<1>1. Replaced(r)' = Replaced(q)
  BY DEF Replaced, Exists
<1>. QED
  BY <1>1 DEF Accounted

LEMMA NothingReplaced ==
    ASSUME Shapes, NEW r, Shape(r), r.type \in {"test_step_add", "test_step_order"}
    PROVE  Accounted(r)
<1>1. r.key <= 0 /\ r.key \in Int
  BY RowIs DEF Shape, TestKey
<1>2. ~ Exists(r)
  BY <1>1, JiraIs DEF Exists, IdsOf
<1>. QED
  BY <1>2 DEF Accounted, Replaced

LEMMA UntouchedAccounted ==
    ASSUME Shapes, NEW r, Shape(r), Untouched(r)
    PROVE  Accounted(r)
<1>1. CASE r.type = "test_case"
  BY <1>1 DEF Untouched, Remote, Accounted, Replaced
<1>2. CASE r.type = "test_step"
  BY <1>2 DEF Untouched, Remote, Accounted, Replaced, Exists
<1>3. CASE r.type = "test_step_delete"
  BY <1>3, RemoteIs DEF Untouched, Accounted, Replaced
<1>4. CASE r.type \in {"test_step_add", "test_step_order"}
  BY <1>4, NothingReplaced
<1>. QED
  BY <1>1, <1>2, <1>3, <1>4, RowIs DEF Types

\* What a conflict shows of a row is what the row would replace.
LEMMA FacingIs ==
    ASSUME Shapes, NEW r, Shape(r), r.type \in {"test_case", "test_step", "test_step_delete"}
    PROVE  Replaced(r) = Deleted \/ Facing(r.type, Remote(r)) = Replaced(r)
<1>1. CASE r.type = "test_case"
  BY <1>1 DEF Facing, Remote, Replaced
<1>2. CASE r.type = "test_step"
  BY <1>2 DEF Facing, Remote, Replaced, Exists
<1>3. CASE r.type = "test_step_delete"
  BY <1>3, RemoteIs DEF Facing, Replaced
<1>. QED
  BY <1>1, <1>2, <1>3

\* A plain step was plain before, and the user edits between Commits.
LEMMA PlainIs ==
    ASSUME Shapes, [Next]_vars, Plain'
    PROVE  /\ Plain /\ \A r : Fits(r)' => Fits(r)
           /\ NotMet({"race", "selected", "meanwhile", "onscreen"})' /\ NotMet({"race", "selected", "meanwhile", "onscreen"})
           /\ (\A texts : Edit(texts) => Still /\ conflict = None)
           /\ (\A d : DiscardPendingChange(d) => Still /\ conflict = None)
<1>1. met \subseteq met' /\ "meanwhile" \notin met' /\ "onscreen" \notin met'
  BY NextMet DEF Plain, NotMet
<1>2. Plain /\ \A r : Fits(r)' => Fits(r)
  BY <1>1 DEF Plain, NotMet, Fits
<1>3. ASSUME NEW texts, Edit(texts) PROVE Still /\ conflict = None
  BY <1>1, <1>3, EditIs DEF Still
<1>4. ASSUME NEW d, DiscardPendingChange(d) PROVE Still /\ conflict = None
  BY <1>1, <1>4, DiscardIs DEF Still
<1>. QED
  BY <1>2, <1>3, <1>4 DEF Plain

LEMMA PassRows ==
    ASSUME Shapes, RowsPend, PassHasAll, Plain, pc \notin {"idle", "rebase"}, NEW r \in pending
    PROVE  \E q \in rows : Same(q, r)
<1>1. AllSent /\ \A q \in rows : \E p \in pending : Same(p, q)
  BY DEF PassHasAll, Plain, NotMet, RowsPend
<1>2. PICK q \in rows : q.id = r.id
  BY <1>1 DEF AllSent
<1>3. PICK p \in pending : Same(p, q)
  BY <1>1
<1>4. p = r
  BY <1>2, <1>3, ShapeIs DEF Same
<1>. QED
  BY <1>3, <1>4 DEF Same

LEMMA OpenRows ==
    ASSUME Shapes, RowsPend, PassHasAll, Plain, pc = "scan", NEW r \in Open
    PROVE  r \in pending /\ \E q \in Rest : Same(q, r)
<1>1. r \in pending /\ r.id \notin {q.id : q \in There}
  BY DEF Open, Delete
<1>2. PICK q \in rows : Same(q, r)
  BY <1>1, PassRows
<1>3. q \notin There
  BY <1>1, <1>2 DEF Same
<1>. QED
  BY <1>1, <1>2, <1>3 DEF Rest

LEMMA NextSentWritten == Shapes /\ Versions /\ SentWritten /\ [Next]_vars => SentWritten'
<1>. SUFFICES ASSUME Shapes, Versions, SentWritten, [Next]_vars PROVE SentWritten'
  OBVIOUS
<1>. DEFINE Sent(q) == SentEdit(q) \/ SentField(q)
<1>0. test.ver \in Nat /\ jira.ver \in Nat /\ test.ver <= jira.ver /\ jira'.ver \in Nat
      /\ jira'.ver >= jira.ver /\ (jira' = jira \/ jira'.ver = jira.ver + 1)
  BY NextJira, CacheIs DEF Versions
<1>1. ASSUME NEW q, pc' \notin {"status", "deletes", "edits", "adds", "moves", "clear"} \/ rows' = {} PROVE ~ SentEdit(q)'
  BY <1>1 DEF SentEdit
<1>2. ASSUME pc' \notin {"status", "deletes", "edits", "adds", "moves", "clear"} \/ rows' = {} PROVE SentWritten'
  BY <1>1, <1>2 DEF SentWritten, SentField
<1>3. ASSUME test'.ver = test.ver, jira' # jira PROVE SentWritten'
  BY <1>0, <1>3 DEF SentWritten
<1>4. ASSUME test'.ver = test.ver, rows' = rows, \A q \in rows : Sent(q)' => Sent(q) PROVE SentWritten'
  BY <1>0, <1>4 DEF SentWritten
<1>5. ASSUME test'.ver = test.ver, UNCHANGED <<rows, pc, left>> PROVE SentWritten'
  <2>1. \A q \in rows : Sent(q)' => Sent(q)
    BY <1>5 DEF SentEdit, SentField
  <2>. QED BY <1>4, <1>5, <2>1
<1>6. CASE UNCHANGED vars
  BY <1>5, <1>6 DEF vars, local, commit
<1>7. CASE EditStep
  BY <1>5, <1>7, EditStepIs, EditIs, EditRows
<1>8. ASSUME NEW d \in pending, DiscardPendingChange(d) PROVE SentWritten'
  <2>1. test'.ver = test.ver
    BY <1>8, CacheIs DEF DiscardPendingChange
  <2>. QED BY <1>5, <1>8, <2>1, DiscardIs
<1>9. CASE RefreshSteps \/ RemoteEdit
  BY <1>5, <1>9, RefreshIs, RemoteEditIs
<1>10. CASE SyncTest
  BY <1>2, <1>10, SyncIs
<1>11. ASSUME NEW theirs, ResolveConflict(theirs) PROVE SentWritten'
  BY <1>2, <1>11, ResolveIs, ResolveMet
<1>12. ASSUME NEW selected \in SUBSET pending, CommitChanges(selected) PROVE SentWritten'
  BY <1>2, <1>12, CommitChangesIs
<1>13. CASE RefusedEnds \/ Fault \/ ClearRows \/ RebaseRest
  BY <1>2, <1>13, EndsAre, LeaveIs
<1>14. CASE DetectConflicts
  BY <1>2, <1>14, DetectIs, LeaveIs
<1>15. ASSUME NEW x \in left, CreateStep(x) PROVE SentWritten'
  <2>1. test' = test /\ rows' = rows /\ pc = "adds" /\ pc' = "adds"
    BY <1>15, CreatesIs
  <2>2. \A q \in rows : Sent(q)' => Sent(q)
    BY <2>1 DEF SentEdit, SentField
  <2>. QED BY <1>4, <2>1, <2>2
<1>16. CASE Sends
  <2>1. test' = test /\ rows' = rows
    BY <1>16, SendsIs
  <2>. SUFFICES ASSUME jira' = jira PROVE SentWritten'
    BY <1>3, <2>1
  <2>2. CASE RemoteVersion
    BY <1>2, <2>2 DEF RemoteVersion, Enter
  <2>3. CASE UpdateIssue
    <3>1. left = {}
      BY <1>0, <2>3 DEF UpdateIssue, LandFields, Write
    <3>2. pc = "fields" /\ pc' = "status" /\ FieldRows(rows) = {}
      BY <2>3, <3>1 DEF UpdateIssue, Enter, Shapes, Phases
    <3>3. \A q \in rows : ~ Sent(q)'
      BY <3>2 DEF SentEdit, SentField, FieldRows, OfType
    <3>. QED BY <1>4, <2>1, <3>3
  <2>4. CASE ApplyTransition
    <3>1. left = {}
      BY <1>0, <2>4 DEF ApplyTransition, LandStatus, Write
    <3>2. pc = "status" /\ pc' = "deletes" /\ StatusRows(rows) = {}
      BY <2>4, <3>1 DEF ApplyTransition, Enter, Shapes, Phases
    <3>3. \A q \in rows : Sent(q)' => Sent(q)
      BY <3>2 DEF SentEdit, SentField, StatusRows, OfType
    <3>. QED BY <1>4, <2>1, <3>3
  <2>5. CASE PhaseDone
    <3>1. \/ pc = "deletes" /\ pc' = "edits" /\ left' = OfType(rows, "test_step")
          \/ pc = "edits" /\ pc' = "adds" /\ left = {}
      BY <2>5 DEF PhaseDone, Enter
    <3>2. \A q \in rows : Sent(q)' => Sent(q)
      BY <2>1, <3>1 DEF SentEdit, SentField, OfType
    <3>. QED BY <1>4, <2>1, <3>2
  <2>6. CASE ReadOrder \/ MoveTestStep \/ MovesDone
    <3>1. pc \in {"adds", "moves"} /\ pc' \in {"moves", "clear"}
      BY <2>6 DEF ReadOrder, MoveTestStep, MovesDone
    <3>2. \A q \in rows : Sent(q)' => Sent(q)
      BY <2>1, <3>1 DEF SentEdit, SentField
    <3>. QED BY <1>4, <2>1, <3>2
  <2>7. ASSUME NEW r \in left, RemoteDeleteStep(r) \/ UpdateTestStep(r) PROVE SentWritten'
    BY <1>0, <2>7 DEF RemoteDeleteStep, UpdateTestStep, LandDelete, LandEdit, Write
  <2>. QED BY <1>16, <2>2, <2>3, <2>4, <2>5, <2>6, <2>7 DEF Sends
<1>. QED
  BY <1>6, <1>7, <1>8, <1>9, <1>10, <1>11, <1>12, <1>13, <1>14, <1>15, <1>16, Cases

LEMMA NextContentCached == Shapes /\ RowsPend /\ ContentCached /\ [Next]_vars => ContentCached'
<1>. SUFFICES ASSUME Shapes, RowsPend, ContentCached, [Next]_vars, NotMet({"refresh", "meanwhile"})', pc' = "moves"
              PROVE  content' = [s \in DOMAIN steps' |-> steps'[s].text]
  BY DEF ContentCached
<1>0. /\ "meanwhile" \notin met' /\ "refresh" \notin met' /\ "meanwhile" \notin met
      /\ pc = "moves" => content = [s \in DOMAIN steps |-> steps[s].text]
  BY NextMet DEF NotMet, ContentCached
<1>1. ASSUME UNCHANGED <<pc, steps, content>> PROVE content' = [s \in DOMAIN steps' |-> steps'[s].text]
  BY <1>0, <1>1
<1>2. CASE UNCHANGED vars
  BY <1>1, <1>2 DEF vars, local, commit
<1>3. CASE EditStep
  BY <1>0, <1>3, EditStepIs, EditIs
<1>4. ASSUME NEW d \in pending, DiscardPendingChange(d) PROVE FALSE
  BY <1>0, <1>4, DiscardIs
<1>5. CASE RefreshSteps
  <2>1. pc = "moves" /\ ~ \E r \in pending : IsStepRow(r)
    BY <1>0, <1>5, RefreshIs
  <2>2. PICK q \in OfType(rows, "test_step_order") : TRUE
    BY <2>1 DEF Shapes, Phases
  <2>3. PICK p \in pending : Same(p, q)
    BY <1>0, <2>1, <2>2 DEF OfType, RowsPend, NotMet
  <2>. QED BY <2>1, <2>2, <2>3 DEF Same, OfType, IsStepRow
<1>6. CASE SyncTest \/ RemoteEdit
  BY <1>1, <1>6, SyncIs, RemoteEditIs DEF commit
<1>7. ASSUME NEW theirs, ResolveConflict(theirs) PROVE FALSE
  BY <1>7, ResolveIs, ResolveMet
<1>8. ASSUME NEW selected \in SUBSET pending, CommitChanges(selected) PROVE FALSE
  BY <1>8, CommitChangesIs
<1>9. CASE RefusedEnds \/ Fault \/ ClearRows \/ RebaseRest
  BY <1>9, EndsAre, LeaveIs
<1>10. CASE DetectConflicts
  BY <1>10, DetectIs, LeaveIs
<1>11. ASSUME NEW x \in left, CreateStep(x) PROVE FALSE
  BY <1>11, CreatesIs
<1>12. CASE Sends
  <2>1. CASE ReadOrder
    BY <2>1 DEF ReadOrder, local
  <2>2. CASE MoveTestStep
    BY <1>1, <2>2 DEF MoveTestStep, local
  <2>3. CASE UpdateIssue \/ ApplyTransition \/ PhaseDone \/ MovesDone \/ RemoteVersion
    BY <2>3 DEF UpdateIssue, ApplyTransition, PhaseDone, MovesDone, RemoteVersion, Enter
  <2>4. ASSUME NEW r, RemoteDeleteStep(r) \/ UpdateTestStep(r) PROVE FALSE
    BY <2>4 DEF RemoteDeleteStep, UpdateTestStep
  <2>. QED BY <1>12, <2>1, <2>2, <2>3, <2>4 DEF Sends
<1>. QED
  BY <1>2, <1>3, <1>4, <1>5, <1>6, <1>7, <1>8, <1>9, <1>10, <1>11, <1>12, Cases

LEMMA NextConflictNow ==
    Shapes /\ RowsPend /\ Versions /\ PassHasAll /\ ConflictNow /\ [Next]_vars => ConflictNow'
<1>. SUFFICES ASSUME Shapes, RowsPend, Versions, PassHasAll, ConflictNow, [Next]_vars,
                     Plain', conflict' # None, conflict'.ver = jira'.ver
              PROVE  /\ \A c \in conflict'.held : c.remote = Remote(c.row)'
                     /\ \A r \in pending' : Accounted(r)' \/ \E c \in conflict'.held : c.row = r
  BY DEF ConflictNow
<1>0. jira' = jira /\ kept \subseteq kept'
  <2>1. CASE jira' # jira
    <3>1. conflict' = conflict /\ jira'.ver = jira.ver + 1 /\ jira.ver \in Nat
      BY <2>1, NextJira, NextWrite
    <3>2. conflict.ver <= jira.ver /\ conflict.ver \in Nat
      BY <3>1 DEF Versions, Shapes, Conflicting
    <3>. QED BY <3>1, <3>2
  <2>. QED BY <2>1, NextKept
<1>1. ASSUME UNCHANGED <<conflict, pending>>
      PROVE  /\ \A c \in conflict'.held : c.remote = Remote(c.row)'
             /\ \A r \in pending' : Accounted(r)' \/ \E c \in conflict'.held : c.row = r
  <2>1. /\ \A c \in conflict.held : c.remote = Remote(c.row)
        /\ \A r \in pending : Accounted(r) \/ \E c \in conflict.held : c.row = r
    BY <1>0, <1>1, PlainIs DEF ConflictNow
  <2>2. \A r : Remote(r)' = Remote(r)
    BY <1>0 DEF Remote
  <2>3. \A r : Accounted(r) => Accounted(r)'
    BY <1>0, AccountedStays
  <2>. QED BY <1>1, <2>1, <2>2, <2>3
<1>2. CASE UNCHANGED vars
  BY <1>1, <1>2 DEF vars, local
<1>3. CASE EditStep
  <2>1. \E texts : Edit(texts) /\ UNCHANGED conflict
    BY <1>3, EditStepIs, EditIs
  <2>. QED BY <2>1, PlainIs
<1>4. ASSUME NEW d \in pending, DiscardPendingChange(d) PROVE FALSE
  BY <1>4, PlainIs, DiscardIs
<1>5. CASE RefreshSteps \/ SyncTest \/ RemoteEdit \/ Sends \/ RefusedEnds \/ Fault
  BY <1>1, <1>5, RefreshIs, SyncIs, RemoteEditIs, SendsIs, EndsAre
<1>6. ASSUME NEW theirs, ResolveConflict(theirs) PROVE FALSE
  BY <1>6, ResolveIs
<1>7. ASSUME NEW selected \in SUBSET pending, CommitChanges(selected) PROVE FALSE
  BY <1>7, CommitChangesIs
<1>8. ASSUME NEW x \in left, CreateStep(x) PROVE UNCHANGED <<conflict, pending>>
  BY <1>8, CreatesIs
<1>9. CASE ClearRows \/ RebaseRest
  BY <1>9, EndsAre DEF Shapes, Phases
<1>10. CASE DetectConflicts
  <2>0. pc = "scan" /\ conflict = None /\ Plain
    BY <1>10, DetectIs, PlainIs DEF Shapes, Phases
  <2>1. pending' = Open /\ conflict' = [ver |-> version, held |-> HeldBack] /\ HeldBack # {}
        /\ (rows \subseteq pending \/ met' = met \cup {"onscreen"})
    BY <1>10, <2>0, DetectIs
  <2>2. rows \subseteq pending
    BY <2>1, PlainIs DEF NotMet
  <2>3. \A c \in HeldBack : c.remote = Remote(c.row)
    BY DEF HeldBack
  <2>4. \A r : Remote(r)' = Remote(r)
    BY <1>0 DEF Remote
  <2>5. ASSUME NEW r \in Open PROVE Accounted(r)' \/ \E c \in HeldBack : c.row = r
    <3>1. PICK q \in Rest : Same(q, r)
      BY <2>0, OpenRows
    <3>2. q = r
      BY <2>0, <2>2, <3>1, OpenRows, ShapeIs DEF Same, Rest
    <3>3. CASE Untouched(r)
      <4>1. Accounted(r)
        BY <2>0, <3>3, OpenRows, UntouchedAccounted, ShapeIs
      <4>. QED BY <1>0, <4>1, AccountedStays
    <3>4. CASE ~ Untouched(r)
      <4>. DEFINE c == [row |-> r, remote |-> Remote(r)]
      <4>1. r \in {y \in Rest : ~ Untouched(y)}
        BY <3>1, <3>2, <3>4
      <4>2. c \in HeldBack
        BY <4>1 DEF HeldBack
      <4>. QED BY <4>2
    <3>. QED BY <3>3, <3>4
  <2>. QED BY <2>1, <2>3, <2>4, <2>5
<1>. QED
  BY <1>1, <1>2, <1>3, <1>4, <1>5, <1>6, <1>7, <1>8, <1>9, <1>10, Cases

LEMMA ReplacedSame ==
    ASSUME NEW r, jira'.field = jira.field \/ r.type # "test_case", jira'.steps = jira.steps \/ r.type = "test_case"
    PROVE  Replaced(r)' = Replaced(r)
BY DEF Replaced, Exists

LEMMA StillAccounted ==
    ASSUME NEW r, Replaced(r)' \in {Replaced(r), Deleted}, kept \subseteq kept', Accounted(r)
    PROVE  Accounted(r)'
<1>1. CASE Replaced(r)' = Deleted
  BY <1>1 DEF Accounted
<1>2. CASE Replaced(r)' = Replaced(r)
  BY <1>2 DEF Accounted
<1>. QED
  BY <1>1, <1>2

\* A step as Jira has it, by its place in the listing.
LEMMA JiraTextIs ==
    ASSUME Shapes, NEW k \in DOMAIN jira.steps
    PROVE  JiraText(jira.steps[k].id) = jira.steps[k].text /\ Here(jira.steps[k].id)
BY JiraIs, AtIs DEF JiraText, Here

LEMMA NextTextIs ==
    ASSUME Shapes', NEW s, NEW k \in DOMAIN jira'.steps, jira'.steps[k].id = s
    PROVE  JiraText(s)' = jira'.steps[k].text
<1>1. Listing(jira'.steps, lastRow', born')
  BY DEF Shapes, Remotes
<1>2. At(jira'.steps, s) = k
  BY <1>1, AtIs
<1>. QED
  BY <1>2 DEF JiraText

LEMMA ReplacedText ==
    ASSUME NEW r, r.type # "test_case"
    PROVE  Replaced(r) = IF Here(r.key) THEN JiraText(r.key) ELSE Deleted
BY DEF Replaced, Exists, Here, JiraText

\* What each call does to the texts of the steps.
LEMMA DeleteTexts ==
    ASSUME Shapes, Shapes', NEW r, Exists(r), LandDelete(r), NEW s, Here(s)'
    PROVE  s # r.key /\ Here(s) /\ JiraText(s)' = JiraText(s)
<1>1. PICK i \in DOMAIN jira'.steps : jira'.steps[i].id = s
  BY DEF Here, IdsOf
<1>2. JiraText(s)' = jira'.steps[i].text
  BY <1>1, NextTextIs
<1>3. PICK k \in DOMAIN jira.steps : jira.steps[k].id # r.key /\ jira'.steps[i] = jira.steps[k]
  BY <1>1, LandDeleteIs
<1>. QED
  BY <1>1, <1>2, <1>3, JiraTextIs

LEMMA EditTexts ==
    ASSUME Shapes, Shapes', NEW r, Exists(r), r.after \in Texts, LandEdit(r), NEW s, Here(s)'
    PROVE  Here(s) /\ JiraText(s)' = IF s = r.key THEN r.after ELSE JiraText(s)
<1>1. PICK i \in DOMAIN jira'.steps : jira'.steps[i].id = s
  BY DEF Here, IdsOf
<1>2. JiraText(s)' = jira'.steps[i].text
  BY <1>1, NextTextIs
<1>3. i \in DOMAIN jira.steps /\ jira'.steps[i].id = jira.steps[i].id
      /\ jira'.steps[i].text = IF jira.steps[i].id = r.key THEN r.after ELSE jira.steps[i].text
  BY <1>1, LandEditIs
<1>. QED
  BY <1>1, <1>2, <1>3, JiraTextIs

LEMMA AddTexts ==
    ASSUME Shapes, Shapes', pc = "adds", NEW r \in left, LandAdd(r), NEW s, Here(s)'
    PROVE  \/ s = born + 1 /\ JiraText(s)' = r.after[2]
           \/ s <= born /\ Here(s) /\ JiraText(s)' = JiraText(s)
<1>1. PICK i \in DOMAIN jira'.steps : jira'.steps[i].id = s
  BY DEF Here, IdsOf
<1>2. JiraText(s)' = jira'.steps[i].text
  BY <1>1, NextTextIs
<1>3. /\ jira.steps \in Seq(JiraStep) /\ jira'.steps \in Seq(JiraStep)
      /\ Len(jira'.steps) = Len(jira.steps) + 1
      /\ \A k \in DOMAIN jira.steps : k \in DOMAIN jira'.steps /\ jira'.steps[k] = jira.steps[k]
      /\ jira'.steps[Len(jira.steps) + 1] = [id |-> born + 1, text |-> r.after[2], row |-> r.id]
  <2>1. jira'.steps \in Seq(JiraStep)
    BY DEF Shapes, Remotes, Listing
  <2>. QED BY <2>1, LandAddIs, JiraIs
<1>4. CASE i = Len(jira.steps) + 1
  BY <1>1, <1>2, <1>3, <1>4
<1>5. CASE i \in DOMAIN jira.steps
  BY <1>1, <1>2, <1>3, <1>5, JiraTextIs, JiraIs
<1>. QED
  BY <1>1, <1>3, <1>4, <1>5

LEMMA MoveTexts ==
    ASSUME Shapes, Shapes', pc = "moves", NEW k \in moves, Movable(k), LandMove(k), NEW s, Here(s)'
    PROVE  Here(s) /\ JiraText(s)' = IF s = Mover(k) THEN content[Mover(k)] ELSE JiraText(s)
<1>1. IdsOf(jira'.steps) = IdsOf(jira.steps)
  BY LandMoveIs
<1>2. PICK l \in DOMAIN jira.steps : jira.steps[l].id = s
  BY <1>1 DEF Here, IdsOf
<1>3. PICK e \in DOMAIN jira'.steps :
          jira'.steps[e].id = s /\ jira'.steps[e].text = IF s = Mover(k) THEN content[Mover(k)] ELSE jira.steps[l].text
  BY <1>2, LandMoveIs
<1>4. JiraText(s)' = jira'.steps[e].text
  BY <1>3, NextTextIs
<1>. QED
  BY <1>2, <1>3, <1>4, JiraTextIs

\* A Commit that starts to send has seen what it replaces, and no call of it
\* changes what a later one replaces.
LEMMA NextSendsSeen ==
    Shapes /\ Versions /\ RowsHonest /\ SendsSeen /\ [Next]_vars => SendsSeen'
<1>. SUFFICES ASSUME Shapes, Versions, RowsHonest, SendsSeen, [Next]_vars, Plain',
                     NEW r \in rows', ToSend(r)', Fits(r)'
              PROVE  Accounted(r)'
  BY DEF SendsSeen
<1>0. Shapes' /\ Plain /\ Fits(r) /\ kept \subseteq kept' /\ met \subseteq met'
      /\ pc' \in {"fields", "status", "deletes", "edits"}
  BY NextShapes, NextKept, NextMet, PlainIs DEF ToSend
<1>1. ASSUME ToSend(r), r \in rows, Replaced(r)' \in {Replaced(r), Deleted} PROVE Accounted(r)'
  BY <1>0, <1>1, StillAccounted DEF SendsSeen
<1>2. ASSUME UNCHANGED <<jira, rows, pc, left>> PROVE Accounted(r)'
  BY <1>1, <1>2, ReplacedSame DEF ToSend
<1>3. ASSUME rows' = {} PROVE FALSE
  BY <1>3
<1>4. CASE UNCHANGED vars
  BY <1>2, <1>4 DEF vars, local, commit
<1>5. CASE EditStep
  BY <1>0, <1>5, EditStepIs, PlainIs DEF Still
<1>6. ASSUME NEW d \in pending, DiscardPendingChange(d) PROVE FALSE
  BY <1>0, <1>6, PlainIs DEF Still
<1>7. CASE RefreshSteps \/ SyncTest
  BY <1>2, <1>7, RefreshIs, SyncIs
<1>8. CASE RemoteEdit
  <2>1. pc' = pc /\ (pc \notin {"idle", "check"} => "race" \in met')
    BY <1>8, RemoteEditIs
  <2>. QED BY <1>0, <2>1 DEF Plain, NotMet
<1>9. ASSUME NEW theirs, ResolveConflict(theirs) PROVE FALSE
  BY <1>0, <1>9, ResolveIs, ResolveMet
<1>10. ASSUME NEW selected \in SUBSET pending, CommitChanges(selected) PROVE FALSE
  BY <1>0, <1>10, CommitChangesIs
<1>11. CASE RefusedEnds \/ Fault \/ ClearRows \/ RebaseRest
  BY <1>0, <1>11, EndsAre, LeaveIs
<1>12. ASSUME NEW x \in left, CreateStep(x) PROVE FALSE
  BY <1>0, <1>12, CreatesIs
<1>13. CASE DetectConflicts
  <2>1. rows' = Rest /\ HeldBack = {} /\ jira' = jira
    BY <1>0, <1>13, DetectIs, LeaveIs
  <2>2. Untouched(r) /\ r \in rows
    BY <2>1 DEF HeldBack, Rest
  <2>3. Accounted(r)
    BY <2>2, UntouchedAccounted, ShapeIs
  <2>. QED BY <1>0, <2>1, <2>3, AccountedStays
<1>14. CASE RemoteVersion
  <2>1. /\ pc = "check" /\ UNCHANGED <<jira, rows>> /\ ~ \E q \in rows : q.base < jira.ver
        /\ r \in rows
    BY <1>0, <1>14 DEF RemoteVersion
  <2>2. r.base \in Nat /\ jira.ver \in Nat /\ r.base <= jira.ver
    BY <2>1, ShapeIs, RowIs, JiraIs DEF Versions
  <2>3. r.base = jira.ver
    BY <2>1, <2>2
  <2>4. Accounted(r)
    BY <1>0, <2>1, <2>3 DEF RowsHonest
  <2>. QED BY <1>0, <2>1, <2>4, AccountedStays
<1>15. CASE UpdateIssue
  <2>1. /\ pc = "fields" /\ pc' = "status" /\ rows' = rows /\ (jira' = jira \/ LandFields) /\ left = FieldRows(rows)
    BY <1>15 DEF UpdateIssue, Enter, Sending, Shapes, Phases
  <2>2. ToSend(r) /\ (r.type = "test_case" => r.field = "status")
    BY <2>1 DEF ToSend
  <2>3. jira'.steps = jira.steps
    BY <2>1, LandFieldsIs
  <2>4. CASE r.type # "test_case"
    BY <1>1, <2>1, <2>2, <2>3, <2>4, ReplacedSame
  <2>5. CASE r.type = "test_case"
    <3>1. RowsAt(left, "test_case", TestKey, r.field) = {} /\ r.field \in Fields
      BY <2>1, <2>2, <2>5, ShapeIs DEF RowsAt, FieldRows, OfType, Shape
    <3>2. jira'.field[r.field] = jira.field[r.field]
      BY <2>1, <3>1, LandFieldsIs DEF AfterVal
    <3>3. Replaced(r)' = Replaced(r)
      BY <2>5, <3>2 DEF Replaced
    <3>. QED BY <1>1, <2>1, <2>2, <3>3
  <2>. QED BY <2>4, <2>5
<1>16. CASE ApplyTransition
  <2>1. /\ pc = "status" /\ pc' = "deletes" /\ rows' = rows
        /\ (jira' = jira \/ \E x \in left : LandStatus(x))
    BY <1>16 DEF ApplyTransition, Enter, Sending
  <2>2. ToSend(r) /\ r.type # "test_case"
    BY <2>1 DEF ToSend
  <2>3. jira'.steps = jira.steps
    BY <2>1, LandStatusIs
  <2>. QED BY <1>1, <2>1, <2>2, <2>3, ReplacedSame
<1>17. ASSUME NEW x \in left, RemoteDeleteStep(x) PROVE Accounted(r)'
  <2>1. pc = "deletes" /\ pc' = pc /\ rows' = rows /\ Exists(x) /\ LandDelete(x) /\ left' = left \ {x}
    BY <1>17 DEF RemoteDeleteStep, Sending
  <2>2. ToSend(r) /\ r.type # "test_case"
    BY <2>1 DEF ToSend
  <2>3. Here(r.key)' => Here(r.key) /\ JiraText(r.key)' = JiraText(r.key)
    BY <1>0, <2>1, DeleteTexts
  <2>4. Replaced(r)' = IF Here(r.key)' THEN JiraText(r.key)' ELSE Deleted
    BY <2>2, ReplacedText DEF Replaced, Exists, Here, JiraText
  <2>5. Replaced(r)' \in {Replaced(r), Deleted}
    BY <2>2, <2>3, <2>4, ReplacedText
  <2>. QED BY <1>1, <2>1, <2>2, <2>5
<1>18. ASSUME NEW x \in left, UpdateTestStep(x) PROVE Accounted(r)'
  <2>1. pc = "edits" /\ pc' = pc /\ rows' = rows /\ Exists(x) /\ LandEdit(x) /\ left' = left \ {x}
    BY <1>18 DEF UpdateTestStep, Sending
  <2>2. ToSend(r) /\ r.type = "test_step" /\ r # x
    BY <2>1 DEF ToSend
  <2>3. x.after \in Texts /\ x \in rows /\ x.type = "test_step"
    BY <2>1, LeftIs, TextsIs DEF Shape
  <2>4. r.key # x.key
    <3>1. r.field = "action" /\ x.field = "action" /\ r \in rows
      BY <2>1, <2>2, <2>3, ShapeIs DEF Shape
    <3>. QED BY <2>2, <2>3, <3>1, ShapeIs DEF WellKeyed
  <2>5. Here(r.key)' => Here(r.key) /\ JiraText(r.key)' = JiraText(r.key)
    BY <1>0, <2>1, <2>3, <2>4, EditTexts
  <2>6. Replaced(r)' = IF Here(r.key)' THEN JiraText(r.key)' ELSE Deleted
    BY <2>2, ReplacedText DEF Replaced, Exists, Here, JiraText
  <2>7. Replaced(r)' \in {Replaced(r), Deleted}
    BY <2>2, <2>5, <2>6, ReplacedText
  <2>. QED BY <1>1, <2>1, <2>2, <2>7
<1>19. CASE PhaseDone
  <2>1. pc' \in {"edits", "adds"} /\ UNCHANGED <<rows, jira>> /\ (pc' = "edits" => pc = "deletes")
    BY <1>19 DEF PhaseDone, Enter, Sending
  <2>2. ToSend(r)
    BY <2>1 DEF ToSend
  <2>. QED BY <1>1, <2>1, <2>2, ReplacedSame
<1>20. CASE ReadOrder \/ MoveTestStep \/ MovesDone
  BY <1>0, <1>20 DEF ReadOrder, MoveTestStep, MovesDone
<1>. QED
  BY <1>2, <1>4, <1>5, <1>6, <1>7, <1>8, <1>9, <1>10, <1>11, <1>12, <1>13, <1>14, <1>15, <1>16, <1>17, <1>18, <1>19,
     <1>20, Cases DEF Sends

\* What a Test or a step shows is as good as the rows made on it.
LEMMA MadeAccounted ==
    ASSUME Shapes, RowsHonest, CacheHonest, StepsHonest, Still, Plain, jira' = jira, kept \subseteq kept', test.ver = jira.ver,
           NEW r, Shape(r), Made(r), Fits(r)
    PROVE  Accounted(r)'
<1>1. CASE NewField(r)
  <2>1. r.type = "test_case" /\ r.key = TestKey /\ r.field \in Fields
    BY <1>1 DEF NewField, Shape
  <2>2. test.field[r.field] = jira.field[r.field] \/ Kept("test_case", TestKey, r.field, jira.field[r.field])
    BY <1>1, <2>1 DEF NewField, CacheHonest, Fits, IsStepRow
  <2>3. Accounted(r)
    BY <1>1, <2>1, <2>2 DEF Accounted, Replaced, NewField, Kept
  <2>. QED BY <2>3, AccountedStays
<1>2. ASSUME NewText(r) \/ NewDelete(r)
      PROVE  StepPlain /\ TextsHonest /\ EditsHonest /\ r.type # "test_case" /\ \A p \in pending : ~ SentEdit(p)
  <2>1. r.type # "test_case"
    BY <1>2 DEF NewText, NewDelete
  <2>2. StepPlain
    BY <2>1 DEF Fits, IsStepRow, StepPlain
  <2>. QED BY <2>1, <2>2 DEF StepsHonest, Still, SentEdit
<1>3. CASE NewText(r)
  <2>1. Here(r.key) => JiraText(r.key) = r.before
    BY <1>2, <1>3 DEF NewText, TextsHonest
  <2>2. Accounted(r)
    BY <1>2, <1>3, <2>1, ReplacedText DEF Accounted, NewText
  <2>. QED BY <2>2, AccountedStays
<1>4. CASE NewDelete(r)
  <2>1. r.type = "test_step_delete" /\ r.field = "step" /\ r.before[2] = steps[r.key].text
    BY <1>4 DEF NewDelete
  <2>2. Replaced(r)' = Replaced(r) /\ Replaced(r) = IF Here(r.key) THEN JiraText(r.key) ELSE Deleted
    BY <2>1, ReplacedSame, ReplacedText
  <2>3. CASE ~ Here(r.key)
    BY <2>2, <2>3 DEF Accounted
  <2>4. CASE Here(r.key) /\ \A p \in pending : ~ About(p, r.key)
    <3>1. JiraText(r.key) = r.before[2]
      BY <1>2, <1>4, <2>1, <2>4 DEF TextsHonest, NewDelete
    <3>. QED BY <2>1, <2>2, <2>4, <3>1 DEF Accounted
  <2>5. ASSUME Here(r.key), NEW p \in pending, About(p, r.key) PROVE Accounted(r)'
    <3>1. JiraText(r.key) = p.before
      BY <1>2, <1>4, <2>5 DEF EditsHonest, About
    <3>2. [type |-> "test_step_delete", key |-> r.key, field |-> "step", value |-> p.before] \in kept'
      BY <1>4, <2>5 DEF NewDelete
    <3>. QED BY <2>1, <2>2, <2>5, <3>1, <3>2 DEF Accounted
  <2>. QED BY <2>3, <2>4, <2>5
<1>5. CASE NewOther(r)
  <2>1. Accounted(r)
    BY <1>5, NothingReplaced DEF NewOther
  <2>. QED BY <2>1, AccountedStays
<1>. QED
  BY <1>1, <1>3, <1>4, <1>5 DEF Made

\* A row that is kept against what the conflict showed accounts for that.
LEMMA ResolvedAccounted ==
    ASSUME Shapes, ConflictNow, Plain, jira' = jira, kept \subseteq kept', conflict # None, conflict.ver = jira.ver,
           NEW theirs, ResolveConflict(theirs), NEW q \in pending, q.id \notin theirs
    PROVE  Accounted(q)'
<1>1. CASE Accounted(q)
  BY <1>1, AccountedStays
<1>2. CASE ~ Accounted(q)
  <2>1. PICK c \in conflict.held : c.row = q
    BY <1>2 DEF ConflictNow
  <2>2. c.remote = Remote(q)
    BY <2>1 DEF ConflictNow
  <2>3. q.type \in {"test_case", "test_step", "test_step_delete"} /\ Shape(q)
    BY <1>2, ShapeIs, RowIs, NothingReplaced DEF Types
  <2>4. Replaced(q) # Deleted /\ Facing(q.type, Remote(q)) = Replaced(q)
    BY <1>2, <2>3, FacingIs DEF Accounted
  <2>5. [type |-> q.type, key |-> q.key, field |-> q.field, value |-> Replaced(q)] \in kept'
    <3>1. kept' = kept \cup {[type |-> d.row.type, key |-> d.row.key, field |-> d.row.field,
                              value |-> Facing(d.row.type, d.remote)] : d \in {e \in conflict.held : e.row.id \notin theirs}}
      BY DEF ResolveConflict, Resolve
    <3>. QED BY <2>1, <2>2, <2>4, <3>1
  <2>6. Replaced(q)' = Replaced(q)
    BY ReplacedSame
  <2>. QED BY <2>5, <2>6 DEF Accounted
<1>. QED
  BY <1>1, <1>2

LEMMA DetectAccounted ==
    ASSUME Shapes, RowsPend, PassHasAll, Plain, pc = "scan", HeldBack = {}, NEW r \in Open
    PROVE  Accounted(r)
<1>1. PICK q \in Rest : Same(q, r)
  BY OpenRows
<1>2. q \in rows /\ Untouched(q)
  BY DEF HeldBack, Rest
<1>3. Accounted(q)
  BY <1>2, UntouchedAccounted, ShapeIs
<1>. QED
  BY <1>1, <1>3 DEF Same, Accounted, Replaced, Exists

LEMMA NextRowsHonest ==
    /\ Shapes /\ RowsPend /\ Versions /\ SelectedIs /\ PassHasAll
    /\ RowsHonest /\ CacheHonest /\ StepsHonest /\ ConflictNow /\ [Next]_vars
    => RowsHonest'
<1>. SUFFICES ASSUME Shapes, RowsPend, Versions, SelectedIs, PassHasAll,
                     RowsHonest, CacheHonest, StepsHonest, ConflictNow, [Next]_vars,
                     Plain', NEW r, r \in pending' \/ (pc' = "check" /\ r \in rows'), Fits(r)', r.base = jira'.ver
              PROVE  Accounted(r)'
  BY DEF RowsHonest
<1>0. /\ Plain /\ kept \subseteq kept' /\ met \subseteq met' /\ Fits(r) /\ jira.ver \in Nat
      /\ \A q \in pending \cup rows : q.base \in Nat /\ q.base <= jira.ver
      /\ test.ver \in Nat /\ test.ver <= jira.ver
  BY PlainIs, NextKept, NextMet, JiraIs, ShapeIs, RowIs, CacheIs DEF Versions
<1>1. jira' = jira
  <2>1. CASE jira' # jira
    <3>1. jira'.ver = jira.ver + 1 /\ pending' = pending /\ rows' \subseteq rows
      BY <2>1, NextJira, NextWrite
    <3>. QED BY <1>0, <3>1
  <2>. QED BY <2>1
<1>2. ASSUME NEW q \in pending, q.type = r.type, q.key = r.key, q.field = r.field, q.before = r.before, q.base = r.base
      PROVE  Accounted(r)'
  <2>1. Fits(q)
    BY <1>0, <1>2 DEF Fits, IsStepRow
  <2>2. Accounted(q)
    BY <1>0, <1>1, <1>2, <2>1 DEF RowsHonest
  <2>. QED BY <1>0, <1>1, <1>2, <2>2, AccountedStays
<1>3. ASSUME pending' \subseteq pending, rows' \subseteq pending \/ pc' # "check" \/ (pc = "check" /\ rows' = rows)
      PROVE  Accounted(r)'
  <2>1. CASE r \in pending
    BY <1>2, <2>1
  <2>2. CASE r \in rows /\ pc = "check"
    <3>1. Accounted(r)
      BY <1>0, <1>1, <2>2 DEF RowsHonest
    <3>. QED BY <1>0, <1>1, <3>1, AccountedStays
  <2>. QED BY <1>3, <2>1, <2>2
<1>4. CASE UNCHANGED vars
  BY <1>3, <1>4 DEF vars, local, commit
<1>5. CASE EditStep
  <2>1. Still /\ r \in pending'
    BY <1>5, EditStepIs, PlainIs DEF Still
  <2>2. CASE Keeps(r)
    <3>1. PICK q \in pending : From(q, r)
      BY <2>2 DEF Keeps
    <3>2. CASE r.type = "test_step_order"
      <4>1. Shape(r)
        BY <2>1, NextShapes DEF Shapes, Table
      <4>2. Accounted(r)
        BY <3>2, <4>1, NothingReplaced
      <4>. QED BY <1>0, <1>1, <4>2, AccountedStays
    <3>3. CASE r.type # "test_step_order"
      BY <1>2, <3>1, <3>3 DEF From
    <3>. QED BY <3>2, <3>3
  <2>3. CASE Made(r)
    <3>1. Shape(r)
      BY <2>1, NextShapes DEF Shapes, Table
    <3>2. test.ver = jira.ver
      BY <1>1, <2>3 DEF Made
    <3>. QED BY <1>0, <1>1, <2>1, <2>3, <3>1, <3>2, MadeAccounted
  <2>. QED BY <1>5, <2>1, <2>2, <2>3, EditFacts
<1>6. ASSUME NEW d \in pending, DiscardPendingChange(d) PROVE Accounted(r)'
  <2>1. Still /\ pending' = Delete(pending, {d.id})
    BY <1>6, PlainIs, DiscardIs
  <2>. QED BY <1>3, <2>1, DeleteIs DEF Still
<1>7. CASE RefreshSteps \/ SyncTest \/ RemoteEdit
  BY <1>3, <1>7, RefreshIs, SyncIs, RemoteEditIs
<1>8. ASSUME NEW theirs, ResolveConflict(theirs) PROVE Accounted(r)'
  <2>1. pc' = "idle" /\ conflict # None
    BY <1>8, ResolveIs, ResolveMet
  <2>2. PICK q \in pending : Same(q, r) /\ q.id \notin theirs /\ r.base = conflict.ver
    BY <1>8, <2>1, ResolvedRows
  <2>3. Accounted(q)'
    BY <1>0, <1>1, <1>8, <2>1, <2>2, ResolvedAccounted
  <2>. QED BY <2>2, <2>3 DEF Same, Accounted, Replaced, Exists
<1>9. ASSUME NEW selected \in SUBSET pending, CommitChanges(selected) PROVE Accounted(r)'
  BY <1>3, <1>9, CommitChangesIs
<1>10. CASE Sends \/ RefusedEnds \/ Fault
  BY <1>3, <1>10, SendsIs, EndsAre, LeaveIs
<1>11. ASSUME NEW x \in left, CreateStep(x) PROVE Accounted(r)'
  BY <1>3, <1>11, CreatesIs
<1>12. CASE ClearRows
  BY <1>3, <1>12, EndsAre, DeleteIs
<1>13. CASE RebaseRest
  BY <1>0, <1>13, EndsAre DEF SelectedIs, Plain, NotMet
<1>14. CASE DetectConflicts
  <2>1. pc = "scan" /\ pc' # "check"
    BY <1>14, DetectIs, LeaveIs
  <2>2. CASE pending' = Open
    BY <1>3, <2>1, <2>2, DeleteIs DEF Open
  <2>3. CASE pending' # Open
    <3>1. HeldBack = {} /\ pending' = Rebased(Open, version) /\ r \in pending'
      BY <1>14, <2>1, <2>3, DetectIs
    <3>2. Table(Open, lastRow, born) /\ version \in Nat
      BY TableSubset, DeleteIs DEF Open, Shapes
    <3>3. PICK q \in Open : Same(q, r)
      BY <3>1, <3>2, RebasedSame
    <3>4. Accounted(q)
      BY <1>0, <2>1, <3>1, <3>3, DetectAccounted
    <3>. QED BY <1>0, <1>1, <3>3, <3>4, AccountedStays DEF Same
  <2>. QED BY <2>2, <2>3
<1>. QED
  BY <1>4, <1>5, <1>6, <1>7, <1>8, <1>9, <1>10, <1>11, <1>12, <1>13, <1>14, Cases

\* The rows of fields under an edit: it touches those of its own field, and
\* the last of them goes when the text it was made on is written back.
LEMMA UpsertGone ==
    ASSUME NEW j, \A r \in j : r \in Row, NEW id, NEW type, NEW key, NEW field, NEW current, NEW value, NEW base,
           RowsAt(Upsert(j, id, type, key, field, current, value, base), type, key, field) = {}
    PROVE  \E q \in RowsAt(j, type, key, field) :
               q.before = value /\ q \notin Upsert(j, id, type, key, field, current, value, base)
<1>. DEFINE old == RowsAt(j, type, key, field)
            new == Upsert(j, id, type, key, field, current, value, base)
            p == [id |-> id, type |-> type, key |-> key, field |-> field,
                  before |-> current, after |-> value, base |-> base]
<1>1. CASE old = {}
  <2>1. p \in new
    BY <1>1 DEF Upsert, Inserted
  <2>2. p \in RowsAt(new, type, key, field)
    BY <2>1, AtPlace
  <2>. QED BY <2>2
<1>2. CASE \E q \in old : q.before = value
  <2>1. PICK q \in old : q.before = value
    BY <1>2
  <2>2. new = j \ old
    BY <1>2 DEF Upsert
  <2>. QED BY <2>1, <2>2
<1>3. CASE old # {} /\ ~ \E q \in old : q.before = value
  <2>1. new = Overwritten(j, old, value)
    BY <1>3 DEF Upsert
  <2>2. PICK q \in old : TRUE
    BY <1>3
  <2>3. q \in Row /\ q.type = type /\ q.key = key /\ q.field = field
    BY <2>2, AtPlace
  <2>4. PICK r \in new : r = [q EXCEPT !.after = value]
    BY <2>1, <2>2 DEF Overwritten
  <2>5. r.type = type /\ r.key = key /\ r.field = field
    BY <2>3, <2>4 DEF Row, PendingChange
  <2>6. r \in RowsAt(new, type, key, field)
    BY <2>4, <2>5, AtPlace
  <2>. QED BY <2>6
<1>. QED
  BY <1>1, <1>2, <1>3

LEMMA FieldReturned ==
    ASSUME Shapes, NEW f \in Fields, NEW v \in Mine, EditTestField(f, v), RowsAt(pending', "test_case", TestKey, f) = {}
    PROVE  \E q \in pending : q.type = "test_case" /\ q.key = TestKey /\ q.field = f /\ q.before = v /\ q \in Dropped
<1>1. pending' = Upsert(pending, lastRow + 1, "test_case", TestKey, f, test.field[f], v, test.ver)
  BY EditTestFieldIs DEF Queue
<1>2. \A r \in pending : r \in Row
  BY ShapeIs DEF Shape
<1>3. PICK q \in RowsAt(pending, "test_case", TestKey, f) : q.before = v /\ q \notin pending'
  BY <1>1, <1>2, UpsertGone
<1>4. q \in pending /\ q.type = "test_case" /\ q.key = TestKey /\ q.field = f
  BY <1>3, AtPlace
<1>5. ASSUME NEW p \in pending', p.id = q.id PROVE FALSE
  <2>1. p \in pending /\ ~ (p.type = "test_case" /\ p.key = TestKey /\ p.field = f)
    <3>1. ~ (p.type = "test_case" /\ p.key = TestKey /\ p.field = f)
      BY <1>5, AtPlace
    <3>. QED BY <3>1, EditTestFieldIs, QueuedRow
  <2>. QED BY <1>4, <1>5, <2>1, ShapeIs
<1>. QED
  BY <1>3, <1>4, <1>5 DEF Dropped

LEMMA FoldKeeps ==
    ASSUME NEW j, NEW s, NEW v, NEW q \in j, q.type # "test_step_add"
    PROVE  q \in Folded(j, s, v)
<1>1. FoldedRow(q, j, s, v) = q
  BY AtPlace DEF FoldedRow
<1>. QED
  BY <1>1 DEF Folded

\* Which rows an edit leaves alone.
LEMMA EditKeeps ==
    ASSUME Shapes, EditStep, NEW q \in pending, q.type \in {"test_case", "test_step"}
    PROVE  \/ q \in pending'
           \/ \E f \in Fields, v \in Mine : EditTestField(f, v) /\ q.type = "test_case" /\ q.field = f
           \/ \E s \in DOMAIN steps, v \in Mine : EditTestStepField(s, v) /\ About(q, s)
                 /\ Queue(pending, "test_step", s, "action", steps[s].text, v)
           \/ \E s \in DOMAIN steps : DeleteTestStep(s) /\ About(q, s)
<1>1. ASSUME NEW f \in Fields, NEW v \in Mine, EditTestField(f, v)
      PROVE  q \in pending' \/ (q.type = "test_case" /\ q.field = f)
  BY <1>1, EditTestFieldIs, QueueKeeps
<1>2. ASSUME NEW s \in DOMAIN steps, NEW v \in Mine, EditTestStepField(s, v)
      PROVE  q \in pending' \/ (About(q, s) /\ Queue(pending, "test_step", s, "action", steps[s].text, v))
  <2>1. CASE pending' = Folded(pending, s, v)
    BY <2>1, FoldKeeps
  <2>2. CASE Queue(pending, "test_step", s, "action", steps[s].text, v)
    BY <2>2, QueueKeeps DEF About
  <2>. QED BY <1>2, <2>1, <2>2, EditTestStepFieldIs
<1>3. ASSUME NEW t \in Mine \cup {Blank}, AddTestStep(t) PROVE q \in pending'
  <2>1. Queue(pending, "test_step_add", NextTempStepID, "step", Blank, <<NextIdx, t>>)
    BY <1>3, AddTestStepIs
  <2>. QED BY <2>1, QueueKeeps
<1>4. ASSUME NEW s \in DOMAIN steps, DeleteTestStep(s) PROVE q \in pending' \/ About(q, s)
  <2>1. CASE pending' = Pruned(pending \ AddRow(s), s)
    <3>1. q \in pending \ AddRow(s)
      BY AddRowIs DEF Adds
    <3>2. Table(pending \ AddRow(s), lastRow, born)
      BY TableSubset DEF Shapes
    <3>. QED BY <2>1, <3>1, <3>2, PrunedIs
  <2>2. CASE Queue({r \in pending : r.type # "test_step" \/ r.key # s},
                   "test_step_delete", s, "step", <<steps[s].idx, steps[s].text>>, Blank)
    BY <2>2, QueueKeeps DEF About
  <2>. QED BY <1>4, <2>1, <2>2, DeleteTestStepIs
<1>5. ASSUME NEW i \in 1..Cardinality(DOMAIN steps), ReorderTestSteps(i) PROVE q \in pending'
  <2>1. PICK x, y : Queue(pending, "test_step_order", TestKey, "order", x, y)
    BY <1>5, ReorderTestStepsIs
  <2>. QED BY <2>1, QueueKeeps
<1>. QED
  BY <1>1, <1>2, <1>3, <1>4, <1>5 DEF EditStep

LEMMA EditFields ==
    ASSUME Shapes, EditStep
    PROVE  \/ \E f \in Fields, v \in Mine : EditTestField(f, v)
           \/ test' = test /\ \A q \in pending : q.type = "test_case" => q \in pending'
<1>1. ASSUME ~ \E f \in Fields, v \in Mine : EditTestField(f, v) PROVE test' = test
  BY <1>1, EditTestStepFieldIs, AddTestStepIs, DeleteTestStepIs, ReorderTestStepsIs DEF EditStep
<1>. QED
  BY <1>1, EditKeeps DEF About

GoodField(f) == test.field[f] = jira.field[f] \/ Kept("test_case", TestKey, f, jira.field[f])

\* A row that leaves the journal leaves its field as Jira has it.
LEMMA BackField ==
    ASSUME Shapes, Versions, RowsHonest, FieldsLive, Plain, NotMet({"undone"}), test.ver = jira.ver,
           NEW q \in pending, q.type = "test_case", q.base >= test.ver
    PROVE  q.before = jira.field[q.field] \/ Kept("test_case", TestKey, q.field, jira.field[q.field])
<1>1. q.base = jira.ver
  BY ShapeIs, RowIs, JiraIs DEF Versions
<1>2. q.key = TestKey /\ q.field \in Fields
  BY ShapeIs DEF Shape
<1>3. Accounted(q)
  BY <1>1 DEF RowsHonest, Fits, IsStepRow
<1>4. Replaced(q) = jira.field[q.field] /\ Replaced(q) # Deleted
  BY <1>2 DEF Replaced, FieldsLive
<1>. QED
  BY <1>2, <1>3, <1>4 DEF Accounted, Kept

LEMMA TestFields ==
    ASSUME Shapes, NEW f \in Fields, NEW v
    PROVE  LET t == [test EXCEPT !.field[f] = v]
           IN  t.ver = test.ver /\ \A e \in Fields : t.field[e] = IF e = f THEN v ELSE test.field[e]
BY CacheIs

LEMMA ResolvedField ==
    ASSUME Shapes, NEW theirs, ResolveConflict(theirs), NEW f \in Fields
    PROVE  /\ test'.ver = test.ver
           /\ IF FieldOf(theirs, f) = {} THEN test'.field[f] = test.field[f]
              ELSE \E c \in FieldOf(theirs, f) : test'.field[f] = c.remote
<1>1. test' = [test EXCEPT !.field = [e \in Fields |->
                          IF FieldOf(theirs, e) # {} THEN (CHOOSE c \in FieldOf(theirs, e) : TRUE).remote ELSE @[e]]]
  BY ResolveIs
<1>2. test'.ver = test.ver /\ test'.field[f] =
          IF FieldOf(theirs, f) # {} THEN (CHOOSE c \in FieldOf(theirs, f) : TRUE).remote ELSE test.field[f]
  BY <1>1, CacheIs
<1>. QED
  BY <1>2

LEMMA NextCacheHonest ==
    /\ Shapes /\ RowsPend /\ HeldPends /\ FieldsShown /\ Versions /\ SelectedIs /\ PassHasAll /\ FieldsLive
    /\ RowsHonest /\ CacheHonest /\ SentWritten /\ ConflictNow /\ [Next]_vars
    => CacheHonest'
<1>. SUFFICES ASSUME Shapes, RowsPend, HeldPends, FieldsShown, Versions, SelectedIs, PassHasAll, FieldsLive,
                     RowsHonest, CacheHonest, SentWritten, ConflictNow, [Next]_vars,
                     Plain', NotMet({"undone"})', test'.ver = jira'.ver, NEW f \in Fields,
                     RowsAt(pending', "test_case", TestKey, f) = {}
              PROVE  GoodField(f)'
  BY DEF CacheHonest, GoodField
<1>0. /\ Plain /\ kept \subseteq kept' /\ met \subseteq met' /\ NotMet({"undone"}) /\ "undone" \notin met'
      /\ jira.ver \in Nat /\ test.ver \in Nat /\ test.ver <= jira.ver /\ "onscreen" \notin met
  BY PlainIs, NextKept, NextMet, JiraIs, CacheIs DEF Versions, NotMet
<1>1. jira' = jira
  <2>1. CASE jira' # jira
    <3>1. jira'.ver = jira.ver + 1 /\ test' = test
      BY <2>1, NextJira, NextWrite
    <3>. QED BY <1>0, <3>1
  <2>. QED BY <2>1
<1>2. ASSUME test'.field[f] = test.field[f], GoodField(f) PROVE GoodField(f)'
  BY <1>0, <1>1, <1>2 DEF GoodField, Kept
<1>3. ASSUME test.ver = jira.ver, RowsAt(pending, "test_case", TestKey, f) = {} PROVE GoodField(f)
  BY <1>0, <1>3 DEF CacheHonest, GoodField
<1>4. ASSUME test' = test, \A q \in pending : q.type = "test_case" => q \in pending' PROVE GoodField(f)'
  <2>1. RowsAt(pending, "test_case", TestKey, f) = {}
    BY <1>4, AtPlace
  <2>. QED BY <1>1, <1>2, <1>3, <1>4, <2>1
<1>5. CASE UNCHANGED vars
  BY <1>4, <1>5 DEF vars, local
<1>6. ASSUME NEW q \in pending, q.type = "test_case", q.field = f, q.base >= test.ver, test.ver = jira.ver,
             test'.field[f] = q.before
      PROVE  GoodField(f)'
  <2>1. q.before = jira.field[f] \/ Kept("test_case", TestKey, f, jira.field[f])
    BY <1>0, <1>6, BackField
  <2>. QED BY <1>0, <1>1, <1>6, <2>1 DEF GoodField, Kept
<1>7. ASSUME NEW e \in Fields, NEW v \in Mine, EditTestField(e, v) PROVE GoodField(f)'
  <2>0. test'.ver = test.ver /\ test'.field[f] = IF f = e THEN v ELSE test.field[f]
    <3>1. test' = [test EXCEPT !.field[e] = v]
      BY <1>7, EditTestFieldIs
    <3>. QED BY <3>1, TestFields
  <2>1. CASE f = e
    <3>1. PICK q \in pending : q.type = "test_case" /\ q.key = TestKey /\ q.field = f /\ q.before = v /\ q \in Dropped
      BY <1>7, <2>1, FieldReturned
    <3>2. "undone" \notin TakenBack(Dropped)
      BY <1>0, <1>7, EditTestFieldIs, EditIs
    <3>3. ~ (q.base < test.ver)
      BY <3>1, <3>2 DEF TakenBack
    <3>4. q.base >= test.ver
      BY <1>0, <3>1, <3>3, ShapeIs, RowIs
    <3>. QED BY <1>1, <1>6, <2>0, <2>1, <3>1, <3>4
  <2>2. CASE f # e
    <3>1. RowsAt(pending, "test_case", TestKey, f) = {}
      <4>1. ASSUME NEW q \in RowsAt(pending, "test_case", TestKey, f) PROVE FALSE
        <5>1. q \in pending /\ q.type = "test_case" /\ q.key = TestKey /\ q.field = f
          BY <4>1, AtPlace
        <5>2. q \in pending'
          BY <1>7, <2>2, <5>1, EditTestFieldIs, QueueKeeps
        <5>. QED BY <5>1, <5>2, AtPlace
      <4>. QED BY <4>1
    <3>. QED BY <1>1, <1>2, <1>3, <2>0, <2>2, <3>1
  <2>. QED BY <2>1, <2>2
<1>8. CASE EditStep
  BY <1>4, <1>7, <1>8, EditFields
<1>9. ASSUME NEW d \in pending, DiscardPendingChange(d) PROVE GoodField(f)'
  <2>0. /\ pending' = Delete(pending, {d.id})
        /\ test' = IF d.type = "test_case" THEN [test EXCEPT !.field[d.field] = d.before] ELSE test
        /\ "undone" \notin TakenBack({d})
    BY <1>0, <1>9, DiscardIs DEF DiscardPendingChange, Act
  <2>1. CASE d.type = "test_case" /\ d.field = f
    <3>1. test'.ver = test.ver /\ test'.field[f] = d.before
      BY <2>0, <2>1, TestFields
    <3>2. ~ (d.base < test.ver)
      BY <2>0, <2>1 DEF TakenBack
    <3>3. d.base >= test.ver
      BY <1>0, <3>2, ShapeIs, RowIs
    <3>. QED BY <1>1, <1>6, <2>1, <3>1, <3>3
  <2>2. CASE d.type = "test_case" => d.field # f
    <3>1. RowsAt(pending, "test_case", TestKey, f) = {}
      <4>1. ASSUME NEW q \in RowsAt(pending, "test_case", TestKey, f) PROVE FALSE
        <5>1. q \in pending /\ q.type = "test_case" /\ q.key = TestKey /\ q.field = f
          BY <4>1, AtPlace
        <5>2. q.id # d.id
          BY <2>2, <5>1, ShapeIs
        <5>. QED BY <2>0, <5>1, <5>2, AtPlace DEF Delete
      <4>. QED BY <4>1
    <3>2. test'.ver = test.ver /\ test'.field[f] = test.field[f]
      <4>1. CASE d.type = "test_case"
        <5>1. d.field \in Fields
          BY <4>1, ShapeIs DEF Shape
        <5>. QED BY <2>0, <2>2, <4>1, <5>1, TestFields
      <4>. QED BY <2>0, <4>1
    <3>. QED BY <1>1, <1>2, <1>3, <3>1, <3>2
  <2>. QED BY <2>1, <2>2
<1>10. CASE RefreshSteps \/ RemoteEdit \/ Sends \/ RefusedEnds \/ Fault
  BY <1>4, <1>10, RefreshIs, RemoteEditIs, SendsIs, EndsAre
<1>11. CASE SyncTest
  <2>1. pending' = pending /\ test'.field[f] = jira.field[f]
    BY <1>11, SyncIs DEF Synced
  <2>. QED BY <1>1, <2>1 DEF GoodField
<1>12. ASSUME NEW theirs, ResolveConflict(theirs) PROVE GoodField(f)'
  <2>0. /\ test'.ver = test.ver /\ conflict # None /\ conflict.ver \in Nat /\ conflict.ver <= jira.ver
        /\ \A c \in conflict.held : c.row \in pending
        /\ theirs # {} => conflict.ver >= test.ver
    <3>1. test'.ver = test.ver /\ conflict # None
      BY <1>12, ResolvedField, ResolveIs
    <3>2. conflict.ver \in Nat /\ conflict.ver <= jira.ver
      BY <3>1 DEF Versions, Shapes, Conflicting
    <3>3. theirs # {} => ~ (conflict.ver < test.ver)
      BY <1>0, <1>12, ResolveMet
    <3>. QED BY <1>0, <3>1, <3>2, <3>3 DEF HeldPends, NotMet
  <2>1. CASE FieldOf(theirs, f) = {}
    <3>1. RowsAt(pending, "test_case", TestKey, f) = {}
      <4>1. ASSUME NEW q \in RowsAt(pending, "test_case", TestKey, f) PROVE FALSE
        <5>1. q \in pending /\ q.type = "test_case" /\ q.key = TestKey /\ q.field = f
          BY <4>1, AtPlace
        <5>2. CASE q.id \notin theirs
          <6>1. PICK r \in pending' : Same(q, r)
            BY <1>12, <5>1, <5>2, ResolvedRows
          <6>. QED BY <5>1, <6>1, AtPlace DEF Same
        <5>3. CASE q.id \in theirs
          <6>1. PICK c \in conflict.held : c.row.id = q.id
            BY <1>12, <5>3, ResolveIs
          <6>2. c.row = q
            BY <2>0, <5>1, <6>1, ShapeIs
          <6>3. c \in FieldOf(theirs, f)
            BY <5>1, <5>3, <6>1, <6>2 DEF FieldOf, Taken
          <6>. QED BY <2>1, <6>3
        <5>. QED BY <5>2, <5>3
      <4>. QED BY <4>1
    <3>2. test'.field[f] = test.field[f]
      BY <1>12, <2>1, ResolvedField
    <3>. QED BY <1>1, <1>2, <1>3, <2>0, <3>1, <3>2
  <2>2. CASE FieldOf(theirs, f) # {}
    <3>1. PICK c \in FieldOf(theirs, f) : test'.field[f] = c.remote
      BY <1>12, <2>2, ResolvedField
    <3>2. c \in conflict.held /\ c.row.id \in theirs /\ c.row.type = "test_case" /\ c.row.field = f
      BY <3>1 DEF FieldOf, Taken
    <3>3. conflict.ver = jira.ver
      BY <1>0, <1>1, <2>0, <3>2
    <3>4. c.remote = jira.field[f]
      BY <1>0, <2>0, <3>2, <3>3 DEF ConflictNow, Remote
    <3>. QED BY <1>1, <3>1, <3>4 DEF GoodField
  <2>. QED BY <2>1, <2>2
<1>13. ASSUME NEW selected \in SUBSET pending, CommitChanges(selected) PROVE GoodField(f)'
  BY <1>4, <1>13, CommitChangesIs
<1>14. ASSUME NEW x \in left, CreateStep(x) PROVE GoodField(f)'
  BY <1>4, <1>14, CreatesIs
<1>15. CASE ClearRows
  <2>0. pc = "clear" /\ test' = test
    BY <1>15, EndsAre
  <2>1. RowsAt(pending, "test_case", TestKey, f) = {}
    <3>1. ASSUME NEW q \in RowsAt(pending, "test_case", TestKey, f) PROVE FALSE
      <4>1. q \in pending /\ q.type = "test_case"
        BY <3>1, AtPlace
      <4>2. PICK r \in rows : Same(r, q)
        BY <1>0, <2>0, <4>1, PassRows
      <4>3. SentField(r)
        BY <2>0, <4>1, <4>2 DEF Same, SentField
      <4>. QED BY <1>0, <1>1, <2>0, <4>3 DEF SentWritten
    <3>. QED BY <3>1
  <2>. QED BY <1>1, <1>2, <1>3, <2>0, <2>1
<1>16. CASE RebaseRest
  BY <1>0, <1>16, EndsAre DEF SelectedIs, Plain, NotMet
<1>17. CASE DetectConflicts
  <2>0. pc = "scan" /\ test' = test /\ (pending' = Open \/ pending' = Rebased(Open, version))
    BY <1>17, DetectIs
  <2>1. CASE RowsAt(pending, "test_case", TestKey, f) = {}
    BY <1>1, <1>2, <1>3, <2>0, <2>1
  <2>2. ASSUME NEW q \in RowsAt(pending, "test_case", TestKey, f) PROVE GoodField(f)'
    <3>1. q \in pending /\ q.type = "test_case" /\ q.key = TestKey /\ q.field = f
      BY <2>2, AtPlace
    <3>2. q \notin Open
      <4>1. CASE pending' = Open
        BY <3>1, <4>1, AtPlace
      <4>2. CASE pending' = Rebased(Open, version) /\ q \in Open
        <5>1. Table(Open, lastRow, born) /\ version \in Nat
          BY TableSubset, DeleteIs DEF Open, Shapes
        <5>2. PICK r \in pending' : Same(q, r)
          BY <4>2, <5>1, RebasedSame
        <5>. QED BY <3>1, <5>2, AtPlace DEF Same
      <4>. QED BY <2>0, <4>1, <4>2
    <3>3. PICK r \in There : r.id = q.id
      BY <3>1, <3>2 DEF Open, Delete
    <3>4. r \in rows /\ AlreadyThere(r)
      BY <3>3 DEF There
    <3>5. PICK p \in pending : Same(p, r)
      BY <1>0, <2>0, <3>4 DEF RowsPend, Plain, NotMet
    <3>6. p = q
      BY <3>1, <3>3, <3>5, ShapeIs DEF Same
    <3>7. jira.field[f] = q.after
      BY <3>1, <3>4, <3>5, <3>6 DEF Same, AlreadyThere, Remote
    <3>8. test.field[f] = q.after
      BY <1>0, <3>1 DEF FieldsShown, NotMet, IsStepRow
    <3>. QED BY <1>1, <2>0, <3>7, <3>8 DEF GoodField
  <2>. QED BY <2>1, <2>2
<1>. QED
  BY <1>5, <1>8, <1>9, <1>10, <1>11, <1>12, <1>13, <1>14, <1>15, <1>16, <1>17, Cases

\* What the cache, the journal and the screen know of the texts in Jira stays
\* true where neither changes.
Fine == TextsHonest /\ EditsHonest /\ DeletesHonest /\ HeldHonest
JiraKept == \A s : Here(s)' => Here(s) /\ JiraText(s)' = JiraText(s)

LEMMA SameJira ==
    ASSUME jira'.steps = jira.steps
    PROVE  JiraKept
BY DEF JiraKept, Here, JiraText

LEMMA TextsKept ==
    ASSUME TextsHonest, JiraKept, DOMAIN steps' \subseteq DOMAIN steps, \A s \in DOMAIN steps' : steps'[s].text = steps[s].text,
           \A p \in pending : p.type = "test_step" => (p.key \in DOMAIN steps' => \E r \in pending' : Same(p, r))
    PROVE  TextsHonest'
<1>. SUFFICES ASSUME NEW s \in DOMAIN steps', Here(s)', \A p \in pending' : ~ About(p, s)
              PROVE  steps'[s].text = JiraText(s)'
  BY DEF TextsHonest, About
<1>1. Here(s) /\ JiraText(s)' = JiraText(s)
  BY DEF JiraKept
<1>2. ASSUME NEW p \in pending, About(p, s) PROVE FALSE
  BY <1>2 DEF About, Same
<1>. QED
  BY <1>1, <1>2 DEF TextsHonest

LEMMA EditsKept ==
    ASSUME EditsHonest, JiraKept,
           \A r \in pending' : r.type = "test_step" => \E q \in pending :
              /\ q.type = r.type /\ q.key = r.key /\ q.before = r.before
              /\ (SentEdit(r)' <=> SentEdit(q)) /\ (SentEdit(q) => q.after = r.after)
    PROVE  EditsHonest'
<1>. SUFFICES ASSUME NEW r \in pending', r.type = "test_step", Here(r.key)'
              PROVE  JiraText(r.key)' = IF SentEdit(r)' THEN r.after ELSE r.before
  BY DEF EditsHonest
<1>1. PICK q \in pending :
              /\ q.type = r.type /\ q.key = r.key /\ q.before = r.before
              /\ (SentEdit(r)' <=> SentEdit(q)) /\ (SentEdit(q) => q.after = r.after)
  OBVIOUS
<1>2. Here(r.key) /\ JiraText(r.key)' = JiraText(r.key)
  BY DEF JiraKept
<1>3. JiraText(r.key) = IF SentEdit(q) THEN q.after ELSE q.before
  BY <1>1, <1>2 DEF EditsHonest
<1>. QED
  BY <1>1, <1>2, <1>3

LEMMA DeletesKept ==
    ASSUME DeletesHonest, JiraKept, kept \subseteq kept',
           \A r \in pending' : r.type = "test_step_delete" => \E q \in pending :
              q.type = r.type /\ q.key = r.key /\ q.field = r.field /\ q.before = r.before
    PROVE  DeletesHonest'
<1>. SUFFICES ASSUME NEW r \in pending', r.type = "test_step_delete", Here(r.key)'
              PROVE  JiraText(r.key)' = r.before[2] \/
                     [type |-> r.type, key |-> r.key, field |-> r.field, value |-> JiraText(r.key)'] \in kept'
  BY DEF DeletesHonest, Kept
<1>1. PICK q \in pending : q.type = r.type /\ q.key = r.key /\ q.field = r.field /\ q.before = r.before
  OBVIOUS
<1>2. Here(r.key) /\ JiraText(r.key)' = JiraText(r.key)
  BY DEF JiraKept
<1>3. JiraText(r.key) = r.before[2] \/ Kept(r.type, r.key, r.field, JiraText(r.key))
  BY <1>1, <1>2 DEF DeletesHonest
<1>. QED
  BY <1>2, <1>3 DEF Kept

LEMMA HeldKept ==
    ASSUME HeldHonest, jira'.steps = jira.steps, conflict' \in {None, conflict}
    PROVE  HeldHonest'
BY DEF HeldHonest, Here, JiraText

LEMMA FineKept ==
    ASSUME Fine, jira'.steps = jira.steps, UNCHANGED <<steps, pending>>, kept \subseteq kept', conflict' \in {None, conflict},
           \A p \in pending : p.type = "test_step" => (SentEdit(p)' <=> SentEdit(p))
    PROVE  Fine'
<1>1. JiraKept
  BY SameJira
<1>2. \A r : Same(r, r)
  BY DEF Same
<1>3. TextsHonest'
  BY <1>1, <1>2, TextsKept DEF Fine
<1>4. EditsHonest'
  BY <1>1, EditsKept DEF Fine
<1>5. DeletesHonest'
  BY <1>1, DeletesKept DEF Fine
<1>6. HeldHonest'
  BY HeldKept DEF Fine
<1>. QED
  BY <1>3, <1>4, <1>5, <1>6 DEF Fine

LEMMA NextTestVer ==
    ASSUME Shapes, [Next]_vars, ~ SyncTest
    PROVE  test'.ver = test.ver
<1>1. CASE UNCHANGED vars
  BY <1>1 DEF vars, local
<1>2. CASE EditStep
  BY <1>2, EditRows
<1>3. ASSUME NEW d \in pending, DiscardPendingChange(d) PROVE test'.ver = test.ver
  BY <1>3, CacheIs DEF DiscardPendingChange
<1>4. ASSUME NEW theirs, ResolveConflict(theirs) PROVE test'.ver = test.ver
  BY <1>4, ResolveIs, CacheIs
<1>5. ASSUME NEW selected \in SUBSET pending, CommitChanges(selected) PROVE test' = test
  BY <1>5, CommitChangesIs
<1>6. ASSUME NEW x \in left, CreateStep(x) PROVE test' = test
  BY <1>6, CreatesIs
<1>7. CASE RefreshSteps \/ RemoteEdit \/ Sends \/ RefusedEnds \/ Fault \/ ClearRows \/ RebaseRest \/ DetectConflicts
  BY <1>7, RefreshIs, RemoteEditIs, SendsIs, EndsAre, DetectIs
<1>. QED
  BY <1>1, <1>2, <1>3, <1>4, <1>5, <1>6, <1>7, Cases

\* When the cache is known to be honest after a step it was before it.
Knows == StepPlain /\ (Own \/ test.ver = jira.ver)
LEMMA KnowsIs ==
    ASSUME Shapes, StepsShown, Versions, StepsHonest, [Next]_vars, Knows'
    PROVE  /\ Plain' /\ Plain /\ StepPlain /\ Fine
           /\ "discard" \notin met' /\ "refresh" \notin met' /\ "meanwhile" \notin met' /\ "onscreen" \notin met'
           /\ jira' # jira => Own'
           /\ Own' => Own /\ Calmly /\ AllShown /\ met' \cap {"outside", "fault", "refused"} = {}
           /\ ~ Own' /\ ~ SyncTest => test.ver = jira.ver /\ jira' = jira
<1>1. Plain' /\ Plain /\ StepPlain /\ met \subseteq met' /\ (Own' => Own)
  BY PlainIs, NextMet DEF Knows, StepPlain, NotMet, Own
<1>2. "discard" \notin met' /\ "refresh" \notin met' /\ "sync" \notin met' /\ "meanwhile" \notin met' /\ "onscreen" \notin met'
  BY DEF Knows, StepPlain, Plain, NotMet
<1>3. /\ jira.ver \in Nat /\ jira'.ver \in Nat /\ (jira' = jira \/ jira'.ver = jira.ver + 1)
      /\ test.ver \in Nat /\ test.ver <= jira.ver
  BY NextJira, CacheIs DEF Versions
<1>4. jira' # jira => Own'
  <2>1. ASSUME jira' # jira PROVE test' = test
    BY <2>1, NextWrite
  <2>. QED BY <1>3, <2>1 DEF Knows
<1>5. ~ Own' /\ ~ SyncTest => test.ver = jira.ver /\ jira' = jira
  BY <1>4, NextTestVer DEF Knows
<1>6. Own \/ test.ver = jira.ver
  <2>1. CASE SyncTest
    BY <1>2, <2>1, SyncIs DEF Own, NotMet
  <2>. QED BY <1>1, <1>5, <2>1
<1>7. Fine
  BY <1>1, <1>6 DEF StepsHonest, Fine
<1>8. Own' => Calmly /\ AllShown /\ met' \cap {"outside", "fault", "refused"} = {}
  BY <1>1, <1>2 DEF Own, Calmly, NotMet, StepsShown, AllShown, Plain, StepPlain
<1>. QED
  BY <1>1, <1>2, <1>4, <1>5, <1>7, <1>8

\* The texts an edit leaves: a step no edit pends on any more shows again the
\* text its edits were made on.
LEMMA StepReturned ==
    ASSUME Shapes, NEW s \in DOMAIN steps, NEW v \in Mine,
           Queue(pending, "test_step", s, "action", steps[s].text, v), \A p \in pending' : ~ About(p, s)
    PROVE  \E q \in pending : About(q, s) /\ q.before = v
<1>1. pending' = Upsert(pending, lastRow + 1, "test_step", s, "action", steps[s].text, v, test.ver)
  BY DEF Queue
<1>2. RowsAt(pending', "test_step", s, "action") = {}
  BY AtPlace DEF About
<1>3. \A r \in pending : r \in Row
  BY ShapeIs DEF Shape
<1>4. PICK q \in RowsAt(pending, "test_step", s, "action") : q.before = v
  BY <1>1, <1>2, <1>3, UpsertGone
<1>. QED
  BY <1>4, AtPlace DEF About

LEMMA EditShows ==
    ASSUME Shapes, EditStep, NEW s \in DOMAIN steps', s > 0, \A p \in pending' : ~ About(p, s)
    PROVE  /\ s \in DOMAIN steps
           /\ \/ steps'[s].text = steps[s].text /\ \A p \in pending : ~ About(p, s)
              \/ \E q \in pending : About(q, s) /\ q.before = steps'[s].text
<1>. DEFINE Good == /\ s \in DOMAIN steps
                    /\ \/ steps'[s].text = steps[s].text /\ \A p \in pending : ~ About(p, s)
                       \/ \E q \in pending : About(q, s) /\ q.before = steps'[s].text
<1>1. ASSUME s \in DOMAIN steps, steps'[s].text = steps[s].text,
             ~ \E v \in Mine : EditTestStepField(s, v) /\ Queue(pending, "test_step", s, "action", steps[s].text, v),
             ~ DeleteTestStep(s)
      PROVE  Good
  <2>1. ASSUME NEW p \in pending, About(p, s) PROVE FALSE
    BY <1>1, <2>1, EditKeeps DEF About
  <2>. QED BY <1>1, <2>1
<1>2. ASSUME NEW f \in Fields, NEW v \in Mine, EditTestField(f, v) PROVE Good
  <2>1. steps' = steps /\ ~ DeleteTestStep(s)
        /\ ~ \E w \in Mine : EditTestStepField(s, w) /\ Queue(pending, "test_step", s, "action", steps[s].text, w)
    <3>1. steps' = steps
      BY <1>2, EditTestFieldIs
    <3>2. ~ DeleteTestStep(s)
      BY <3>1, DeleteTestStepIs
    <3>3. \A w \in Mine : s \in DOMAIN steps /\ EditTestStepField(s, w) => steps'[s].text = w /\ steps[s].text # w
      BY EditTestStepFieldIs
    <3>. QED BY <3>1, <3>2, <3>3
  <2>. QED BY <1>1, <2>1
<1>3. ASSUME NEW e \in DOMAIN steps, NEW v \in Mine, EditTestStepField(e, v) PROVE Good
  <2>1. s \in DOMAIN steps /\ DOMAIN steps' = DOMAIN steps
        /\ steps'[s].text = (IF s = e THEN v ELSE steps[s].text) /\ steps[e].text # v /\ steps'[e].text = v
    BY <1>3, EditTestStepFieldIs
  <2>2. ~ DeleteTestStep(s)
    BY <2>1, DeleteTestStepIs
  <2>3. CASE s # e
    <3>1. \A w \in Mine : EditTestStepField(s, w) => steps'[e].text = steps[e].text
      BY <2>1, <2>3, EditTestStepFieldIs
    <3>. QED BY <1>1, <2>1, <2>2, <2>3, <3>1
  <2>4. CASE s = e
    <3>1. CASE AddRow(s) # {}
      BY <2>4, <3>1, AddRowIs, ShapeIs DEF Adds, Shape
    <3>2. CASE Queue(pending, "test_step", s, "action", steps[s].text, v)
      <4>1. \E q \in pending : About(q, s) /\ q.before = v
        BY <2>1, <3>2, StepReturned
      <4>. QED BY <2>1, <2>4, <4>1
    <3>. QED BY <1>3, <2>4, <3>1, <3>2, EditTestStepFieldIs
  <2>. QED BY <2>3, <2>4
<1>4. ASSUME NEW t \in Mine \cup {Blank}, AddTestStep(t) PROVE Good
  <2>1. /\ NextTempStepID \in Int /\ NextTempStepID < 0 /\ NextTempStepID \notin DOMAIN steps
        /\ DOMAIN steps' = DOMAIN steps \cup {NextTempStepID}
        /\ \A e \in DOMAIN steps : steps'[e] = steps[e]
    BY <1>4, AddTestStepIs
  <2>. HIDE DEF Good
  <2>2. s \in DOMAIN steps /\ steps'[s] = steps[s]
    BY <2>1
  <2>3. ~ DeleteTestStep(s)
    BY <2>2, DeleteTestStepIs
  <2>4. \A w \in Mine : EditTestStepField(s, w) => steps'[s].text # steps[s].text
    BY <2>2, EditTestStepFieldIs
  <2>. QED BY <1>1, <2>2, <2>3, <2>4
<1>5. ASSUME NEW e \in DOMAIN steps, DeleteTestStep(e) PROVE Good
  <2>1. s # e /\ s \in DOMAIN steps /\ steps'[s] = steps[s] /\ e \notin DOMAIN steps'
    BY <1>5, DeleteTestStepIs
  <2>2. ~ DeleteTestStep(s)
    BY <2>1, DeleteTestStepIs
  <2>3. \A w \in Mine : EditTestStepField(s, w) => steps'[s].text # steps[s].text
    BY <2>1, EditTestStepFieldIs
  <2>. QED BY <1>1, <2>1, <2>2, <2>3
<1>6. ASSUME NEW i \in 1..Cardinality(DOMAIN steps), ReorderTestSteps(i) PROVE Good
  <2>1. DOMAIN steps' = DOMAIN steps /\ s \in DOMAIN steps /\ steps'[s].text = steps[s].text
    BY <1>6, ReorderTestStepsIs
  <2>2. ~ DeleteTestStep(s)
    BY <2>1, DeleteTestStepIs
  <2>3. \A w \in Mine : EditTestStepField(s, w) => steps'[s].text # steps[s].text
    BY <2>1, EditTestStepFieldIs
  <2>. QED BY <1>1, <2>1, <2>2, <2>3
<1>. HIDE DEF Good
<1>7. Good
  BY <1>2, <1>3, <1>4, <1>5, <1>6 DEF EditStep
<1>. QED
  BY <1>7 DEF Good

LEMMA EditFine ==
    ASSUME Shapes, Fine, Still, conflict = None, [Next]_vars, EditStep
    PROVE  Fine'
<1>0. PICK texts : Edit(texts)
  BY EditStepIs
<1>1. jira' = jira /\ conflict' = None /\ kept \subseteq kept' /\ JiraKept
  BY <1>0, EditIs, SameJira, NextKept
<1>2. \A p : ~ SentEdit(p) /\ ~ SentEdit(p)'
  BY DEF Still, SentEdit
<1>3. \A s : Here(s) => s > 0
  BY JiraIs DEF Here, IdsOf
<1>4. TextsHonest'
  <2>. SUFFICES ASSUME NEW s \in DOMAIN steps', Here(s)', \A p \in pending' : ~ About(p, s)
                PROVE  steps'[s].text = JiraText(s)'
    BY DEF TextsHonest, About
  <2>1. Here(s) /\ JiraText(s)' = JiraText(s) /\ s > 0
    BY <1>1, <1>3 DEF JiraKept
  <2>2. s \in DOMAIN steps /\ (\/ steps'[s].text = steps[s].text /\ \A p \in pending : ~ About(p, s)
                               \/ \E q \in pending : About(q, s) /\ q.before = steps'[s].text)
    BY <2>1, EditShows
  <2>3. CASE steps'[s].text = steps[s].text /\ \A p \in pending : ~ About(p, s)
    BY <2>1, <2>2, <2>3 DEF Fine, TextsHonest
  <2>4. ASSUME NEW q \in pending, About(q, s), q.before = steps'[s].text PROVE steps'[s].text = JiraText(s)'
    BY <1>2, <2>1, <2>4 DEF Fine, EditsHonest, About
  <2>. QED BY <2>2, <2>3, <2>4
<1>5. EditsHonest'
  <2>. SUFFICES ASSUME NEW r \in pending', r.type = "test_step", Here(r.key)' PROVE JiraText(r.key)' = r.before
    BY <1>2 DEF EditsHonest
  <2>1. Here(r.key) /\ JiraText(r.key)' = JiraText(r.key)
    BY <1>1 DEF JiraKept
  <2>2. CASE Keeps(r)
    <3>1. PICK q \in pending : q.type = r.type /\ q.key = r.key /\ q.before = r.before
      BY <2>2 DEF Keeps, From
    <3>. QED BY <1>2, <2>1, <3>1 DEF Fine, EditsHonest
  <2>3. CASE Made(r)
    <3>1. NewText(r)
      BY <2>3 DEF Made, NewField, NewDelete, NewOther
    <3>. QED BY <2>1, <3>1 DEF NewText, Fine, TextsHonest
  <2>. QED BY <2>2, <2>3, EditFacts
<1>6. DeletesHonest'
  <2>. SUFFICES ASSUME NEW r \in pending', r.type = "test_step_delete", Here(r.key)'
                PROVE  JiraText(r.key)' = r.before[2] \/
                       [type |-> r.type, key |-> r.key, field |-> r.field, value |-> JiraText(r.key)'] \in kept'
    BY DEF DeletesHonest, Kept
  <2>1. Here(r.key) /\ JiraText(r.key)' = JiraText(r.key)
    BY <1>1 DEF JiraKept
  <2>2. CASE Keeps(r)
    <3>1. PICK q \in pending : q.type = r.type /\ q.key = r.key /\ q.field = r.field /\ q.before = r.before
      BY <2>2 DEF Keeps, From
    <3>. QED BY <1>1, <2>1, <3>1 DEF Fine, DeletesHonest, Kept
  <2>3. CASE Made(r)
    <3>1. NewDelete(r)
      BY <2>3 DEF Made, NewField, NewText, NewOther
    <3>2. CASE \A p \in pending : ~ About(p, r.key)
      BY <2>1, <3>1, <3>2 DEF NewDelete, Fine, TextsHonest
    <3>3. ASSUME NEW p \in pending, About(p, r.key)
          PROVE  [type |-> r.type, key |-> r.key, field |-> r.field, value |-> JiraText(r.key)'] \in kept'
      <4>1. JiraText(r.key) = p.before
        BY <1>2, <2>1, <3>3 DEF Fine, EditsHonest, About
      <4>. QED BY <2>1, <3>1, <3>3, <4>1 DEF NewDelete
    <3>. QED BY <3>2, <3>3
  <2>. QED BY <2>2, <2>3, EditFacts
<1>. QED
  BY <1>1, <1>4, <1>5, <1>6 DEF Fine, HeldHonest

LEMMA RefreshFine ==
    ASSUME Shapes, Fine, RefreshSteps, "refresh" \notin met'
    PROVE  Fine'
<1>1. UNCHANGED <<jira, pending, conflict>> /\ \A r \in pending : r.type = "test_case"
  BY RefreshIs DEF IsStepRow
<1>2. ASSUME NEW s \in DOMAIN steps' PROVE steps'[s].text = JiraText(s)'
  <2>1. PICK k \in DOMAIN jira.steps : jira.steps[k].id = s
    BY <1>2, FetchedIs
  <2>2. steps'[s].text = jira.steps[k].text
    <3>1. steps'[jira.steps[k].id] = [idx |-> k, text |-> jira.steps[k].text]
      BY <2>1, FetchedIs
    <3>. QED BY <2>1, <3>1
  <2>3. JiraText(s) = jira.steps[k].text
    BY <2>1, JiraTextIs
  <2>. QED BY <1>1, <2>2, <2>3 DEF JiraText
<1>3. TextsHonest'
  BY <1>2 DEF TextsHonest
<1>4. HeldHonest'
  BY <1>1, HeldKept DEF Fine
<1>. QED
  BY <1>1, <1>3, <1>4 DEF Fine, EditsHonest, DeletesHonest

LEMMA ResolveFine ==
    ASSUME Shapes, Fine, \A c \in conflict.held : c.row \in pending, kept \subseteq kept',
           NEW theirs, ResolveConflict(theirs)
    PROVE  Fine'
<1>0. jira' = jira /\ conflict # None /\ conflict' = None /\ pc = "idle" /\ pc' = "idle" /\ JiraKept
  BY ResolveIs, ResolveMet, SameJira
<1>1. \A p : ~ SentEdit(p) /\ ~ SentEdit(p)'
  BY <1>0 DEF SentEdit
<1>2. EditsHonest'
  <2>1. ASSUME NEW r \in pending' PROVE \E q \in pending : q.type = r.type /\ q.key = r.key /\ q.before = r.before
    BY <1>0, <2>1, ResolvedRows DEF Same
  <2>. QED BY <1>0, <1>1, <2>1, EditsKept DEF Fine
<1>3. DeletesHonest'
  <2>1. ASSUME NEW r \in pending'
        PROVE  \E q \in pending : q.type = r.type /\ q.key = r.key /\ q.field = r.field /\ q.before = r.before
    BY <1>0, <2>1, ResolvedRows DEF Same
  <2>. QED BY <1>0, <2>1, DeletesKept DEF Fine
<1>4. TextsHonest'
  <2>. SUFFICES ASSUME NEW s \in DOMAIN steps', Here(s)', \A p \in pending' : ~ About(p, s)
                PROVE  steps'[s].text = JiraText(s)'
    BY DEF TextsHonest, About
  <2>1. Here(s) /\ JiraText(s)' = JiraText(s)
    BY <1>0 DEF JiraKept
  <2>2. \A c \in conflict.held : c.row.key = s =>
            c.row.type # "test_step" /\ (c.row.type = "test_step_delete" => c.remote[2] = JiraText(s))
    BY <1>0, <2>1 DEF Fine, HeldHonest
  <2>3. TextOf(theirs, s) = {}
    BY <2>2 DEF TextOf, Taken
  <2>4. CASE \E c \in Undone(theirs) : c.row.key = s
    <3>1. PICK c \in Undone(theirs) : c.row.key = s /\ steps'[s].text = c.remote[2]
      BY <2>4, ResolvedSteps
    <3>. QED BY <2>1, <2>2, <3>1 DEF Undone, Taken
  <2>5. CASE ~ \E c \in Undone(theirs) : c.row.key = s
    <3>1. s \in DOMAIN steps /\ steps'[s].text = steps[s].text
      BY <2>3, <2>5, ResolvedSteps
    <3>2. ASSUME NEW q \in pending, About(q, s) PROVE FALSE
      <4>1. CASE q.id \notin theirs
        <5>1. PICK r \in pending' : Same(q, r)
          BY <1>0, <4>1, ResolvedRows
        <5>. QED BY <3>2, <5>1 DEF Same, About
      <4>2. CASE q.id \in theirs
        <5>1. PICK c \in conflict.held : c.row.id = q.id
          BY <4>2, ResolveIs
        <5>2. c.row = q
          BY <5>1, ShapeIs
        <5>. QED BY <2>2, <3>2, <5>1, <5>2 DEF About
      <4>. QED BY <4>1, <4>2
    <3>. QED BY <2>1, <3>1, <3>2 DEF Fine, TextsHonest
  <2>. QED BY <2>4, <2>5
<1>. QED
  BY <1>0, <1>2, <1>3, <1>4 DEF Fine, HeldHonest

LEMMA DetectFine ==
    ASSUME Shapes, RowsPend, PassHasAll, Changing, Plain, Fine, DetectConflicts, kept \subseteq kept'
    PROVE  Fine'
<1>0. /\ pc = "scan" /\ UNCHANGED <<jira, steps>> /\ JiraKept /\ pc' \in {"idle", "fields"}
      /\ pending' = Open \/ pending' = Rebased(Open, version)
      /\ conflict' \in {None, conflict} \/ conflict'.held = HeldBack
  <2>1. pc = "scan" /\ UNCHANGED <<jira, steps>>
    BY DetectIs
  <2>2. /\ pc' \in {"idle", "fields"}
        /\ pending' = Open \/ pending' = Rebased(Open, version)
    BY DetectIs, LeaveIs
  <2>3. conflict' \in {None, conflict} \/ conflict'.held = HeldBack
    <3>1. CASE UNCHANGED conflict
      BY <3>1
    <3>2. CASE conflict' = IF HeldBack = {} THEN None ELSE [ver |-> version, held |-> HeldBack]
      BY <3>2
    <3>. QED BY <3>1, <3>2, DetectIs
  <2>. QED BY <2>1, <2>2, <2>3, SameJira
<1>1. \A p : ~ SentEdit(p) /\ ~ SentEdit(p)'
  BY <1>0 DEF SentEdit
<1>2. Table(Open, lastRow, born) /\ version \in Nat /\ Open \subseteq pending
  BY TableSubset, DeleteIs DEF Open, Shapes
<1>3. /\ \A r \in pending' : \E p \in Open : Same(p, r)
      /\ \A p \in Open : \E r \in pending' : Same(p, r)
  <2>1. CASE pending' = Open
    BY <2>1 DEF Same
  <2>2. CASE pending' = Rebased(Open, version)
    BY <1>2, <2>2, RebasedSame
  <2>. QED BY <1>0, <2>1, <2>2
<1>4. ASSUME NEW r \in rows PROVE \E p \in pending : Same(p, r)
  BY <1>0 DEF RowsPend, Plain, NotMet
<1>5. EditsHonest'
  <2>1. ASSUME NEW r \in pending' PROVE \E q \in pending : q.type = r.type /\ q.key = r.key /\ q.before = r.before
    BY <1>2, <1>3 DEF Same
  <2>. QED BY <1>0, <1>1, <2>1, EditsKept DEF Fine
<1>6. DeletesHonest'
  <2>1. ASSUME NEW r \in pending'
        PROVE  \E q \in pending : q.type = r.type /\ q.key = r.key /\ q.field = r.field /\ q.before = r.before
    BY <1>2, <1>3 DEF Same
  <2>. QED BY <1>0, <2>1, DeletesKept DEF Fine
<1>7. ASSUME NEW r \in rows, r.type = "test_step", Here(r.key) PROVE Remote(r) = r.before /\ r.before # r.after
  <2>1. PICK p \in pending : Same(p, r)
    BY <1>4
  <2>2. JiraText(r.key) = r.before /\ r.before # r.after
    BY <1>1, <1>7, <2>1 DEF Fine, EditsHonest, Changing, Same
  <2>. QED BY <1>7, <2>2 DEF Remote, Here, JiraText
<1>8. TextsHonest'
  <2>. SUFFICES ASSUME NEW s \in DOMAIN steps, Here(s), \A p \in pending' : ~ About(p, s)
                PROVE  steps[s].text = JiraText(s)
    BY <1>0 DEF TextsHonest, About, Here, JiraText
  <2>1. ASSUME NEW q \in pending, About(q, s) PROVE FALSE
    <3>1. q \notin Open
      BY <1>3, <2>1 DEF Same, About
    <3>2. PICK r \in There : r.id = q.id
      BY <3>1 DEF Open, Delete
    <3>3. r \in rows /\ AlreadyThere(r)
      BY <3>2 DEF There
    <3>4. PICK p \in pending : Same(p, r)
      BY <1>4, <3>3
    <3>5. p = q
      BY <3>2, <3>4, ShapeIs DEF Same
    <3>6. r.type = "test_step" /\ r.key = s
      BY <2>1, <3>4, <3>5 DEF Same, About
    <3>7. Remote(r) = r.after
      BY <3>3, <3>6 DEF AlreadyThere
    <3>. QED BY <1>7, <3>3, <3>6, <3>7
  <2>. QED BY <2>1 DEF Fine, TextsHonest
<1>9. HeldHonest'
  <2>1. CASE conflict' \in {None, conflict}
    BY <1>0, <2>1, HeldKept DEF Fine
  <2>2. CASE conflict'.held = HeldBack
    <3>1. ASSUME NEW c \in HeldBack, Here(c.row.key)
          PROVE  c.row.type # "test_step" /\ (c.row.type = "test_step_delete" => c.remote[2] = JiraText(c.row.key))
      <4>1. c.row \in rows /\ ~ Untouched(c.row) /\ c.remote = Remote(c.row)
        BY DEF HeldBack, Rest
      <4>2. c.row.type # "test_step"
        BY <1>7, <3>1, <4>1 DEF Untouched
      <4>3. ASSUME c.row.type = "test_step_delete" PROVE c.remote[2] = JiraText(c.row.key)
        BY <3>1, <4>1, <4>3 DEF Remote, Here, JiraText
      <4>. QED BY <4>2, <4>3
    <3>. QED BY <1>0, <2>2, <3>1 DEF HeldHonest, Here, JiraText
  <2>. QED BY <1>0, <2>1, <2>2
<1>. QED
  BY <1>5, <1>6, <1>8, <1>9 DEF Fine

LEMMA ClearFine ==
    ASSUME Shapes, RowsPend, PassHasAll, SentWritten, Plain, Fine, ClearRows,
           AllShown \/ test.ver = jira.ver, NotMet({"selected"})
    PROVE  Fine'
<1>0. pc = "clear" /\ UNCHANGED <<jira, steps, conflict>> /\ JiraKept /\ pending' = Delete(pending, {r.id : r \in rows})
  BY EndsAre, SameJira
<1>1. ASSUME NEW q \in pending PROVE \E r \in rows : Same(r, q)
  BY <1>0, PassRows
<1>2. pending' = {}
  BY <1>0, <1>1 DEF Delete, Same
<1>3. TextsHonest'
  <2>. SUFFICES ASSUME NEW s \in DOMAIN steps, Here(s) PROVE steps[s].text = JiraText(s)
    BY <1>0 DEF TextsHonest, Here, JiraText
  <2>1. ASSUME NEW q \in pending, About(q, s) PROVE steps[s].text = JiraText(s)
    <3>1. PICK r \in rows : Same(r, q)
      BY <1>1
    <3>2. SentEdit(r) /\ SentEdit(q)
      BY <1>0, <2>1, <3>1 DEF SentEdit, Same, About
    <3>3. test.ver < jira.ver
      BY <3>1, <3>2 DEF SentWritten
    <3>4. AllShown
      BY <3>3, CacheIs
    <3>5. steps[s].text = q.after
      BY <2>1, <3>4 DEF AllShown, StepShown, About
    <3>. QED BY <2>1, <3>2, <3>5 DEF Fine, EditsHonest, About
  <2>. QED BY <2>1 DEF Fine, TextsHonest
<1>4. HeldHonest'
  BY <1>0, HeldKept DEF Fine
<1>. QED
  BY <1>2, <1>3, <1>4 DEF Fine, EditsHonest, DeletesHonest

\* The edit that was pushed is the one row about its step.
LEMMA OneEdit ==
    ASSUME Shapes, NEW p \in pending, NEW q \in pending, p.type = "test_step", q.type = "test_step", p.key = q.key
    PROVE  p = q
<1>1. p.field = "action" /\ q.field = "action"
  BY ShapeIs DEF Shape
<1>. QED
  BY <1>1, ShapeIs

LEMMA DeleteFine ==
    ASSUME Shapes, Shapes', Fine, NEW x \in left, RemoteDeleteStep(x)
    PROVE  Fine'
<1>0. /\ pc = "deletes" /\ pc' = pc /\ Exists(x) /\ LandDelete(x)
      /\ UNCHANGED <<steps, pending, kept, conflict, rows>> /\ conflict = None
  BY DEF RemoteDeleteStep, Sending, local, Shapes, Phases
<1>1. JiraKept
  BY <1>0, DeleteTexts DEF JiraKept
<1>2. \A p : ~ SentEdit(p) /\ ~ SentEdit(p)'
  BY <1>0 DEF SentEdit
<1>3. \A r : Same(r, r)
  BY DEF Same
<1>4. TextsHonest'
  BY <1>0, <1>1, <1>3, TextsKept DEF Fine
<1>5. EditsHonest'
  BY <1>0, <1>1, <1>2, EditsKept DEF Fine
<1>6. DeletesHonest'
  BY <1>0, <1>1, DeletesKept DEF Fine
<1>. QED
  BY <1>0, <1>4, <1>5, <1>6 DEF Fine, HeldHonest

LEMMA UpdateFine ==
    ASSUME Shapes, Shapes', RowsPend, Plain, AllShown, Fine, NEW x \in left, UpdateTestStep(x)
    PROVE  Fine'
<1>0. /\ pc = "edits" /\ pc' = pc /\ Exists(x) /\ LandEdit(x) /\ left' = left \ {x}
      /\ UNCHANGED <<steps, pending, kept, conflict, rows>> /\ conflict = None
  BY DEF UpdateTestStep, Sending, local, Shapes, Phases
<1>1. x \in rows /\ x.type = "test_step" /\ x.after \in Texts
  BY <1>0, LeftIs, TextsIs DEF Shape
<1>2. PICK p \in pending : Same(p, x)
  BY <1>0, <1>1 DEF RowsPend, Plain, NotMet
<1>3. \A s : Here(s)' => Here(s) /\ JiraText(s)' = IF s = x.key THEN x.after ELSE JiraText(s)
  BY <1>0, <1>1, EditTexts
<1>4. TextsHonest'
  <2>. SUFFICES ASSUME NEW s \in DOMAIN steps, Here(s)', \A q \in pending : ~ About(q, s)
                PROVE  steps[s].text = JiraText(s)'
    BY <1>0 DEF TextsHonest, About
  <2>1. s # x.key
    BY <1>1, <1>2 DEF Same, About
  <2>. QED BY <1>3, <2>1 DEF Fine, TextsHonest
<1>5. EditsHonest'
  <2>. SUFFICES ASSUME NEW q \in pending, q.type = "test_step", Here(q.key)'
                PROVE  JiraText(q.key)' = IF SentEdit(q)' THEN q.after ELSE q.before
    BY <1>0 DEF EditsHonest
  <2>1. CASE q.key = x.key
    <3>1. q = p
      BY <1>1, <1>2, <2>1, OneEdit DEF Same
    <3>2. SentEdit(q)'
      BY <1>0, <1>1, <1>2, <3>1 DEF SentEdit, Same
    <3>. QED BY <1>2, <1>3, <2>1, <3>1, <3>2 DEF Same
  <2>2. CASE q.key # x.key
    <3>1. q.id # x.id
      BY <1>2, <2>2, ShapeIs DEF Same
    <3>2. SentEdit(q)' <=> SentEdit(q)
      BY <1>0, <3>1 DEF SentEdit
    <3>. QED BY <1>3, <2>2, <3>2 DEF Fine, EditsHonest
  <2>. QED BY <2>1, <2>2
<1>6. DeletesHonest'
  <2>. SUFFICES ASSUME NEW q \in pending, q.type = "test_step_delete", Here(q.key)'
                PROVE  JiraText(q.key)' = q.before[2] \/
                       [type |-> q.type, key |-> q.key, field |-> q.field, value |-> JiraText(q.key)'] \in kept
    BY <1>0 DEF DeletesHonest, Kept
  <2>1. q.key # x.key
    BY <1>1, <1>2 DEF AllShown, StepShown, Same
  <2>. QED BY <1>3, <2>1 DEF Fine, DeletesHonest, Kept
<1>. QED
  BY <1>0, <1>4, <1>5, <1>6 DEF Fine, HeldHonest

LEMMA CreateFine ==
    ASSUME Shapes, Shapes', RowsPend, Plain, AllShown, Fine, NEW x \in left, CreateStep(x), "fault" \notin met'
    PROVE  Fine'
<1>0. /\ pc = "adds" /\ pc' = pc /\ LandAdd(x) /\ RenameTestStepID(x.key, born + 1)
      /\ UNCHANGED <<pending, kept, conflict, rows>> /\ conflict = None
  BY CreatesIs DEF CreateStep, Shapes, Phases
<1>1. x \in rows /\ x.type = "test_step_add" /\ x.key \in Int /\ x.key < 0
  BY <1>0, LeftIs, RowIs DEF Shape
<1>2. PICK p \in pending : Same(p, x)
  BY <1>0, <1>1 DEF RowsPend, Plain, NotMet
<1>3. x.key \in DOMAIN steps /\ steps[x.key].text = x.after[2]
  <2>1. ~ Pushed(p)
    BY <1>2 DEF Pushed, Same
  <2>. QED BY <1>1, <1>2, <2>1 DEF AllShown, StepShown, Same
<1>4. /\ DOMAIN steps' = (DOMAIN steps \ {x.key}) \cup {born + 1}
      /\ steps'[born + 1] = steps[x.key]
      /\ \A s \in DOMAIN steps : s # x.key => s \in DOMAIN steps' /\ steps'[s] = steps[s]
  BY <1>0, <1>1, <1>3, RenamedIs
<1>5. \A s : Here(s)' => \/ s = born + 1 /\ JiraText(s)' = x.after[2]
                         \/ s <= born /\ Here(s) /\ JiraText(s)' = JiraText(s)
  BY <1>0, AddTexts
<1>6. \A q \in pending : q.type \in {"test_step", "test_step_delete"} => q.key <= born /\ q.key \in Int /\ born \in Nat
  BY ShapeIs, CacheIs DEF Names, Known
<1>7. \A q : SentEdit(q)' <=> SentEdit(q)
  BY <1>0 DEF SentEdit
<1>8. TextsHonest'
  <2>. SUFFICES ASSUME NEW s \in DOMAIN steps', Here(s)', \A q \in pending : ~ About(q, s)
                PROVE  steps'[s].text = JiraText(s)'
    BY <1>0 DEF TextsHonest, About
  <2>0. born \in Nat
    BY CacheIs
  <2>1. CASE s = born + 1
    BY <1>3, <1>4, <1>5, <2>0, <2>1
  <2>2. CASE s # born + 1
    <3>1. s \in DOMAIN steps /\ s # x.key /\ steps'[s] = steps[s]
      BY <1>4, <2>2
    <3>2. Here(s) /\ JiraText(s)' = JiraText(s)
      BY <1>5, <2>2
    <3>. QED BY <3>1, <3>2 DEF Fine, TextsHonest
  <2>. QED BY <2>1, <2>2
<1>9. EditsHonest'
  <2>. SUFFICES ASSUME NEW q \in pending, q.type = "test_step", Here(q.key)'
                PROVE  JiraText(q.key)' = IF SentEdit(q)' THEN q.after ELSE q.before
    BY <1>0 DEF EditsHonest
  <2>1. q.key # born + 1
    BY <1>6
  <2>2. Here(q.key) /\ JiraText(q.key)' = JiraText(q.key)
    BY <1>5, <2>1
  <2>. QED BY <1>7, <2>2 DEF Fine, EditsHonest
<1>10. DeletesHonest'
  <2>. SUFFICES ASSUME NEW q \in pending, q.type = "test_step_delete", Here(q.key)'
                PROVE  JiraText(q.key)' = q.before[2] \/
                       [type |-> q.type, key |-> q.key, field |-> q.field, value |-> JiraText(q.key)'] \in kept
    BY <1>0 DEF DeletesHonest, Kept
  <2>1. q.key # born + 1
    BY <1>6
  <2>2. Here(q.key) /\ JiraText(q.key)' = JiraText(q.key)
    BY <1>5, <2>1
  <2>. QED BY <2>2 DEF Fine, DeletesHonest, Kept
<1>. QED
  BY <1>0, <1>8, <1>9, <1>10 DEF Fine, HeldHonest

LEMMA MoveFine ==
    ASSUME Shapes, Shapes', RowsPend, PassHasAll, ContentCached, StepPlain, Plain, AllShown, Fine, MoveTestStep
    PROVE  Fine'
<1>0. /\ pc = "moves" /\ pc' = pc /\ UNCHANGED <<steps, pending, kept, conflict, rows>> /\ conflict = None
  BY DEF MoveTestStep, local, Shapes, Phases
<1>1. PICK k \in moves : Movable(k) /\ LandMove(k)
  BY DEF MoveTestStep
<1>2. content = [s \in DOMAIN steps |-> steps[s].text]
  BY <1>0 DEF ContentCached, StepPlain, Plain, NotMet
<1>3. Mover(k) \in DOMAIN steps /\ content[Mover(k)] = steps[Mover(k)].text
  BY <1>1, <1>2 DEF Movable
<1>4. \A s : Here(s)' => Here(s) /\ JiraText(s)' = IF s = Mover(k) THEN steps[s].text ELSE JiraText(s)
  BY <1>0, <1>1, <1>3, MoveTexts
<1>5. TextsHonest'
  <2>. SUFFICES ASSUME NEW s \in DOMAIN steps, Here(s)', \A q \in pending : ~ About(q, s)
                PROVE  steps[s].text = JiraText(s)'
    BY <1>0 DEF TextsHonest, About
  <2>. QED BY <1>4 DEF Fine, TextsHonest
<1>6. EditsHonest'
  <2>. SUFFICES ASSUME NEW q \in pending, q.type = "test_step", Here(q.key)'
                PROVE  JiraText(q.key)' = IF SentEdit(q)' THEN q.after ELSE q.before
    BY <1>0 DEF EditsHonest
  <2>1. PICK r \in rows : Same(r, q)
    BY <1>0, PassRows
  <2>2. SentEdit(q) /\ SentEdit(q)'
    BY <1>0, <2>1 DEF SentEdit, Same
  <2>3. steps[q.key].text = q.after
    BY DEF AllShown, StepShown
  <2>. QED BY <1>4, <2>2, <2>3 DEF Fine, EditsHonest
<1>7. DeletesHonest'
  <2>. SUFFICES ASSUME NEW q \in pending, q.type = "test_step_delete", Here(q.key)'
                PROVE  JiraText(q.key)' = q.before[2] \/
                       [type |-> q.type, key |-> q.key, field |-> q.field, value |-> JiraText(q.key)'] \in kept
    BY <1>0 DEF DeletesHonest, Kept
  <2>1. q.key # Mover(k)
    BY <1>3 DEF AllShown, StepShown
  <2>. QED BY <1>4, <2>1 DEF Fine, DeletesHonest, Kept
<1>. QED
  BY <1>0, <1>5, <1>6, <1>7 DEF Fine, HeldHonest

\* The calls that leave the steps in Jira as they are.
LEMMA PassFine ==
    ASSUME Shapes, Fine, kept \subseteq kept',
           UpdateIssue \/ ApplyTransition \/ PhaseDone \/ ReadOrder \/ MovesDone \/ RemoteVersion
    PROVE  Fine'
<1>1. UNCHANGED <<steps, pending, conflict, rows>> /\ jira'.steps = jira.steps
  <2>1. CASE UpdateIssue
    <3>1. pc = "fields" /\ (jira' = jira \/ LandFields)
      BY <2>1 DEF UpdateIssue
    <3>2. jira'.steps = jira.steps
      BY <3>1, LandFieldsIs
    <3>. QED BY <2>1, <3>2 DEF UpdateIssue, Sending, local
  <2>2. CASE ApplyTransition
    <3>1. pc = "status" /\ (jira' = jira \/ \E r \in left : LandStatus(r))
      BY <2>2 DEF ApplyTransition
    <3>2. jira'.steps = jira.steps
      BY <3>1, LandStatusIs
    <3>. QED BY <2>2, <3>2 DEF ApplyTransition, Sending, local
  <2>3. CASE PhaseDone
    BY <2>3 DEF PhaseDone, Sending, local
  <2>4. CASE ReadOrder
    BY <2>4 DEF ReadOrder, local
  <2>5. CASE MovesDone
    BY <2>5 DEF MovesDone, local
  <2>6. CASE RemoteVersion
    BY <2>6 DEF RemoteVersion, local
  <2>. QED BY <2>1, <2>2, <2>3, <2>4, <2>5, <2>6
<1>2. ASSUME NEW p, p.type = "test_step"
      PROVE  SentEdit(p)' <=> SentEdit(p)
  <2>1. CASE UpdateIssue \/ ApplyTransition \/ RemoteVersion
    <3>1. pc \in {"check", "fields", "status"} /\ pc' \in {"scan", "fields", "status", "deletes"}
      BY <2>1 DEF UpdateIssue, ApplyTransition, RemoteVersion, Enter
    <3>. QED BY <3>1 DEF SentEdit
  <2>2. CASE PhaseDone
    BY <1>1, <2>2 DEF PhaseDone, Enter, OfType, SentEdit
  <2>3. CASE ReadOrder \/ MovesDone
    <3>1. pc \in {"adds", "moves"} /\ pc' \in {"moves", "clear"}
      BY <2>3 DEF ReadOrder, MovesDone
    <3>. QED BY <1>1, <3>1 DEF SentEdit
  <2>. QED BY <2>1, <2>2, <2>3
<1>. QED
  BY <1>1, <1>2, FineKept

LEMMA NextStepsHonest ==
    /\ Shapes /\ RowsPend /\ HeldPends /\ StepsShown /\ Versions /\ SelectedIs /\ PassHasAll
    /\ Changing /\ SentWritten /\ StepsHonest /\ ContentCached /\ [Next]_vars
    => StepsHonest'
<1>. SUFFICES ASSUME Shapes, RowsPend, HeldPends, StepsShown, Versions, SelectedIs, PassHasAll,
                     Changing, SentWritten, StepsHonest, ContentCached, [Next]_vars, Knows'
              PROVE  Fine'
  BY DEF StepsHonest, Knows, Fine
<1>1. /\ Plain' /\ Plain /\ StepPlain /\ Fine
      /\ "discard" \notin met' /\ "refresh" \notin met' /\ "meanwhile" \notin met' /\ "onscreen" \notin met'
      /\ jira' # jira => Own'
      /\ Own' => Own /\ Calmly /\ AllShown /\ met' \cap {"outside", "fault", "refused"} = {}
      /\ ~ Own' /\ ~ SyncTest => test.ver = jira.ver /\ jira' = jira
  BY KnowsIs
<1>2. Shapes' /\ kept \subseteq kept'
  BY NextShapes, NextKept
<1>3. CASE UNCHANGED vars
  <2>1. UNCHANGED <<steps, pending, conflict, rows, pc, left>> /\ jira' = jira
    BY <1>3 DEF vars, local, commit
  <2>2. \A p : SentEdit(p)' <=> SentEdit(p)
    BY <2>1 DEF SentEdit
  <2>. QED BY <1>1, <1>2, <2>1, <2>2, FineKept
<1>4. CASE EditStep
  <2>1. Still /\ conflict = None
    BY <1>1, <1>4, PlainIs, EditStepIs
  <2>. QED BY <1>1, <1>4, <2>1, EditFine
<1>5. CASE \E d \in pending : DiscardPendingChange(d)
  BY <1>1, <1>5, DiscardIs
<1>6. CASE RefreshSteps
  BY <1>1, <1>6, RefreshFine
<1>7. CASE SyncTest
  <2>1. UNCHANGED <<steps, pending, conflict, rows, pc, left>> /\ jira' = jira
    BY <1>7 DEF SyncTest, commit
  <2>2. \A p : SentEdit(p)' <=> SentEdit(p)
    BY <2>1 DEF SentEdit
  <2>. QED BY <1>1, <1>2, <2>1, <2>2, FineKept
<1>8. CASE \E theirs : ResolveConflict(theirs)
  <2>1. PICK theirs : ResolveConflict(theirs)
    BY <1>8
  <2>2. conflict # None /\ "onscreen" \notin met
    BY <1>1, <2>1, ResolveIs, NextMet
  <2>3. \A c \in conflict.held : c.row \in pending
    BY <2>2 DEF HeldPends, NotMet
  <2>. QED BY <1>1, <1>2, <2>1, <2>3, ResolveFine
<1>9. CASE RemoteEdit
  <2>1. "outside" \in met'
    BY <1>9, RemoteEditIs
  <2>2. \E s : Writes(s)
    BY <1>9 DEF RemoteEdit, Writes
  <2>3. jira' # jira
    BY <2>2, NextJira DEF Writes, Write
  <2>. QED BY <1>1, <2>1, <2>3
<1>10. CASE Sends
  <2>1. CASE UpdateIssue \/ ApplyTransition \/ PhaseDone \/ ReadOrder \/ MovesDone \/ RemoteVersion
    BY <1>1, <1>2, <2>1, PassFine
  <2>2. CASE \E r \in left : RemoteDeleteStep(r)
    BY <1>1, <1>2, <2>2, DeleteFine
  <2>3. CASE \E r \in left : UpdateTestStep(r)
    <3>1. PICK r \in left : UpdateTestStep(r)
      BY <2>3
    <3>2. jira' # jira
      BY <3>1, NextJira DEF UpdateTestStep, LandEdit, Write
    <3>. QED BY <1>1, <1>2, <3>1, <3>2, UpdateFine
  <2>4. CASE MoveTestStep
    <3>1. jira' # jira
      BY <2>4, NextJira DEF MoveTestStep, LandMove, Write
    <3>. QED BY <1>1, <1>2, <2>4, <3>1, MoveFine
  <2>. QED BY <1>10, <2>1, <2>2, <2>3, <2>4 DEF Sends
<1>11. CASE DetectConflicts
  BY <1>1, <1>2, <1>11, DetectFine
<1>12. CASE \E r \in left : CreateStep(r)
  <2>1. PICK r \in left : CreateStep(r)
    BY <1>12
  <2>2. jira' # jira
    BY <2>1, NextJira DEF CreateStep, LandAdd, Write
  <2>3. "fault" \notin met'
    BY <1>1, <2>2
  <2>. QED BY <1>1, <1>2, <2>1, <2>2, <2>3, CreateFine
<1>13. CASE ClearRows
  <2>1. AllShown \/ test.ver = jira.ver
    <3>1. ~ SyncTest
      BY <1>13 DEF ClearRows, SyncTest
    <3>. QED BY <1>1, <3>1
  <2>2. NotMet({"selected"})
    BY <1>1 DEF Plain, NotMet
  <2>. QED BY <1>1, <1>13, <2>1, <2>2, ClearFine
<1>14. CASE RebaseRest
  BY <1>1, <1>14 DEF RebaseRest, SelectedIs, Plain, NotMet
<1>15. CASE RefusedEnds \/ Fault
  <2>1. ~ Own' /\ Leave /\ UNCHANGED <<steps, pending, conflict>> /\ pc # "idle"
    <3>1. CASE RefusedEnds
      BY <3>1, EndsAre DEF RefusedEnds, Refused, Own, NotMet
    <3>2. CASE Fault
      BY <3>2, EndsAre DEF Own, NotMet
    <3>. QED BY <1>15, <3>1, <3>2
  <2>2. ~ SyncTest
    BY <2>1 DEF SyncTest
  <2>3. test.ver = jira.ver /\ jira' = jira
    BY <1>1, <2>1, <2>2
  <2>4. jira.ver \in Nat
    BY NextJira
  <2>5. \A p : ~ SentEdit(p)
    <3>. SUFFICES ASSUME NEW p, SentEdit(p) PROVE FALSE
      OBVIOUS
    <3>1. PICK q \in rows : q.id = p.id /\ q.type = "test_step" /\ (pc \in {"adds", "moves", "clear"} \/ (pc = "edits" /\ q \notin left))
      BY DEF SentEdit
    <3>2. SentEdit(q)
      BY <3>1 DEF SentEdit
    <3>. QED BY <2>3, <2>4, <3>2 DEF SentWritten
  <2>6. \A p : ~ SentEdit(p)'
    BY <2>1, LeaveIs DEF SentEdit
  <2>. QED BY <1>1, <1>2, <2>1, <2>3, <2>5, <2>6, FineKept
<1>16. CASE \E selected \in SUBSET pending : CommitChanges(selected)
  <2>1. PICK selected \in SUBSET pending : CommitChanges(selected)
    BY <1>16
  <2>2. pc = "idle" /\ pc' = "check" /\ conflict' = None /\ UNCHANGED <<jira, steps, pending>>
    BY <2>1, CommitChangesIs
  <2>3. \A p : ~ SentEdit(p) /\ ~ SentEdit(p)'
    BY <2>2 DEF SentEdit
  <2>. QED BY <1>1, <1>2, <2>2, <2>3, FineKept
<1>. QED
  BY <1>3, <1>4, <1>5, <1>6, <1>7, <1>8, <1>9, <1>10, <1>11, <1>12, <1>13, <1>14, <1>15, <1>16, Cases

Honest ==
    /\ Versions /\ SelectedIs /\ PassHasAll /\ FieldsLive /\ Changing
    /\ RowsHonest /\ CacheHonest /\ SentWritten /\ StepsHonest
    /\ ContentCached /\ ConflictNow /\ SendsSeen

LEMMA InitHonest == Init => Honest
<1>. SUFFICES ASSUME Init PROVE Honest
  OBVIOUS
<1>1. /\ jira.ver = 1 /\ test.ver = 1 /\ version = 0 /\ pending = {} /\ rows = {} /\ conflict = None
      /\ pc = "idle" /\ only = FALSE
      /\ \A f \in Fields : jira.field[f] = Initial /\ test.field[f] = Initial
  BY DEF Init
<1>2. Versions /\ SelectedIs /\ PassHasAll /\ Changing /\ RowsHonest /\ ContentCached /\ ConflictNow /\ SendsSeen
  BY <1>1 DEF Versions, SelectedIs, PassHasAll, AllSent, Changing, RowsHonest, ContentCached, ConflictNow, SendsSeen
<1>3. FieldsLive /\ CacheHonest
  BY <1>1, TestCommitAssumption DEF FieldsLive, CacheHonest
<1>4. SentWritten
  BY <1>1 DEF SentWritten
<1>5. TextsHonest
  <2>. SUFFICES ASSUME NEW s \in DOMAIN steps, Here(s) PROVE steps[s].text = JiraText(s)
    BY DEF TextsHonest
  <2>1. Shapes
    BY InitShapes
  <2>2. PICK k \in DOMAIN jira.steps : jira.steps[k].id = s
    BY DEF Here, IdsOf
  <2>3. JiraText(s) = jira.steps[k].text
    BY <2>1, <2>2, JiraTextIs
  <2>4. steps[s].text = Initial /\ jira.steps[k].text = Initial
    BY <2>2 DEF Init
  <2>. QED BY <2>3, <2>4
<1>6. StepsHonest
  BY <1>1, <1>5 DEF StepsHonest, EditsHonest, DeletesHonest, HeldHonest
<1>. QED BY <1>2, <1>3, <1>4, <1>6 DEF Honest

LEMMA NextHonest == Shapes /\ Shown /\ Honest /\ [Next]_vars => Honest'
  BY NextVersions, NextSelectedIs, NextPassHasAll, NextFieldsLive, NextChanging, NextRowsHonest, NextCacheHonest,
     NextSentWritten, NextStepsHonest, NextContentCached, NextConflictNow, NextSendsSeen DEF Honest, Shown

LEMMA HonestSends == Shapes /\ Honest => NoBlindOverwrite
<1>. SUFFICES ASSUME Shapes, Honest, pc \in {"fields", "status", "deletes", "edits"},
                     NotMet({"race", "selected", "meanwhile", "onscreen"}), NEW r \in left, Fits(r)
              PROVE  Accounted(r)
  BY DEF NoBlindOverwrite, Fits
<1>1. r \in rows /\ ToSend(r)
  BY LeftIs DEF ToSend
<1>. QED BY <1>1 DEF Honest, SendsSeen, Plain

\* A Commit replaces nothing the user has not seen: what it sends over a text
\* was made on that text, or the user chose it over that text in a conflict,
\* unless the behaviour has met what NoBlindOverwrite exempts (a change in Jira
\* between check and push among it).
THEOREM NothingUnseenReplaced == Spec => []NoBlindOverwrite
<1>1. Shapes /\ Shown /\ [Next]_vars => Shown'
  BY NextRowsPend, NextHeldPends, NextFieldsShown, NextStepsShown, NextOrdersShown DEF Shown
<1>. QED
  BY InitShapes, NextShapes, InitShown, <1>1, InitHonest, NextHonest, HonestSends, PTL DEF Spec

-----------------------------------------------------------------------------
\* What is cleared stands in Jira.  Unless the steps were fetched anew under
\* them, what pends is drawn even after passes that broke off: but for added
\* steps that were created and not renamed, and those that were renamed.
Steady == NotMet({"refresh", "meanwhile", "onscreen", "revived"})
Drawn(r) ==
    /\ r.type = "test_step" =>
          /\ r.key \in DOMAIN steps /\ steps[r.key].text = r.after
          /\ \A q \in pending : q.type = "test_step_add" => q.key # r.key
    /\ r.type = "test_step_delete" /\ r.key > 0 => r.key \notin DOMAIN steps
    /\ r.type = "test_step_add" /\ r.key \in DOMAIN steps => steps[r.key].text = r.after[2]
AllDrawn == \A r \in pending : Drawn(r)
StepsDrawn == Steady => AllDrawn
HeldKeys == conflict # None => \A c \in conflict.held : c.row.type = "test_step_delete" => c.row.key > 0

LEMMA DrawnKept ==
    ASSUME NEW r, Drawn(r), r.key \in DOMAIN steps <=> r.key \in DOMAIN steps',
           r.key \in DOMAIN steps => steps'[r.key].text = steps[r.key].text,
           \A q \in pending' : q.type = "test_step_add" /\ q.key = r.key =>
              \E p \in pending : p.type = "test_step_add" /\ p.key = q.key
    PROVE  Drawn(r)'
BY DEF Drawn

LEMMA SameDrawn ==
    ASSUME NEW p, NEW q, Same(p, q)
    PROVE  Drawn(p) => Drawn(q)
BY DEF Drawn, Same

LEMMA EditTestFieldDrawn ==
    ASSUME Shapes, AllDrawn, NEW f \in Fields, NEW v \in Mine, EditTestField(f, v)
    PROVE  AllDrawn'
<1>1. Queue(pending, "test_case", TestKey, f, test.field[f], v) /\ steps' = steps
  BY DEF EditTestField
<1>2. ASSUME NEW r \in pending' PROVE r.type = "test_case" \/ r \in pending
  BY <1>1, QueuedRow
<1>3. ASSUME NEW r \in pending' PROVE Drawn(r)'
  <2>1. CASE r.type = "test_case"
    BY <2>1 DEF Drawn
  <2>2. CASE r \in pending
    BY <1>1, <1>2, <2>2, DrawnKept DEF AllDrawn
  <2>. QED BY <1>2, <2>1, <2>2
<1>. QED
  BY <1>3 DEF AllDrawn

LEMMA EditTestStepFieldDrawn ==
    ASSUME Shapes, AllDrawn, NEW s \in DOMAIN steps, NEW v \in Mine, EditTestStepField(s, v)
    PROVE  AllDrawn'
<1>1. /\ DOMAIN steps' = DOMAIN steps
      /\ \A e \in DOMAIN steps : steps'[e].text = IF e = s THEN v ELSE steps[e].text
  BY EditTestStepFieldIs
<1>2. s \in Int
  BY CacheIs
<1>3. CASE AddRow(s) # {}
  <2>1. pending' = Folded(pending, s, v)
    BY <1>3 DEF EditTestStepField, Folded, FoldedRow, AddRow
  <2>2. \E q \in pending : q.type = "test_step_add" /\ q.key = s
    BY <1>3, AddRowIs DEF Adds
  <2>3. ASSUME NEW r \in pending' PROVE \E p \in pending : p.type = r.type /\ p.key = r.key
    BY <2>1, FoldFrom DEF From
  <2>4. ASSUME NEW q \in pending, NEW r, r = FoldedRow(q, pending, s, v) PROVE Drawn(r)'
    <3>1. /\ r.type = q.type /\ r.key = q.key /\ r.id = q.id
          /\ IF q \in RowsAt(pending, "test_step_add", s, "step") THEN r.after = <<q.after[1], v>> ELSE r = q
      BY <2>4, FoldedRowIs DEF Shapes
    <3>2. Drawn(q)
      BY DEF AllDrawn
    <3>3. CASE q.key = s /\ q.type = "test_step_add"
      <4>1. q \in RowsAt(pending, "test_step_add", s, "step")
        BY <3>3, AddRowIs DEF AddRow, Adds
      <4>2. r.after[2] = v
        BY <3>1, <4>1
      <4>. QED BY <1>1, <3>1, <3>3, <4>2 DEF Drawn
    <3>4. CASE q.key # s
      <4>1. r = q
        BY <3>1, <3>4, AtPlace
      <4>. QED BY <1>1, <2>3, <3>2, <3>4, <4>1, DrawnKept
    <3>5. CASE q.key = s /\ q.type # "test_step_add"
      BY <2>2, <3>1, <3>2, <3>5 DEF Drawn
    <3>. QED BY <3>3, <3>4, <3>5
  <2>. QED BY <2>1, <2>4 DEF Folded, AllDrawn
<1>4. CASE AddRow(s) = {}
  <2>1. Queue(pending, "test_step", s, "action", steps[s].text, v)
    BY <1>4 DEF EditTestStepField
  <2>2. \A r \in pending' : \/ r \in pending /\ ~ (r.type = "test_step" /\ r.key = s /\ r.field = "action")
                            \/ r.type = "test_step" /\ r.key = s /\ r.field = "action" /\ r.after = v
    BY <2>1, QueuedRow
  <2>3. \A q \in pending' : q.type = "test_step_add" => q.key # s /\ q \in pending
    BY <1>4, <2>2, AddRowIs DEF Adds
  <2>4. ASSUME NEW r \in pending' PROVE Drawn(r)'
    <3>1. CASE r.type = "test_step" /\ r.key = s /\ r.after = v
      BY <1>1, <2>3, <3>1 DEF Drawn
    <3>2. CASE r \in pending /\ ~ (r.type = "test_step" /\ r.key = s /\ r.field = "action")
      <4>1. CASE r.key = s
        <5>1. r.type # "test_step"
          BY <3>2, <4>1, ShapeIs DEF Shape
        <5>2. r.type # "test_step_add"
          BY <2>3, <4>1
        <5>3. Drawn(r)
          BY <3>2 DEF AllDrawn
        <5>. QED BY <1>1, <4>1, <5>1, <5>2, <5>3 DEF Drawn
      <4>2. CASE r.key # s
        BY <1>1, <2>3, <3>2, <4>2, DrawnKept DEF AllDrawn
      <4>. QED BY <4>1, <4>2
    <3>. QED BY <2>2, <3>1, <3>2
  <2>. QED BY <2>4 DEF AllDrawn
<1>. QED
  BY <1>3, <1>4

LEMMA AddTestStepDrawn ==
    ASSUME Shapes, AllDrawn, NEW t \in Mine \cup {Blank}, AddTestStep(t)
    PROVE  AllDrawn'
<1>. DEFINE n == NextTempStepID
<1>1. /\ n \in Int /\ n < 0 /\ n \notin DOMAIN steps
      /\ DOMAIN steps' = DOMAIN steps \cup {n} /\ steps'[n] = [idx |-> NextIdx, text |-> t]
      /\ \A s \in DOMAIN steps : steps'[s] = steps[s]
      /\ Queue(pending, "test_step_add", n, "step", Blank, <<NextIdx, t>>)
  BY AddTestStepIs
<1>. HIDE DEF n
<1>2. ASSUME NEW r \in pending'
      PROVE  \/ r \in pending /\ ~ (r.type = "test_step_add" /\ r.key = n /\ r.field = "step")
             \/ r.type = "test_step_add" /\ r.key = n /\ r.field = "step" /\ r.after = <<NextIdx, t>>
  BY <1>1, QueuedRow
<1>3. ASSUME NEW r \in pending, ~ (r.type = "test_step_add" /\ r.key = n /\ r.field = "step") PROVE Drawn(r)'
  <2>1. Drawn(r) /\ Shape(r)
    BY ShapeIs DEF AllDrawn
  <2>2. CASE r.key # n
    BY <1>1, <1>2, <2>1, <2>2, DrawnKept
  <2>3. CASE r.key = n
    BY <1>1, <1>3, <2>1, <2>3 DEF Drawn, Shape
  <2>. QED BY <2>2, <2>3
<1>4. ASSUME NEW r, r.type = "test_step_add" /\ r.key = n /\ r.after = <<NextIdx, t>> PROVE Drawn(r)'
  BY <1>1, <1>4 DEF Drawn
<1>. QED
  BY <1>2, <1>3, <1>4 DEF AllDrawn

LEMMA DeleteTestStepDrawn ==
    ASSUME Shapes, AllDrawn, NEW s \in DOMAIN steps, DeleteTestStep(s)
    PROVE  AllDrawn'
<1>1. DOMAIN steps' = DOMAIN steps \ {s} /\ \A e \in DOMAIN steps' : steps'[e] = steps[e]
  BY DeleteTestStepIs
<1>2. ASSUME \A q \in pending' : q.type = "test_step_add" => q \in pending,
             NEW r \in pending, r.key # s PROVE Drawn(r)'
  BY <1>1, <1>2, DrawnKept DEF AllDrawn
<1>3. CASE AddRow(s) # {}
  <2>1. pending' = Pruned(pending \ AddRow(s), s) /\ Table(pending \ AddRow(s), lastRow, born)
    BY <1>3, TableSubset DEF DeleteTestStep, Shapes
  <2>2. ASSUME NEW r \in pending'
        PROVE  r.type = "test_step_order" \/ (r \in pending /\ ~ Adds(r, s))
    <3>1. PICK q \in pending \ AddRow(s) : r = PrunedRow(q, s)
      BY <2>1, PrunedIs
    <3>2. q \in pending /\ ~ Adds(q, s)
      BY <3>1, AddRowIs
    <3>3. q.type = "test_step_order" => r.type = "test_step_order"
      BY <3>1, <3>2, PrunedRowIs, ShapeIs
    <3>. QED BY <3>1, <3>2, <3>3 DEF PrunedRow
  <2>3. \E q \in pending : q.type = "test_step_add" /\ q.key = s
    BY <1>3, AddRowIs DEF Adds
  <2>4. ASSUME NEW r \in pending' PROVE Drawn(r)'
    <3>1. CASE r.type = "test_step_order"
      BY <3>1 DEF Drawn
    <3>2. CASE r \in pending /\ r.key # s
      BY <1>2, <2>2, <3>2
    <3>3. CASE r \in pending /\ r.key = s /\ ~ Adds(r, s)
      <4>1. Drawn(r)
        BY <3>3 DEF AllDrawn
      <4>. QED BY <1>1, <2>3, <3>3, <4>1 DEF Drawn, Adds
    <3>. QED BY <2>2, <3>1, <3>2, <3>3
  <2>. QED BY <2>4 DEF AllDrawn
<1>4. CASE AddRow(s) = {}
  <2>. DEFINE j == {r \in pending : r.type # "test_step" \/ r.key # s}
  <2>1. Queue(j, "test_step_delete", s, "step", Snapshot(steps[s]), Blank) /\ j \subseteq pending
    BY <1>4 DEF DeleteTestStep
  <2>2. \A r \in pending : r.type = "test_step_add" => r.key # s
    BY <1>4, AddRowIs DEF Adds
  <2>3. \A r \in j : r \in pending /\ (r.type # "test_step" \/ r.key # s)
    OBVIOUS
  <2>. HIDE DEF j
  <2>4. ASSUME NEW r \in pending'
        PROVE  \/ r \in j /\ ~ (r.type = "test_step_delete" /\ r.key = s /\ r.field = "step")
               \/ r.type = "test_step_delete" /\ r.key = s /\ r.field = "step" /\ r.after = Blank
    BY <2>1, QueuedRow
  <2>5. ASSUME NEW r \in pending' PROVE Drawn(r)'
    <3>1. CASE r.type = "test_step_delete" /\ r.key = s
      BY <1>1, <3>1 DEF Drawn
    <3>2. CASE r \in j /\ r.key # s
      BY <1>2, <2>3, <2>4, <3>2
    <3>3. CASE r \in j /\ r.key = s /\ r.type # "test_step_delete"
      BY <2>2, <2>3, <3>3 DEF Drawn
    <3>. QED BY <2>4, <3>1, <3>2, <3>3
  <2>. QED BY <2>5 DEF AllDrawn
<1>. QED
  BY <1>3, <1>4

LEMMA ReorderTestStepsDrawn ==
    ASSUME Shapes, AllDrawn, NEW i \in 1..Cardinality(DOMAIN steps), ReorderTestSteps(i)
    PROVE  AllDrawn'
<1>1. DOMAIN steps' = DOMAIN steps /\ \A s \in DOMAIN steps : steps'[s].text = steps[s].text
  BY ReorderTestStepsIs
<1>2. PICK x, y : Queue(pending, "test_step_order", TestKey, "order", x, y)
  BY ReorderTestStepsIs
<1>3. ASSUME NEW r \in pending' PROVE r.type = "test_step_order" \/ r \in pending
  BY <1>2, QueuedRow
<1>4. ASSUME NEW r \in pending' PROVE Drawn(r)'
  <2>1. CASE r.type = "test_step_order"
    BY <2>1 DEF Drawn
  <2>2. CASE r \in pending
    BY <1>1, <1>3, <2>2, DrawnKept DEF AllDrawn
  <2>. QED BY <1>3, <2>1, <2>2
<1>. QED
  BY <1>4 DEF AllDrawn

LEMMA DiscardDrawn ==
    ASSUME Shapes, AllDrawn, NEW d \in pending, DiscardPendingChange(d), "revived" \notin met'
    PROVE  AllDrawn'
<1>1. Shape(d) /\ Drawn(d) /\ d.type \in Types /\ d.key \in Int
  BY ShapeIs, RowIs DEF AllDrawn
<1>2. ASSUME NEW r \in pending' PROVE r \in pending /\ r # d /\ Drawn(r) /\ Shape(r)
  BY DiscardIs, ShapeIs DEF AllDrawn, Delete
<1>3. ASSUME DOMAIN steps' = DOMAIN steps, \A s \in DOMAIN steps : steps'[s].text = steps[s].text
      PROVE  AllDrawn'
  <2>1. \A r \in pending' : Drawn(r)'
    BY <1>2, <1>3, DrawnKept
  <2>. QED BY <2>1 DEF AllDrawn
<1>4. CASE d.type = "test_case"
  BY <1>3, <1>4 DEF DiscardPendingChange
<1>5. CASE d.type = "test_step_order"
  <2>1. steps' = StepsInOrder(d.before) /\ d.before \in Seq(Int)
    BY <1>1, <1>5 DEF DiscardPendingChange, Shape
  <2>. QED BY <1>3, <2>1, StepsInOrderIs
<1>6. CASE d.type = "test_step"
  <2>1. DOMAIN steps' = DOMAIN steps /\ \A s \in DOMAIN steps : s # d.key => steps'[s] = steps[s]
    BY <1>1, <1>6 DEF DiscardPendingChange, Drawn
  <2>2. ASSUME NEW r \in pending' PROVE Drawn(r)'
    <3>1. CASE r.key # d.key
      BY <1>2, <2>1, <3>1, DrawnKept
    <3>2. CASE r.key = d.key
      <4>1. r.type # "test_step"
        BY <1>1, <1>2, <1>6, <3>2, ShapeIs DEF Shape
      <4>2. r.type # "test_step_add"
        BY <1>1, <1>2, <1>6, <3>2 DEF Drawn
      <4>. QED BY <1>2, <2>1, <4>1, <4>2 DEF Drawn
    <3>. QED BY <3>1, <3>2
  <2>. QED BY <2>2 DEF AllDrawn
<1>7. CASE d.type = "test_step_delete"
  <2>1. steps' = With(steps, d.key, [idx |-> d.before[1], text |-> d.before[2]]) /\ d.key \notin DOMAIN steps
    BY <1>7 DEF DiscardPendingChange
  <2>2. d.key > 0
    <3>1. Names(d, born)
      BY ShapeIs
    <3>2. d.key # 0
      BY <1>7, <3>1 DEF Names, Known
    <3>3. ~ d.key < 0
      BY <1>7 DEF DiscardPendingChange, Act, Revived
    <3>. QED BY <1>1, <3>2, <3>3
  <2>3. DOMAIN steps' = DOMAIN steps \cup {d.key} /\ \A s \in DOMAIN steps : steps'[s] = steps[s]
    BY <2>1 DEF With
  <2>4. ASSUME NEW r \in pending' PROVE Drawn(r)'
    <3>1. CASE r.key # d.key
      BY <1>2, <2>3, <3>1, DrawnKept
    <3>2. CASE r.key = d.key
      <4>1. r.type # "test_step"
        BY <1>2, <2>1, <3>2 DEF Drawn
      <4>2. r.type # "test_step_add"
        BY <1>1, <1>2, <2>2, <3>2 DEF Shape
      <4>3. r.type # "test_step_delete"
        BY <1>1, <1>2, <1>7, <3>2, ShapeIs DEF Shape
      <4>. QED BY <4>1, <4>2, <4>3 DEF Drawn
    <3>. QED BY <3>1, <3>2
  <2>. QED BY <2>4 DEF AllDrawn
<1>8. CASE d.type = "test_step_add"
  <2>1. DOMAIN steps' = DOMAIN steps \ {d.key} /\ \A s \in DOMAIN steps' : steps'[s] = steps[s]
    BY <1>8 DEF DiscardPendingChange, Only
  <2>2. ASSUME NEW r \in pending' PROVE Drawn(r)'
    <3>1. CASE r.key # d.key
      BY <1>2, <2>1, <3>1, DrawnKept
    <3>2. CASE r.key = d.key
      <4>1. r.type # "test_step"
        BY <1>2, <1>8, <3>2 DEF Drawn
      <4>2. r.type # "test_step_add"
        BY <1>1, <1>2, <1>8, <3>2, ShapeIs DEF Shape
      <4>. QED BY <1>2, <2>1, <4>1, <4>2 DEF Drawn
    <3>. QED BY <3>1, <3>2
  <2>. QED BY <2>2 DEF AllDrawn
<1>. QED
  BY <1>1, <1>4, <1>5, <1>6, <1>7, <1>8 DEF Types

LEMMA ResolveDrawn ==
    ASSUME Shapes, AllDrawn, HeldKeys, \A c \in conflict.held : c.row \in pending,
           NEW theirs, ResolveConflict(theirs)
    PROVE  AllDrawn'
<1>1. \A c \in Taken(theirs) : c.row \in pending /\ Drawn(c.row) /\ c.row.id \in theirs
  BY DEF Taken, AllDrawn
<1>2. /\ DOMAIN steps' = DOMAIN steps \cup {c.row.key : c \in Undone(theirs)}
      /\ \A s \in DOMAIN steps' :
            IF \E c \in Undone(theirs) : c.row.key = s
            THEN \E c \in Undone(theirs) : c.row.key = s /\ steps'[s].text = c.remote[2]
            ELSE /\ s \in DOMAIN steps
                 /\ IF TextOf(theirs, s) # {} THEN \E c \in TextOf(theirs, s) : steps'[s].text = c.remote
                    ELSE steps'[s].text = steps[s].text
  BY ResolvedSteps
<1>3. \A c \in Undone(theirs) : c.row.key > 0 /\ c.row.key \notin DOMAIN steps /\ c.row.key \in Int
  <2>1. conflict # None
    BY ResolveIs
  <2>. QED BY <1>1, <2>1, ShapeIs DEF Undone, Drawn, HeldKeys, Taken
<1>4. ASSUME NEW r \in pending' PROVE Drawn(r)'
  <2>1. PICK q \in pending : Same(q, r) /\ q.id \notin theirs
    BY ResolvedRows
  <2>2. Drawn(q) /\ Shape(q)
    BY ShapeIs DEF AllDrawn
  <2>3. Drawn(r)
    BY <2>1, <2>2, SameDrawn
  <2>4. CASE r.type = "test_step"
    <3>1. /\ r.key \in DOMAIN steps /\ steps[r.key].text = r.after
          /\ \A p \in pending : p.type = "test_step_add" => p.key # r.key
      BY <2>3, <2>4 DEF Drawn
    <3>2. ~ \E c \in Undone(theirs) : c.row.key = r.key
      BY <1>3, <3>1
    <3>3. TextOf(theirs, r.key) = {}
      <4>. SUFFICES ASSUME NEW c \in TextOf(theirs, r.key) PROVE FALSE
        OBVIOUS
      <4>1. c.row \in pending /\ c.row.type = "test_step" /\ c.row.key = q.key /\ c.row.id \in theirs
        BY <1>1, <2>1 DEF TextOf, Same
      <4>2. c.row.field = "action" /\ q.field = "action" /\ q.type = "test_step"
        BY <2>1, <2>2, <2>4, <4>1, ShapeIs DEF Shape, Same
      <4>. QED BY <2>1, <4>1, <4>2, ShapeIs
    <3>4. ASSUME NEW p \in pending', p.type = "test_step_add" PROVE p.key # r.key
      <4>1. PICK m \in pending : Same(m, p)
        BY ResolvedRows
      <4>. QED BY <3>1, <3>4, <4>1 DEF Same
    <3>. QED BY <1>2, <2>4, <3>1, <3>2, <3>3, <3>4 DEF Drawn
  <2>5. CASE r.type = "test_step_delete" /\ r.key > 0
    <3>1. r.key \notin DOMAIN steps
      BY <2>3, <2>5 DEF Drawn
    <3>2. ASSUME NEW c \in Undone(theirs), c.row.key = r.key PROVE FALSE
      <4>1. c.row \in pending /\ c.row.type = "test_step_delete" /\ c.row.key = q.key /\ c.row.id \in theirs
        BY <1>1, <2>1, <3>2 DEF Undone, Same
      <4>2. c.row.field = "step" /\ q.field = "step" /\ q.type = "test_step_delete"
        BY <2>1, <2>2, <2>5, <4>1, ShapeIs DEF Shape, Same
      <4>. QED BY <2>1, <4>1, <4>2, ShapeIs
    <3>. QED BY <1>2, <2>5, <3>1, <3>2 DEF Drawn
  <2>6. CASE r.type = "test_step_add" /\ r.key \in DOMAIN steps'
    <3>1. r.key < 0 /\ r.key \in Int
      BY <2>1, <2>2, <2>6, ShapeIs DEF Shape, Same
    <3>2. ~ \E c \in Undone(theirs) : c.row.key = r.key
      BY <1>3, <3>1
    <3>3. r.key \in DOMAIN steps /\ steps[r.key].text = r.after[2]
      BY <1>2, <2>3, <2>6, <3>2 DEF Drawn
    <3>4. TextOf(theirs, r.key) = {}
      <4>. SUFFICES ASSUME NEW c \in TextOf(theirs, r.key) PROVE FALSE
        OBVIOUS
      <4>1. Drawn(c.row) /\ c.row.type = "test_step" /\ c.row.key = q.key /\ q.type = "test_step_add"
        BY <1>1, <2>1, <2>6 DEF TextOf, Same
      <4>. QED BY <4>1 DEF Drawn
    <3>. QED BY <1>2, <2>6, <3>2, <3>3, <3>4 DEF Drawn
  <2>7. CASE r.type \notin {"test_step", "test_step_add", "test_step_delete"}
    BY <2>7 DEF Drawn
  <2>. QED BY <2>4, <2>5, <2>6, <2>7 DEF Drawn
<1>. QED
  BY <1>4 DEF AllDrawn

\* Rows that look as those there were are drawn as they were.
LEMMA SameRowsDrawn ==
    ASSUME AllDrawn, steps' = steps, \A r \in pending' : \E q \in pending : Same(q, r)
    PROVE  AllDrawn'
<1>1. ASSUME NEW r \in pending' PROVE Drawn(r)'
  <2>1. Drawn(r)
    BY SameDrawn DEF AllDrawn
  <2>2. ASSUME NEW q \in pending', q.type = "test_step_add" PROVE \E p \in pending : p.type = "test_step_add" /\ p.key = q.key
    BY <2>2 DEF Same
  <2>. QED BY <2>1, <2>2, DrawnKept
<1>. QED
  BY <1>1 DEF AllDrawn

LEMMA CreateStepDrawn ==
    ASSUME Shapes, AllDrawn, \A q \in rows : \E p \in pending : Same(p, q), NEW x \in left, CreateStep(x)
    PROVE  AllDrawn'
<1>1. pc = "adds" /\ pending' = pending /\ (steps' = steps \/ RenameTestStepID(x.key, born + 1))
  BY CreatesIs
<1>2. x \in rows /\ Shape(x) /\ x.type = "test_step_add" /\ x.key < 0 /\ x.key \in Int
  BY <1>1, LeftIs, ShapeIs DEF Shape
<1>3. CASE steps' = steps
  BY <1>1, <1>3, SameRowsDrawn DEF Same
<1>4. CASE RenameTestStepID(x.key, born + 1)
  <2>1. PICK m \in pending : Same(m, x)
    BY <1>2
  <2>2. /\ born + 1 \notin DOMAIN steps /\ born \in Nat
        /\ x.key \notin DOMAIN steps => steps' = steps
        /\ x.key \in DOMAIN steps => DOMAIN steps' = (DOMAIN steps \ {x.key}) \cup {born + 1}
        /\ \A s \in DOMAIN steps : s # x.key => s \in DOMAIN steps' /\ steps'[s] = steps[s]
    BY <1>2, <1>4, RenamedIs DEF Shapes
  <2>3. ASSUME NEW r \in pending PROVE Drawn(r)'
    <3>1. Drawn(r) /\ Shape(r) /\ Names(r, born) /\ r.key \in Int
      BY ShapeIs DEF AllDrawn
    <3>2. r.type \in {"test_step", "test_step_delete", "test_step_add"} => r.key <= born /\ r.key # born + 1
      BY <2>2, <3>1 DEF Names, Known
    <3>3. CASE r.type = "test_step"
      <4>1. r.key # x.key /\ r.key \in DOMAIN steps
        BY <1>2, <2>1, <3>1, <3>3 DEF Drawn, Same
      <4>. QED BY <1>1, <2>2, <3>1, <3>3, <4>1 DEF Drawn
    <3>4. CASE r.type = "test_step_delete"
      BY <2>2, <3>1, <3>2, <3>4 DEF Drawn
    <3>5. CASE r.type = "test_step_add"
      BY <2>2, <3>1, <3>2, <3>5 DEF Drawn
    <3>. QED BY <3>3, <3>4, <3>5 DEF Drawn
  <2>. QED BY <1>1, <2>3 DEF AllDrawn
<1>. QED
  BY <1>1, <1>3, <1>4

LEMMA NextStepsDrawn == Shapes /\ RowsPend /\ HeldPends /\ HeldKeys /\ StepsDrawn /\ [Next]_vars => StepsDrawn'
<1>. SUFFICES ASSUME Shapes, RowsPend, HeldPends, HeldKeys, StepsDrawn, [Next]_vars, Steady' PROVE AllDrawn'
  BY DEF StepsDrawn
<1>0. /\ AllDrawn
      /\ conflict # None => \A c \in conflict.held : c.row \in pending
      /\ pc \notin {"idle", "rebase"} => \A q \in rows : \E p \in pending : Same(p, q)
      /\ met' \cap {"onscreen", "refresh", "meanwhile", "revived"} = {}
  <2>1. met \subseteq met'
    BY NextMet
  <2>. QED BY <2>1 DEF StepsDrawn, Steady, NotMet, RowsPend, HeldPends
<1>1. ASSUME UNCHANGED <<steps, pending>> PROVE AllDrawn'
  BY <1>0, <1>1 DEF AllDrawn, Drawn
<1>2. CASE UNCHANGED vars
  BY <1>1, <1>2 DEF vars, local
<1>3. CASE EditStep
  BY <1>0, <1>3, EditTestFieldDrawn, EditTestStepFieldDrawn, AddTestStepDrawn, DeleteTestStepDrawn,
     ReorderTestStepsDrawn DEF EditStep
<1>4. CASE \E d \in pending : DiscardPendingChange(d)
  BY <1>0, <1>4, DiscardDrawn
<1>5. CASE RefreshSteps
  <2>1. \A r \in pending' : r.type = "test_case"
    BY <1>0, <1>5, RefreshIs DEF IsStepRow
  <2>. QED BY <2>1 DEF AllDrawn, Drawn
<1>6. CASE SyncTest \/ RemoteEdit
  BY <1>1, <1>6, SyncIs, RemoteEditIs
<1>7. CASE \E theirs : ResolveConflict(theirs)
  BY <1>0, <1>7, ResolveDrawn, ResolveIs
<1>8. CASE \E selected \in SUBSET pending : CommitChanges(selected)
  BY <1>1, <1>8, CommitChangesIs
<1>9. CASE DetectConflicts
  <2>1. Table(Open, lastRow, born) /\ version \in Nat /\ Open \subseteq pending
    BY TableSubset, DeleteIs DEF Open, Shapes
  <2>2. steps' = steps /\ (pending' = Open \/ pending' = Rebased(Open, version))
    BY <1>9, DetectIs
  <2>3. \A r \in pending' : \E q \in pending : Same(q, r)
    BY <2>1, <2>2, RebasedIs DEF Same
  <2>. QED BY <1>0, <2>2, <2>3, SameRowsDrawn
<1>10. CASE Sends
  BY <1>1, <1>10, SendsIs
<1>11. CASE \E x \in left : CreateStep(x)
  <2>1. pc = "adds"
    BY <1>11, CreatesIs
  <2>. QED BY <1>0, <1>11, <2>1, CreateStepDrawn
<1>12. CASE ClearRows
  <2>1. steps' = steps /\ pending' \subseteq pending
    BY <1>12, EndsAre DEF Delete
  <2>. QED BY <1>0, <2>1, SameRowsDrawn DEF Same
<1>13. CASE RebaseRest
  <2>1. pending' = Rebased(pending, jira.ver) /\ steps' = steps
    BY <1>13, EndsAre
  <2>2. Table(pending, lastRow, born) /\ jira.ver \in Nat
    BY JiraIs DEF Shapes
  <2>3. \A r \in pending' : \E q \in pending : Same(q, r)
    BY <2>1, <2>2, RebasedSame
  <2>. QED BY <1>0, <2>1, <2>3, SameRowsDrawn
<1>14. CASE RefusedEnds \/ Fault
  BY <1>1, <1>14, EndsAre
<1>. QED
  BY <1>2, <1>3, <1>4, <1>5, <1>6, <1>7, <1>8, <1>9, <1>10, <1>11, <1>12, <1>13, <1>14, Cases

LEMMA NextHeldKeys == Shapes /\ HeldKeys /\ [Next]_vars => HeldKeys'
<1>. SUFFICES ASSUME Shapes, HeldKeys, [Next]_vars PROVE HeldKeys'
  OBVIOUS
<1>1. CASE conflict' \in {None, conflict}
  BY <1>1 DEF HeldKeys
<1>2. CASE DetectConflicts
  <2>. SUFFICES ASSUME NEW c \in HeldBack, c.row.type = "test_step_delete" PROVE c.row.key > 0
    BY <1>1, <1>2, DetectIs DEF HeldKeys
  <2>1. c.row \in rows /\ ~ AlreadyThere(c.row)
    BY DEF HeldBack, Rest, There
  <2>2. Exists(c.row)
    BY <2>1, RemoteIs, ShapeIs DEF AlreadyThere
  <2>. QED BY <2>2, JiraIs DEF Exists, IdsOf
<1>3. ASSUME ~ DetectConflicts PROVE conflict' \in {None, conflict}
  <2>1. CASE UNCHANGED vars
    BY <2>1 DEF vars
  <2>2. CASE EditStep
    BY <2>2, EditStepIs, EditIs
  <2>3. CASE \E d \in pending : DiscardPendingChange(d)
    BY <2>3, DiscardIs
  <2>4. CASE RefreshSteps \/ SyncTest \/ RemoteEdit
    BY <2>4, RefreshIs, SyncIs, RemoteEditIs
  <2>5. CASE \E theirs : ResolveConflict(theirs)
    BY <2>5, ResolveIs
  <2>6. CASE Sends
    BY <2>6, SendsIs
  <2>7. CASE \E x \in left : CreateStep(x)
    BY <2>7, CreatesIs
  <2>8. CASE ClearRows \/ RebaseRest \/ RefusedEnds \/ Fault
    BY <2>8, EndsAre
  <2>9. CASE \E selected \in SUBSET pending : CommitChanges(selected)
    BY <2>9, CommitChangesIs
  <2>. QED BY <1>3, <2>1, <2>2, <2>3, <2>4, <2>5, <2>6, <2>7, <2>8, <2>9, Cases
<1>. QED
  BY <1>1, <1>2, <1>3

\* What a pass that nothing disturbs has sent stands in Jira: fields, edits,
\* deletes, adds, and, move by move, the places of the queued order.
Quiet == Steady /\ NotMet({"race"})
FieldsStand == Quiet => \A r \in rows : SentField(r) => jira.field[r.field] = r.after
EditsStand == Quiet => \A r \in rows : SentEdit(r) => Here(r.key) /\ JiraText(r.key) = r.after
SentDelete(r) == r.type = "test_step_delete" /\
    (pc \in {"edits", "adds", "moves", "clear"} \/ (pc = "deletes" /\ r \notin left))
DeletesStand == Quiet => \A r \in rows : SentDelete(r) => r.key > 0 /\ ~ Here(r.key)
SentAdd(r) == r.type = "test_step_add" /\ (pc \in {"moves", "clear"} \/ (pc = "adds" /\ r \notin left))
AddsStand == Quiet => \A r \in rows : SentAdd(r) => \E k \in DOMAIN jira.steps :
    /\ jira.steps[k].row = r.id /\ jira.steps[k].text = r.after[2]
    /\ jira.steps[k].id \in DOMAIN steps => steps[jira.steps[k].id].text = r.after[2]

\* The steps of a pass while nothing disturbs it.
Sent == {"status", "deletes", "edits", "adds", "moves", "clear"}
Pauses == UNCHANGED <<jira, born, rows, left, pc, idMap, moves, pending>> /\ (steps' = steps \/ RefreshSteps)

LEMMA PassSteps ==
    ASSUME Shapes, [Next]_vars, met' \cap {"race", "meanwhile"} = {}, pc' \in Sent
    PROVE  Sends \/ (\E r \in left : CreateStep(r)) \/ Pauses
<1>1. CASE UNCHANGED vars
  BY <1>1 DEF vars, commit, local, Pauses
<1>2. CASE EditStep
  BY <1>2, EditStepIs, EditIs DEF Sent
<1>3. CASE \E d \in pending : DiscardPendingChange(d)
  BY <1>3, DiscardIs DEF Sent
<1>4. CASE RefreshSteps
  BY <1>4 DEF RefreshSteps, Pauses, commit
<1>5. CASE SyncTest \/ (\E theirs : ResolveConflict(theirs))
  BY <1>5, SyncIs, ResolveIs, ResolveMet DEF Sent
<1>6. CASE RemoteEdit
  BY <1>6, RemoteEditIs DEF Sent
<1>7. CASE \E selected \in SUBSET pending : CommitChanges(selected)
  BY <1>7, CommitChangesIs DEF Sent
<1>8. CASE DetectConflicts
  BY <1>8, DetectIs, LeaveIs DEF Sent
<1>9. CASE ClearRows \/ RebaseRest \/ RefusedEnds \/ Fault
  BY <1>9, EndsAre, LeaveIs DEF Sent
<1>. QED
  BY <1>1, <1>2, <1>3, <1>4, <1>5, <1>6, <1>7, <1>8, <1>9, Cases

LEMMA QuietIs ==
    ASSUME Shapes, [Next]_vars, Quiet'
    PROVE  Quiet /\ met' \cap {"race", "meanwhile"} = {} /\ "refresh" \notin met' /\ Steady
<1>1. met \subseteq met'
  BY NextMet
<1>. QED BY <1>1 DEF Quiet, Steady, NotMet

LEMMA NextFieldsStand == Shapes /\ FieldsStand /\ [Next]_vars => FieldsStand'
<1>. SUFFICES ASSUME Shapes, FieldsStand, [Next]_vars, Quiet', NEW r \in rows', SentField(r)'
              PROVE  jira'.field[r.field] = r.after
  BY DEF FieldsStand
<1>1. /\ \A q \in rows : SentField(q) => jira.field[q.field] = q.after
      /\ Sends \/ (\E x \in left : CreateStep(x)) \/ Pauses
  BY QuietIs, PassSteps DEF FieldsStand, SentField, Sent
<1>2. CASE Pauses
  BY <1>1, <1>2 DEF Pauses, SentField
<1>3. CASE \E x \in left : CreateStep(x)
  <2>1. pc = "adds" /\ rows' = rows /\ jira'.field = jira.field
    BY <1>3, CreateStepIs, LandAddIs
  <2>. QED BY <1>1, <2>1 DEF SentField
<1>4. CASE Sends
  <2>0. rows' = rows /\ r \in rows /\ Shape(r) /\ r.type = "test_case" /\ r.field \in Fields /\ r.key = TestKey
    BY <1>4, SendsIs, ShapeIs DEF SentField, Shape
  <2>1. CASE UpdateIssue
    <3>1. pc = "fields" /\ pc' = "status" /\ r \in left /\ LandFields
      BY <2>0, <2>1 DEF UpdateIssue, Enter, SentField, Shapes, Phases, FieldRows, OfType
    <3>2. \A q \in RowsAt(left, "test_case", TestKey, r.field) : q = r
      BY <2>0, <3>1, ShapeIs DEF RowsAt, Shapes, WellKeyed
    <3>3. r \in RowsAt(left, "test_case", TestKey, r.field)
      BY <2>0, <3>1 DEF RowsAt
    <3>4. AfterVal(left, "test_case", TestKey, r.field, jira.field[r.field]) = r.after
      BY <3>2, <3>3 DEF AfterVal, RowAt
    <3>. QED BY <2>0, <3>1, <3>4, LandFieldsIs
  <2>2. CASE ApplyTransition
    <3>1. pc = "status" /\ left = StatusRows(rows) /\ ((left = {} /\ jira' = jira) \/ \E q \in left : LandStatus(q))
      BY <2>2 DEF ApplyTransition, Shapes, Phases
    <3>2. CASE left = {} /\ jira' = jira
      <4>1. r.field # "status"
        BY <2>0, <3>1, <3>2 DEF StatusRows, OfType
      <4>. QED BY <1>1, <2>0, <3>1, <3>2, <4>1 DEF SentField
    <3>3. CASE \E q \in left : LandStatus(q)
      <4>1. PICK q \in left : LandStatus(q)
        BY <3>3
      <4>2. \A f \in Fields : jira'.field[f] = IF f = q.field THEN q.after ELSE jira.field[f]
        BY <3>1, <4>1, LandStatusIs
      <4>3. q \in rows /\ q.type = "test_case" /\ q.field = "status" /\ q.key = TestKey
        BY <3>1, <4>1, LeftIs DEF Shape
      <4>4. CASE r.field = "status"
        <5>1. q = r
          BY <2>0, <4>3, <4>4, ShapeIs DEF WellKeyed
        <5>. QED BY <2>0, <4>2, <5>1
      <4>5. CASE r.field # "status"
        BY <1>1, <2>0, <3>1, <4>2, <4>3, <4>5 DEF SentField
      <4>. QED BY <4>4, <4>5
    <3>. QED BY <3>1, <3>2, <3>3
  <2>3. CASE RemoteVersion
    BY <2>3 DEF RemoteVersion, Enter, SentField
  <2>4. CASE PhaseDone \/ ReadOrder \/ MoveTestStep \/ MovesDone \/ \E x \in left : RemoteDeleteStep(x) \/ UpdateTestStep(x)
    <3>1. pc \in {"deletes", "edits", "adds", "moves"}
      BY <2>4 DEF PhaseDone, ReadOrder, MoveTestStep, MovesDone, RemoteDeleteStep, UpdateTestStep
    <3>2. jira'.field = jira.field
      BY <1>4, <3>1, LandsAre, LandsFields
    <3>. QED BY <1>1, <2>0, <3>1, <3>2 DEF SentField
  <2>. QED BY <1>4, <2>1, <2>2, <2>3, <2>4 DEF Sends
<1>. QED
  BY <1>1, <1>2, <1>3, <1>4

LEMMA SentEditIs ==
    ASSUME Shapes, NEW r \in rows
    PROVE  SentEdit(r) <=> /\ r.type = "test_step"
                           /\ pc \in {"adds", "moves", "clear"} \/ (pc = "edits" /\ r \notin left)
BY ShapeIs DEF SentEdit

\* What a call that lands does to the ids in Jira.
LEMMA SendsIds ==
    ASSUME Shapes, Sends, pc \in {"edits", "adds", "moves"}
    PROVE  IdsOf(jira'.steps) = IdsOf(jira.steps)
<1>1. jira' = jira \/ Lands
  BY LandsAre
<1>2. CASE pc = "edits" /\ Lands
  <2>1. PICK q \in left : Exists(q) /\ LandEdit(q)
    BY <1>2 DEF Lands
  <2>2. q.after \in Texts
    BY <1>2, <2>1, LeftIs, TextsIs DEF Shape
  <2>. QED BY <2>1, <2>2, LandEditIs
<1>3. CASE pc = "adds"
  <2>1. ReadOrder
    BY <1>3 DEF Sends, UpdateIssue, ApplyTransition, PhaseDone, MoveTestStep, MovesDone, RemoteVersion,
                RemoteDeleteStep, UpdateTestStep
  <2>. QED BY <2>1 DEF ReadOrder
<1>4. CASE pc = "moves" /\ Lands
  <2>1. PICK k \in moves : Coming(k) /\ Movable(k) /\ LandMove(k)
    BY <1>4 DEF Lands
  <2>. QED BY <1>4, <2>1, LandMoveIs
<1>. QED
  BY <1>1, <1>2, <1>3, <1>4

LEMMA NextEditsStand ==
    Shapes /\ Shapes' /\ RowsPend /\ ContentCached /\ StepsDrawn /\ EditsStand /\ [Next]_vars => EditsStand'
<1>. SUFFICES ASSUME Shapes, Shapes', RowsPend, ContentCached, StepsDrawn, EditsStand, [Next]_vars, Quiet',
                     NEW r \in rows', SentEdit(r)'
              PROVE  Here(r.key)' /\ JiraText(r.key)' = r.after
  BY DEF EditsStand
<1>1. /\ \A q \in rows : SentEdit(q) => Here(q.key) /\ JiraText(q.key) = q.after
      /\ Sends \/ (\E x \in left : CreateStep(x)) \/ Pauses
      /\ AllDrawn /\ NotMet({"refresh", "meanwhile"})
  BY QuietIs, PassSteps DEF EditsStand, StepsDrawn, SentEdit, Sent, Quiet, Steady, NotMet
<1>2. r.type = "test_step" /\ (pc' \in {"adds", "moves", "clear"} \/ (pc' = "edits" /\ r \notin left'))
  <2>1. \A q \in rows' : q.id = r.id => q = r
    BY DEF Shapes, Table, WellKeyed
  <2>. QED BY <2>1 DEF SentEdit
<1>3. CASE Pauses
  BY <1>1, <1>3 DEF Pauses, SentEdit, Here, JiraText
<1>4. ASSUME rows' = rows PROVE r \in rows /\ Shape(r) /\ Names(r, born) /\ r.key <= born /\ r.field = "action" /\ r.after \in Texts
  BY <1>2, <1>4, ShapeIs, TextsIs DEF Shape, Names, Known
<1>5. CASE \E x \in left : CreateStep(x)
  <2>1. PICK x \in left : CreateStep(x)
    BY <1>5
  <2>2. /\ pc = "adds" /\ rows' = rows /\ LandAdd(x) /\ born \in Nat
        /\ IdsOf(jira'.steps) = IdsOf(jira.steps) \cup {born + 1}
    BY <2>1, CreateStepIs, LandAddIs DEF Shapes
  <2>3. Here(r.key) /\ JiraText(r.key) = r.after
    BY <1>1, <1>2, <1>4, <2>2, SentEditIs
  <2>4. Here(r.key)' /\ r.key # born + 1
    BY <1>4, <2>2, <2>3 DEF Here
  <2>5. JiraText(r.key)' = JiraText(r.key)
    BY <2>2, <2>4, AddTexts
  <2>. QED BY <2>3, <2>4, <2>5
<1>6. CASE Sends
  <2>0. rows' = rows
    BY <1>6, SendsIs
  <2>1. CASE UpdateIssue \/ ApplyTransition \/ RemoteVersion \/ \E x \in left : RemoteDeleteStep(x)
    BY <1>2, <2>1 DEF UpdateIssue, ApplyTransition, RemoteVersion, RemoteDeleteStep, Enter
  <2>2. CASE PhaseDone \/ ReadOrder \/ MovesDone
    <3>1. jira' = jira /\ SentEdit(r)
      BY <1>2, <1>4, <2>0, <2>2, SentEditIs DEF PhaseDone, Enter, ReadOrder, MovesDone, OfType
    <3>. QED BY <1>1, <1>4, <2>0, <3>1 DEF Here, JiraText
  <2>3. CASE \E x \in left : UpdateTestStep(x)
    <3>1. PICK x \in left : UpdateTestStep(x)
      BY <2>3
    <3>2. /\ pc = "edits" /\ pc' = pc /\ Exists(x) /\ LandEdit(x) /\ left' = left \ {x}
          /\ x \in rows /\ x.type = "test_step" /\ x.field = "action" /\ x.after \in Texts
      BY <3>1, LeftIs, TextsIs DEF UpdateTestStep, Shape
    <3>3. IdsOf(jira'.steps) = IdsOf(jira.steps)
      BY <3>2, LandEditIs
    <3>4. CASE x = r
      <4>1. Here(r.key)'
        BY <3>2, <3>3, <3>4 DEF Here, Exists
      <4>. QED BY <3>2, <3>4, <4>1, EditTexts
    <3>5. CASE x # r
      <4>1. SentEdit(r) /\ x.key # r.key
        BY <1>2, <1>4, <2>0, <3>2, <3>5, SentEditIs, ShapeIs DEF WellKeyed
      <4>2. Here(r.key) /\ JiraText(r.key) = r.after
        BY <1>1, <1>4, <2>0, <4>1
      <4>3. Here(r.key)'
        BY <3>3, <4>2 DEF Here
      <4>. QED BY <3>2, <4>1, <4>2, <4>3, EditTexts
    <3>. QED BY <3>4, <3>5
  <2>4. CASE MoveTestStep
    <3>1. PICK k \in moves : Movable(k) /\ LandMove(k)
      BY <2>4 DEF MoveTestStep
    <3>2. pc = "moves" /\ IdsOf(jira'.steps) = IdsOf(jira.steps)
      BY <1>6, <2>4, SendsIds DEF MoveTestStep
    <3>3. Here(r.key) /\ JiraText(r.key) = r.after
      BY <1>1, <1>2, <1>4, <2>0, <3>2, SentEditIs
    <3>4. Here(r.key)'
      BY <3>2, <3>3 DEF Here
    <3>5. JiraText(r.key)' = IF r.key = Mover(k) THEN content[Mover(k)] ELSE JiraText(r.key)
      BY <3>1, <3>2, <3>4, MoveTexts
    <3>6. PICK p \in pending : Same(p, r)
      BY <1>1, <1>4, <2>0, <3>2 DEF RowsPend, NotMet
    <3>7. r.key \in DOMAIN steps /\ steps[r.key].text = r.after
      BY <1>1, <1>2, <3>6 DEF AllDrawn, Drawn, Same
    <3>8. content[r.key] = r.after
      BY <1>1, <3>2, <3>7 DEF ContentCached
    <3>. QED BY <3>3, <3>4, <3>5, <3>8
  <2>. QED BY <1>6, <2>1, <2>2, <2>3, <2>4 DEF Sends
<1>. QED
  BY <1>1, <1>3, <1>5, <1>6

LEMMA NextDeletesStand == Shapes /\ DeletesStand /\ [Next]_vars => DeletesStand'
<1>. SUFFICES ASSUME Shapes, DeletesStand, [Next]_vars, Quiet', NEW r \in rows', SentDelete(r)'
              PROVE  r.key > 0 /\ ~ Here(r.key)'
  BY DEF DeletesStand
<1>1. /\ \A q \in rows : SentDelete(q) => q.key > 0 /\ ~ Here(q.key)
      /\ Sends \/ (\E x \in left : CreateStep(x)) \/ Pauses
      /\ r.type = "test_step_delete"
      /\ pc' \in {"edits", "adds", "moves", "clear"} \/ (pc' = "deletes" /\ r \notin left')
  BY QuietIs, PassSteps DEF DeletesStand, SentDelete, Sent
<1>2. CASE Pauses
  BY <1>1, <1>2 DEF Pauses, SentDelete, Here
<1>3. ASSUME rows' = rows PROVE r \in rows /\ Shape(r) /\ Names(r, born) /\ r.key <= born /\ r.key \in Int
  BY <1>1, <1>3, ShapeIs DEF Names, Known
<1>4. CASE \E x \in left : CreateStep(x)
  <2>1. PICK x \in left : CreateStep(x)
    BY <1>4
  <2>2. /\ pc = "adds" /\ rows' = rows /\ born \in Nat
        /\ IdsOf(jira'.steps) = IdsOf(jira.steps) \cup {born + 1}
    BY <2>1, CreateStepIs, LandAddIs DEF Shapes
  <2>. QED BY <1>1, <1>3, <2>2 DEF SentDelete, Here
<1>5. CASE Sends
  <2>0. rows' = rows
    BY <1>5, SendsIs
  <2>1. CASE UpdateIssue \/ ApplyTransition \/ RemoteVersion
    BY <1>1, <1>3, <2>0, <2>1 DEF UpdateIssue, ApplyTransition, RemoteVersion, Enter, OfType
  <2>2. CASE PhaseDone
    <3>1. jira' = jira /\ SentDelete(r)
      BY <1>1, <1>3, <2>0, <2>2 DEF PhaseDone, Enter, SentDelete
    <3>. QED BY <1>1, <1>3, <2>0, <3>1 DEF Here
  <2>3. CASE \E x \in left : RemoteDeleteStep(x)
    <3>1. PICK x \in left : RemoteDeleteStep(x)
      BY <2>3
    <3>2. /\ pc = "deletes" /\ Exists(x) /\ LandDelete(x) /\ left' = left \ {x} /\ pc' = pc
          /\ IdsOf(jira'.steps) = IdsOf(jira.steps) \ {x.key}
      BY <3>1, LandDeleteIs DEF RemoteDeleteStep
    <3>3. CASE x = r
      <4>1. r.key \in 1..born
        BY <3>2, <3>3, JiraIs DEF Exists, IdsOf
      <4>. QED BY <3>2, <3>3, <4>1 DEF Here
    <3>4. CASE x # r
      <4>1. SentDelete(r)
        BY <1>1, <3>2, <3>4 DEF SentDelete
      <4>. QED BY <1>1, <1>3, <2>0, <3>2, <4>1 DEF Here
    <3>. QED BY <3>3, <3>4
  <2>4. CASE ReadOrder \/ MoveTestStep \/ MovesDone \/ \E x \in left : UpdateTestStep(x)
    <3>1. pc \in {"edits", "adds", "moves"}
      BY <2>4 DEF ReadOrder, MoveTestStep, MovesDone, UpdateTestStep
    <3>2. IdsOf(jira'.steps) = IdsOf(jira.steps)
      BY <1>5, <3>1, SendsIds
    <3>. QED BY <1>1, <1>3, <2>0, <3>1, <3>2 DEF SentDelete, Here
  <2>. QED BY <1>5, <2>1, <2>2, <2>3, <2>4 DEF Sends
<1>. QED
  BY <1>1, <1>2, <1>4, <1>5

LEMMA NextAddsStand ==
    Shapes /\ Shapes' /\ RowsPend /\ ContentCached /\ StepsDrawn /\ AddsStand /\ [Next]_vars => AddsStand'
<1>. SUFFICES ASSUME Shapes, Shapes', RowsPend, ContentCached, StepsDrawn, AddsStand, [Next]_vars, Quiet',
                     NEW r \in rows', SentAdd(r)'
              PROVE  \E k \in DOMAIN jira'.steps :
                        /\ jira'.steps[k].row = r.id /\ jira'.steps[k].text = r.after[2]
                        /\ jira'.steps[k].id \in DOMAIN steps' => steps'[jira'.steps[k].id].text = r.after[2]
  BY DEF AddsStand
<1>1. /\ \A q \in rows : SentAdd(q) => \E k \in DOMAIN jira.steps :
             /\ jira.steps[k].row = q.id /\ jira.steps[k].text = q.after[2]
             /\ jira.steps[k].id \in DOMAIN steps => steps[jira.steps[k].id].text = q.after[2]
      /\ Sends \/ (\E x \in left : CreateStep(x)) \/ Pauses
      /\ AllDrawn /\ NotMet({"refresh", "meanwhile"}) /\ "refresh" \notin met'
      /\ r.type = "test_step_add" /\ (pc' \in {"moves", "clear"} \/ (pc' = "adds" /\ r \notin left'))
  <2>1. AllDrawn /\ NotMet({"refresh", "meanwhile"}) /\ "refresh" \notin met' /\ met' \cap {"race", "meanwhile"} = {} /\ Quiet
    BY QuietIs DEF StepsDrawn, Quiet, Steady, NotMet
  <2>2. r.type = "test_step_add" /\ (pc' \in {"moves", "clear"} \/ (pc' = "adds" /\ r \notin left'))
    BY DEF SentAdd
  <2>3. Sends \/ (\E x \in left : CreateStep(x)) \/ Pauses
    BY <2>1, <2>2, PassSteps DEF Sent
  <2>. QED BY <2>1, <2>2, <2>3 DEF AddsStand
<1>2. CASE Pauses
  <2>1. rows' = rows /\ jira' = jira /\ pc' = pc /\ left' = left /\ pending' = pending /\ SentAdd(r)
    BY <1>1, <1>2 DEF Pauses, SentAdd
  <2>2. PICK p \in pending : Same(p, r)
    BY <1>1, <2>1 DEF RowsPend, NotMet
  <2>3. IsStepRow(p)
    BY <1>1, <2>2 DEF IsStepRow, Same
  <2>4. steps' = steps
    BY <1>1, <1>2, <2>2, <2>3, RefreshIs DEF Pauses
  <2>. QED BY <1>1, <2>1, <2>4
<1>3. CASE \E x \in left : CreateStep(x)
  <2>1. PICK x \in left : CreateStep(x)
    BY <1>3
  <2>2. /\ pc = "adds" /\ rows' = rows /\ born \in Nat /\ left' = left \ {x} /\ LandAdd(x)
        /\ pc' = pc /\ (steps' = steps \/ RenameTestStepID(x.key, born + 1))
    BY <2>1, CreateStepIs DEF Shapes
  <2>3. x \in rows /\ Shape(x) /\ x.type = "test_step_add" /\ x.key < 0 /\ x.key \in Int
    BY <2>2, LeftIs, ShapeIs DEF Shape
  <2>8. born + 1 \notin DOMAIN steps
    BY <2>2, CacheIs
  <2>9. ASSUME RenameTestStepID(x.key, born + 1)
        PROVE  /\ x.key \notin DOMAIN steps => steps' = steps
               /\ x.key \in DOMAIN steps => /\ DOMAIN steps' = (DOMAIN steps \ {x.key}) \cup {born + 1}
                                            /\ steps'[born + 1] = steps[x.key]
               /\ \A s \in DOMAIN steps : s # x.key => s \in DOMAIN steps' /\ steps'[s] = steps[s]
    BY <2>3, <2>9, RenamedIs
  <2>4. /\ born + 1 \notin DOMAIN steps
        /\ RenameTestStepID(x.key, born + 1) =>
             /\ x.key \notin DOMAIN steps => steps' = steps
             /\ x.key \in DOMAIN steps => /\ DOMAIN steps' = (DOMAIN steps \ {x.key}) \cup {born + 1}
                                          /\ steps'[born + 1] = steps[x.key]
             /\ \A s \in DOMAIN steps : s # x.key => s \in DOMAIN steps' /\ steps'[s] = steps[s]
    BY <2>8, <2>9
  <2>5. /\ Len(jira'.steps) = Len(jira.steps) + 1 /\ jira.steps \in Seq(JiraStep) /\ jira'.steps \in Seq(JiraStep)
        /\ \A k \in DOMAIN jira.steps : k \in DOMAIN jira'.steps /\ jira'.steps[k] = jira.steps[k]
        /\ jira'.steps[Len(jira.steps) + 1] = [id |-> born + 1, text |-> x.after[2], row |-> x.id]
    BY <2>2, LandAddIs, JiraIs DEF Remotes, Listing
  <2>6. CASE x = r
    <3>1. PICK p \in pending : Same(p, x)
      BY <1>1, <2>2, <2>3 DEF RowsPend, NotMet
    <3>2. x.key \in DOMAIN steps => steps[x.key].text = x.after[2]
      BY <1>1, <2>3, <3>1 DEF AllDrawn, Drawn, Same
    <3>3. born + 1 \in DOMAIN steps' => steps'[born + 1].text = x.after[2]
      BY <2>2, <2>4, <3>2
    <3>4. Len(jira.steps) + 1 \in DOMAIN jira'.steps
      BY <2>5
    <3>. QED BY <2>5, <2>6, <3>3, <3>4
  <2>7. CASE x # r
    <3>1. SentAdd(r)
      BY <1>1, <2>2, <2>7 DEF SentAdd
    <3>2. PICK k \in DOMAIN jira.steps :
             /\ jira.steps[k].row = r.id /\ jira.steps[k].text = r.after[2]
             /\ jira.steps[k].id \in DOMAIN steps => steps[jira.steps[k].id].text = r.after[2]
      BY <1>1, <2>2, <3>1
    <3>3. jira.steps[k].id \in 1..born
      BY JiraIs
    <3>4. jira.steps[k].id # x.key /\ jira.steps[k].id # born + 1
      BY <2>2, <2>3, <3>3
    <3>5. jira.steps[k].id \in DOMAIN steps' => steps'[jira.steps[k].id].text = r.after[2]
      BY <2>2, <2>4, <3>2, <3>4
    <3>. QED BY <2>5, <3>2, <3>5
  <2>. QED BY <2>6, <2>7
<1>4. CASE Sends
  <2>0. rows' = rows /\ steps' = steps
    BY <1>4, SendsIs
  <2>1. CASE UpdateIssue \/ ApplyTransition \/ RemoteVersion \/ PhaseDone
    BY <1>1, <2>0, <2>1 DEF UpdateIssue, ApplyTransition, RemoteVersion, PhaseDone, Enter, OfType
  <2>2. CASE \E x \in left : RemoteDeleteStep(x) \/ UpdateTestStep(x)
    BY <1>1, <2>2 DEF RemoteDeleteStep, UpdateTestStep
  <2>3. CASE ReadOrder \/ MovesDone
    <3>1. jira' = jira /\ SentAdd(r)
      BY <1>1, <2>3 DEF ReadOrder, MovesDone, SentAdd
    <3>. QED BY <1>1, <2>0, <3>1
  <2>4. CASE MoveTestStep
    <3>1. PICK m \in moves : Movable(m) /\ LandMove(m)
      BY <2>4 DEF MoveTestStep
    <3>2. pc = "moves" /\ SentAdd(r)
      BY <1>1, <2>4 DEF MoveTestStep, SentAdd
    <3>3. PICK k \in DOMAIN jira.steps :
             /\ jira.steps[k].row = r.id /\ jira.steps[k].text = r.after[2]
             /\ jira.steps[k].id \in DOMAIN steps => steps[jira.steps[k].id].text = r.after[2]
      BY <1>1, <2>0, <3>2
    <3>4. PICK e \in DOMAIN jira'.steps :
             /\ jira'.steps[e].id = jira.steps[k].id /\ jira'.steps[e].row = jira.steps[k].row
             /\ jira'.steps[e].text = IF jira.steps[k].id = Mover(m) THEN content[Mover(m)] ELSE jira.steps[k].text
      BY <3>1, <3>2, LandMoveIs
    <3>5. Mover(m) \in DOMAIN content
      BY <3>1 DEF Movable
    <3>6. jira.steps[k].id = Mover(m) => content[Mover(m)] = r.after[2]
      BY <1>1, <3>2, <3>3, <3>5 DEF ContentCached
    <3>. QED BY <2>0, <3>3, <3>4, <3>6
  <2>. QED BY <1>4, <2>1, <2>2, <2>3, <2>4 DEF Sends
<1>. QED
  BY <1>1, <1>2, <1>3, <1>4

\* The ids a pass gives placeholders are new: no two the same, and none that
\* the queued order already names.
IdsGiven ==
    /\ pc \notin {"adds", "moves", "clear", "rebase"} => DOMAIN idMap = {}
    /\ \A s, t \in DOMAIN idMap : idMap[s] = idMap[t] => s = t
    /\ \A r \in OfType(rows, "test_step_order"), s \in DOMAIN idMap : \A k \in DOMAIN r.after : r.after[k] # idMap[s]

LEMMA NextIdsGiven == Shapes /\ IdsGiven /\ [Next]_vars => IdsGiven'
<1>. SUFFICES ASSUME Shapes, IdsGiven, [Next]_vars PROVE IdsGiven'
  OBVIOUS
<1>1. ASSUME DOMAIN idMap' = {} PROVE IdsGiven'
  BY <1>1 DEF IdsGiven
<1>2. ASSUME idMap' = idMap, rows' = rows, pc' \in {pc, "adds", "moves", "clear", "rebase"} PROVE IdsGiven'
  BY <1>2 DEF IdsGiven
<1>3. ASSUME idMap' = idMap, pc \notin {"adds", "moves", "clear", "rebase"} PROVE IdsGiven'
  BY <1>1, <1>3 DEF IdsGiven
<1>4. CASE UNCHANGED vars \/ RefreshSteps \/ SyncTest \/ RemoteEdit
  BY <1>2, <1>4 DEF vars, commit, RefreshSteps, SyncTest, RemoteEdit, Outside
<1>5. CASE EditStep \/ \E d \in pending : DiscardPendingChange(d)
  BY <1>2, <1>5, EditStepIs, EditIs DEF commit, DiscardPendingChange
<1>6. CASE \E theirs : ResolveConflict(theirs)
  BY <1>2, <1>6, ResolveIs DEF commit
<1>7. CASE \E selected \in SUBSET pending : CommitChanges(selected)
  BY <1>3, <1>7, CommitChangesIs
<1>8. CASE DetectConflicts
  BY <1>1, <1>3, <1>8, DetectIs, LeaveIs
<1>9. CASE Sends
  <2>1. idMap' = idMap /\ rows' = rows /\ pc \notin {"rebase", "clear"} /\ (pc \in {"adds", "moves"} => pc' \in {"moves", "clear"})
    BY <1>9, SendsIs
  <2>. QED BY <1>2, <1>3, <2>1
<1>10. CASE RebaseRest \/ RefusedEnds \/ Fault
  BY <1>1, <1>10, EndsAre, LeaveIs
<1>11. CASE ClearRows
  <2>1. Leave \/ (idMap' = idMap /\ rows' = rows /\ pc' = "rebase")
    BY <1>11 DEF ClearRows
  <2>. QED BY <1>1, <1>2, <2>1, LeaveIs
<1>12. CASE \E x \in left : CreateStep(x)
  <2>1. PICK x \in left : CreateStep(x)
    BY <1>12
  <2>2. pc = "adds" /\ pc' = pc /\ rows' = rows /\ idMap' \in {idMap, With(idMap, x.key, born + 1)}
    BY <2>1, CreateStepIs
  <2>3. CASE idMap' = With(idMap, x.key, born + 1)
    <3>1. /\ DOMAIN idMap' = DOMAIN idMap \cup {x.key}
          /\ \A s \in DOMAIN idMap' : idMap'[s] = IF s = x.key THEN born + 1 ELSE idMap[s]
      BY <2>3 DEF With
    <3>2. born \in Nat /\ \A s \in DOMAIN idMap : idMap[s] \in 1..born
      BY DEF Shapes
    <3>3. \A s, t \in DOMAIN idMap' : idMap'[s] = idMap'[t] => s = t
      BY <3>1, <3>2 DEF IdsGiven
    <3>4. ASSUME NEW r \in OfType(rows', "test_step_order"), NEW s \in DOMAIN idMap', NEW k \in DOMAIN r.after
          PROVE  r.after[k] # idMap'[s]
      <4>1. r \in OfType(rows, "test_step_order") /\ r \in rows /\ r.type = "test_step_order"
        BY <2>2, <3>4 DEF OfType
      <4>2. r.after[k] \in Int /\ r.after[k] <= born
        BY <4>1, ShapeIs DEF Names, Known
      <4>. QED BY <3>1, <3>2, <4>1, <4>2 DEF IdsGiven
    <3>. QED BY <2>2, <3>3, <3>4 DEF IdsGiven
  <2>. QED BY <1>2, <2>2, <2>3
<1>. QED
  BY <1>4, <1>5, <1>6, <1>7, <1>8, <1>9, <1>10, <1>11, <1>12, Cases

\* Two places of the queued order never have the same mover.
LEMMA MoverOnce ==
    ASSUME Shapes, IdsGiven, OfType(rows, "test_step_order") # {},
           NEW k \in DOMAIN QueuedOrder, NEW l \in DOMAIN QueuedOrder, Mover(k) = Mover(l)
    PROVE  k = l
<1>1. /\ Distinct(QueuedOrder) /\ \E r \in OfType(rows, "test_step_order") : QueuedOrder = r.after
  BY QueuedOrderIs
<1>2. \A s \in DOMAIN idMap : QueuedOrder[k] # idMap[s] /\ QueuedOrder[l] # idMap[s]
  BY <1>1 DEF IdsGiven
<1>3. QueuedOrder[k] = QueuedOrder[l]
  BY <1>2 DEF Mover, RealId, IdsGiven
<1>. QED
  BY <1>1, <1>3 DEF Distinct

\* Every place up to one that a step is moved to is that of a step before it.
LEMMA PlaceOnto ==
    ASSUME Shapes, OfType(rows, "test_step_order") # {}, NEW k \in Stay(QueuedOrder), NEW p \in 1..Place(k)
    PROVE  \E l \in Stay(QueuedOrder) : l <= k /\ Place(l) = p
<1>. DEFINE S == {l \in Stay(QueuedOrder) : l <= k}
            T == (1..Place(k)) \ {p}
            f == [l \in S |-> Place(l)]
<1>1. /\ \A l \in Stay(QueuedOrder) : Place(l) \in Nat /\ Place(l) > 0 /\ l \in Nat
      /\ \A l, m \in Stay(QueuedOrder) : l < m => Place(l) < Place(m)
      /\ Stay(QueuedOrder) \subseteq DOMAIN QueuedOrder
  BY PlaceIs
<1>. SUFFICES ASSUME \A l \in S : Place(l) # p PROVE FALSE
  OBVIOUS
<1>2. IsFiniteSet(S)
  <2>1. DOMAIN QueuedOrder = 1..Len(QueuedOrder) /\ Len(QueuedOrder) \in Nat
    BY QueuedOrderIs
  <2>2. IsFiniteSet(1..Len(QueuedOrder)) /\ S \subseteq 1..Len(QueuedOrder)
    BY <1>1, <2>1, FS_Interval
  <2>. QED BY <2>2, FS_Subset
<1>3. IsFiniteSet(T) /\ Cardinality(T) = Place(k) - 1
  <2>1. IsFiniteSet(1..Place(k)) /\ Cardinality(1..Place(k)) = Place(k)
    BY <1>1, FS_Interval
  <2>2. IsFiniteSet((1..Place(k)) \ {p}) /\ Cardinality((1..Place(k)) \ {p}) = Cardinality(1..Place(k)) - 1
    BY <2>1, FS_RemoveElement
  <2>. QED BY <2>1, <2>2
<1>4. Cardinality(S) = Place(k)
  BY DEF Place
<1>5. f \in [S -> T]
  <2>. SUFFICES ASSUME NEW l \in S PROVE Place(l) \in T
    OBVIOUS
  <2>1. Place(l) \in Nat /\ Place(l) > 0 /\ Place(k) \in Nat /\ (l < k => Place(l) < Place(k)) /\ l <= k /\ l \in Nat /\ k \in Nat
    BY <1>1
  <2>. QED BY <2>1
<1>6. \E x, y \in S : x # y /\ f[x] = f[y]
  <2>. HIDE DEF S, T, f
  <2>1. Cardinality(T) < Cardinality(S)
    BY <1>1, <1>3, <1>4
  <2>. QED BY <1>2, <1>3, <1>5, <2>1, FS_PigeonHole
<1>. QED
  BY <1>1, <1>6

\* The places are gone through from the first to the last, and every step
\* that was moved is at its place.
OrderStands == Quiet /\ pc \in {"moves", "clear"} /\ OfType(rows, "test_step_order") # {} =>
    /\ \A k \in Stay(QueuedOrder) \ moves, m \in moves : k < m
    /\ \A k \in Stay(QueuedOrder) \ moves : Here(Mover(k)) /\ At(jira.steps, Mover(k)) = Place(k)

\* A move leaves those that are at their places where they are.
LEMMA MoveStands ==
    ASSUME Shapes, Shapes', IdsGiven, MoveTestStep,
           \A k \in Stay(QueuedOrder) \ moves, m \in moves : k < m,
           \A k \in Stay(QueuedOrder) \ moves : Here(Mover(k)) /\ At(jira.steps, Mover(k)) = Place(k)
    PROVE  /\ \A k \in Stay(QueuedOrder) \ moves', m \in moves' : k < m
           /\ \A k \in Stay(QueuedOrder) \ moves' : Mover(k) \in IdsOf(jira'.steps) /\ At(jira'.steps, Mover(k)) = Place(k)
<1>1. PICK c \in moves : Coming(c) /\ Movable(c) /\ LandMove(c) /\ moves' = moves \ {c}
  BY DEF MoveTestStep
<1>2. pc = "moves" /\ moves \subseteq Stay(QueuedOrder) /\ OfType(rows, "test_step_order") # {}
  BY DEF MoveTestStep, Shapes, Phases
<1>3. /\ Stay(QueuedOrder) \subseteq DOMAIN QueuedOrder
      /\ \A k \in Stay(QueuedOrder) : Place(k) \in Nat /\ Place(k) > 0 /\ k \in Nat
      /\ \A k, l \in Stay(QueuedOrder) : k < l => Place(k) < Place(l)
  BY <1>2, PlaceIs
<1>4. \A m \in moves : c <= m
  BY <1>1 DEF Coming
<1>. DEFINE f == At(jira.steps, Mover(c))
<1>5. /\ f \in DOMAIN jira.steps /\ jira.steps[f].id = Mover(c) /\ f \in Nat /\ f > 0
      /\ \A l \in DOMAIN jira.steps : l \in Nat /\ l > 0
  <2>1. Mover(c) \in IdsOf(jira.steps) /\ Listing(jira.steps, lastRow, born) /\ jira.steps \in Seq(JiraStep)
    BY <1>1, JiraIs DEF Movable
  <2>. QED BY <2>1, AtIs
<1>6. f >= Place(c)
  <2>. SUFFICES ASSUME f < Place(c) PROVE FALSE
    BY <1>2, <1>3, <1>5
  <2>1. PICK l \in Stay(QueuedOrder) : l <= c /\ Place(l) = f
    BY <1>2, <1>3, <1>5, PlaceOnto
  <2>2. l < c /\ l \notin moves
    BY <1>2, <1>3, <1>4, <2>1
  <2>3. Here(Mover(l)) /\ At(jira.steps, Mover(l)) = f
    BY <2>1, <2>2
  <2>4. Mover(l) = Mover(c)
    BY <1>5, <2>3, AtIs, JiraIs DEF Here
  <2>. QED BY <1>2, <1>3, <2>2, <2>4, MoverOnce
<1>7. /\ IdsOf(jira'.steps) = IdsOf(jira.steps)
      /\ \A l \in DOMAIN jira.steps : At(jira'.steps, jira.steps[l].id) = Spot(l, f, Place(c))
  BY <1>1, <1>2, LandMoveIs
<1>8. \A k \in Stay(QueuedOrder) \ moves', m \in moves' : k < m
  BY <1>1, <1>2, <1>3, <1>4
<1>9. ASSUME NEW k \in Stay(QueuedOrder) \ moves'
      PROVE  Mover(k) \in IdsOf(jira'.steps) /\ At(jira'.steps, Mover(k)) = Place(k)
  <2>1. CASE k = c
    <3>1. Spot(f, f, Place(c)) = Place(c)
      BY DEF Spot
    <3>. QED BY <1>1, <1>5, <1>7, <2>1, <3>1 DEF Movable
  <2>2. CASE k # c
    <3>1. k \notin moves /\ k \in Stay(QueuedOrder) /\ k < c /\ Place(k) < Place(c) /\ Place(k) < f
      BY <1>1, <1>2, <1>3, <1>5, <1>6, <1>9, <2>2
    <3>2. Mover(k) \in IdsOf(jira.steps) /\ At(jira.steps, Mover(k)) = Place(k)
      BY <3>1 DEF Here
    <3>3. Place(k) \in DOMAIN jira.steps /\ jira.steps[Place(k)].id = Mover(k)
      BY <3>2, AtIs, JiraIs
    <3>4. Spot(Place(k), f, Place(c)) = Place(k)
      BY <3>1, <1>2, <1>3, <1>5 DEF Spot
    <3>. QED BY <1>7, <3>2, <3>3, <3>4
  <2>. QED BY <2>1, <2>2
<1>. QED
  BY <1>8, <1>9

LEMMA NextOrderStands == Shapes /\ Shapes' /\ IdsGiven /\ OrderStands /\ [Next]_vars => OrderStands'
<1>. SUFFICES ASSUME Shapes, Shapes', IdsGiven, OrderStands, [Next]_vars, Quiet', pc' \in {"moves", "clear"},
                     OfType(rows', "test_step_order") # {}
              PROVE  /\ \A k \in Stay(QueuedOrder)' \ moves', m \in moves' : k < m
                     /\ \A k \in Stay(QueuedOrder)' \ moves' : Here(Mover(k))' /\ At(jira'.steps, Mover(k)') = Place(k)'
  BY DEF OrderStands
<1>1. Sends \/ (\E x \in left : CreateStep(x)) \/ Pauses
  BY QuietIs, PassSteps DEF Sent
<1>2. ASSUME rows' = rows PROVE Stay(QueuedOrder)' = Stay(QueuedOrder) /\ \A k : Place(k)' = Place(k)
  BY <1>2 DEF Stay, QueuedOrder, Place
<1>3. ASSUME rows' = rows, idMap' = idMap PROVE \A k : Mover(k)' = Mover(k)
  BY <1>3 DEF Mover, RealId, QueuedOrder
<1>4. ASSUME rows' = rows, idMap' = idMap, jira' = jira, moves' = moves, pc \in {"moves", "clear"}
      PROVE  OrderStands'
  <2>1. /\ \A k \in Stay(QueuedOrder) \ moves, m \in moves : k < m
        /\ \A k \in Stay(QueuedOrder) \ moves : Here(Mover(k)) /\ At(jira.steps, Mover(k)) = Place(k)
    BY <1>4, QuietIs DEF OrderStands
  <2>. QED BY <1>2, <1>3, <1>4, <2>1 DEF OrderStands, Here
<1>5. CASE Pauses
  BY <1>4, <1>5 DEF Pauses, OrderStands
<1>6. CASE \E x \in left : CreateStep(x)
  BY <1>6, CreatesIs
<1>7. CASE Sends
  <2>0. rows' = rows /\ idMap' = idMap
    BY <1>7, SendsIs
  <2>1. CASE UpdateIssue \/ ApplyTransition \/ RemoteVersion \/ PhaseDone \/ \E x \in left : RemoteDeleteStep(x) \/ UpdateTestStep(x)
    BY <2>1 DEF UpdateIssue, ApplyTransition, RemoteVersion, PhaseDone, Enter, RemoteDeleteStep, UpdateTestStep
  <2>2. CASE ReadOrder
    <3>1. moves' = Stay(QueuedOrder)
      BY <2>0, <2>2 DEF ReadOrder
    <3>. QED BY <1>2, <2>0, <3>1
  <2>3. CASE MovesDone
    BY <1>4, <2>0, <2>3 DEF MovesDone, OrderStands
  <2>4. CASE MoveTestStep
    <3>1. /\ \A k \in Stay(QueuedOrder) \ moves, m \in moves : k < m
          /\ \A k \in Stay(QueuedOrder) \ moves : Here(Mover(k)) /\ At(jira.steps, Mover(k)) = Place(k)
      BY <2>0, <2>4, QuietIs DEF OrderStands, MoveTestStep
    <3>2. /\ \A k \in Stay(QueuedOrder) \ moves', m \in moves' : k < m
          /\ \A k \in Stay(QueuedOrder) \ moves' : Mover(k) \in IdsOf(jira'.steps) /\ At(jira'.steps, Mover(k)) = Place(k)
      BY <2>4, <3>1, MoveStands
    <3>. QED BY <1>2, <1>3, <2>0, <3>2 DEF Here
  <2>. QED BY <1>7, <2>1, <2>2, <2>3, <2>4 DEF Sends
<1>. QED
  BY <1>1, <1>5, <1>6, <1>7

\* Unless a pass broke off, a row that adds a step has made none until it is
\* pushed, and then the one.
MadeOnce == NotMet({"fault", "refused", "meanwhile"}) =>
    /\ \A r \in pending : r.type = "test_step_add" /\ ~ Pushed(r) => \A k \in DOMAIN jira.steps : jira.steps[k].row # r.id
    /\ \A k, l \in DOMAIN jira.steps : jira.steps[k].row = jira.steps[l].row /\ jira.steps[k].row # 0 => k = l

\* No step is in Jira that was not there, with its id and its row.
Comes == \A i \in DOMAIN jira'.steps : \E k \in DOMAIN jira.steps :
             jira'.steps[i].id = jira.steps[k].id /\ jira'.steps[i].row = jira.steps[k].row

LEMMA RemoteEditComes ==
    ASSUME Shapes, RemoteEdit
    PROVE  Comes
<1>0. Listing(jira.steps, lastRow, born) /\ jira.steps \in Seq(JiraStep)
  BY JiraIs
<1>1. CASE \E f \in Fields, v \in Theirs : Write([jira.field EXCEPT ![f] = v], jira.steps)
  BY <1>1 DEF Write, Comes
<1>2. CASE \E k \in DOMAIN jira.steps, v \in Theirs : Write(jira.field, [jira.steps EXCEPT ![k].text = v])
  <2>1. PICK k \in DOMAIN jira.steps, v \in Texts : Write(jira.field, [jira.steps EXCEPT ![k].text = v])
    BY <1>2, TextsIs
  <2>2. LET m == [jira.steps EXCEPT ![k].text = v]
        IN  DOMAIN m = DOMAIN jira.steps /\ \A l \in DOMAIN jira.steps : m[l].id = jira.steps[l].id /\ m[l].row = jira.steps[l].row
    BY <1>0, TextListing
  <2>. QED BY <2>1, <2>2 DEF Write, Comes
<1>3. CASE \E k \in DOMAIN jira.steps : Write(jira.field, Removed(jira.steps, jira.steps[k].id))
  <2>1. PICK k \in DOMAIN jira.steps : Write(jira.field, Removed(jira.steps, jira.steps[k].id))
    BY <1>3
  <2>2. jira.steps[k].id \in IdsOf(jira.steps)
    BY <1>0, AtIs
  <2>3. LET m == Removed(jira.steps, jira.steps[k].id)
        IN  \A i \in DOMAIN m : \E l \in DOMAIN jira.steps : m[i] = jira.steps[l]
    BY <1>0, <2>2, RemovedListing
  <2>. QED BY <2>1, <2>3 DEF Write, Comes
<1>4. CASE \E k \in DOMAIN jira.steps : k < Len(jira.steps) /\ Write(jira.field, Moved(jira.steps, k, k + 1))
  <2>1. PICK k \in DOMAIN jira.steps : k < Len(jira.steps) /\ Write(jira.field, Moved(jira.steps, k, k + 1))
    BY <1>4
  <2>2. k + 1 \in DOMAIN jira.steps
    BY <1>0, <2>1
  <2>5. PICK t \in DOMAIN jira.steps : t = k + 1
    BY <2>2
  <2>3. /\ Listing(Moved(jira.steps, k, t), lastRow, born)
        /\ IdsOf(Moved(jira.steps, k, t)) = IdsOf(jira.steps)
        /\ \A l \in DOMAIN jira.steps : /\ Spot(l, k, t) \in DOMAIN Moved(jira.steps, k, t)
                                       /\ Moved(jira.steps, k, t)[Spot(l, k, t)] = jira.steps[l]
    BY <1>0, MovedListing
  <2>4. ASSUME NEW i \in DOMAIN Moved(jira.steps, k, t)
        PROVE  \E l \in DOMAIN jira.steps : Moved(jira.steps, k, t)[i] = jira.steps[l]
    <3>1. PICK l \in DOMAIN jira.steps : jira.steps[l].id = Moved(jira.steps, k, t)[i].id
      BY <2>3 DEF IdsOf
    <3>. QED BY <2>3, <3>1 DEF Listing
  <2>. QED BY <2>1, <2>4, <2>5 DEF Write, Comes
<1>. QED
  BY <1>1, <1>2, <1>3, <1>4 DEF RemoteEdit

LEMMA SendsComes ==
    ASSUME Shapes, Shapes', Sends
    PROVE  Comes
<1>0. jira.steps \in Seq(JiraStep) /\ jira'.steps \in Seq(JiraStep) /\ Listing(jira'.steps, lastRow', born')
  BY JiraIs DEF Shapes, Remotes, Listing
<1>1. jira' = jira \/ Lands
  BY LandsAre
<1>2. CASE jira'.steps = jira.steps
  BY <1>2 DEF Comes
<1>3. CASE pc = "fields" /\ LandFields
  BY <1>2, <1>3, LandFieldsIs
<1>4. CASE pc = "status" /\ \E r \in left : LandStatus(r)
  BY <1>2, <1>4, LandStatusIs
<1>5. CASE \E r \in left : Exists(r) /\ LandDelete(r)
  BY <1>5, LandDeleteIs DEF Comes
<1>6. CASE pc = "edits" /\ \E r \in left : Exists(r) /\ LandEdit(r)
  <2>1. PICK q \in left : Exists(q) /\ LandEdit(q)
    BY <1>6
  <2>2. q.after \in Texts
    BY <1>6, <2>1, LeftIs, TextsIs DEF Shape
  <2>. QED BY <2>1, <2>2, LandEditIs DEF Comes
<1>7. CASE pc = "adds"
  <2>1. ReadOrder
    BY <1>7 DEF Sends, UpdateIssue, ApplyTransition, PhaseDone, MoveTestStep, MovesDone, RemoteVersion,
                RemoteDeleteStep, UpdateTestStep
  <2>. QED BY <1>2, <2>1 DEF ReadOrder
<1>8. CASE pc = "moves" /\ \E k \in moves : Movable(k) /\ LandMove(k)
  <2>1. PICK k \in moves : Movable(k) /\ LandMove(k)
    BY <1>8
  <2>2. /\ IdsOf(jira'.steps) = IdsOf(jira.steps)
        /\ \A l \in DOMAIN jira.steps : \E e \in DOMAIN jira'.steps :
              At(jira'.steps, jira.steps[l].id) = e /\ jira'.steps[e].id = jira.steps[l].id /\ jira'.steps[e].row = jira.steps[l].row
    BY <1>8, <2>1, LandMoveIs
  <2>3. ASSUME NEW i \in DOMAIN jira'.steps
        PROVE  \E l \in DOMAIN jira.steps : jira'.steps[i].id = jira.steps[l].id /\ jira'.steps[i].row = jira.steps[l].row
    <3>1. PICK l \in DOMAIN jira.steps : jira.steps[l].id = jira'.steps[i].id
      BY <2>2 DEF IdsOf
    <3>2. At(jira'.steps, jira'.steps[i].id) = i
      BY <1>0, AtIs
    <3>. QED BY <2>2, <3>1, <3>2
  <2>. QED BY <2>3 DEF Comes
<1>. QED
  BY <1>1, <1>2, <1>3, <1>4, <1>5, <1>6, <1>7, <1>8 DEF Lands

\* It survives a step after which what pends and is not pushed did so before,
\* or is new, and no step of Jira is new.
LEMMA MadeKept ==
    ASSUME Shapes, Shapes', MadeOnce, [Next]_vars, Comes,
           \A r \in pending' : r.type = "test_step_add" /\ ~ Pushed(r)' =>
              (\E q \in pending : q.id = r.id /\ q.type = r.type /\ ~ Pushed(q)) \/ r.id > lastRow
    PROVE  MadeOnce'
<1>. SUFFICES ASSUME NotMet({"fault", "refused", "meanwhile"})'
              PROVE  /\ \A r \in pending' : r.type = "test_step_add" /\ ~ Pushed(r)' =>
                           \A i \in DOMAIN jira'.steps : jira'.steps[i].row # r.id
                     /\ \A i, j \in DOMAIN jira'.steps : jira'.steps[i].row = jira'.steps[j].row /\ jira'.steps[i].row # 0 => i = j
  BY DEF MadeOnce
<1>1. /\ \A r \in pending : r.type = "test_step_add" /\ ~ Pushed(r) => \A k \in DOMAIN jira.steps : jira.steps[k].row # r.id
      /\ \A k, l \in DOMAIN jira.steps : jira.steps[k].row = jira.steps[l].row /\ jira.steps[k].row # 0 => k = l
  BY NextMet DEF MadeOnce, NotMet
<1>2. ASSUME NEW r \in pending', r.type = "test_step_add", ~ Pushed(r)', NEW i \in DOMAIN jira'.steps
      PROVE  jira'.steps[i].row # r.id
  <2>1. PICK k \in DOMAIN jira.steps : jira'.steps[i].row = jira.steps[k].row
    BY DEF Comes
  <2>2. jira.steps[k].row \in Nat /\ jira.steps[k].row <= lastRow /\ lastRow \in Nat
    BY JiraIs DEF Shapes
  <2>. QED BY <1>1, <1>2, <2>1, <2>2
<1>3. ASSUME NEW i \in DOMAIN jira'.steps, NEW j \in DOMAIN jira'.steps,
             jira'.steps[i].row = jira'.steps[j].row, jira'.steps[i].row # 0
      PROVE  i = j
  <2>1. PICK k \in DOMAIN jira.steps : jira'.steps[i].id = jira.steps[k].id /\ jira'.steps[i].row = jira.steps[k].row
    BY DEF Comes
  <2>2. PICK l \in DOMAIN jira.steps : jira'.steps[j].id = jira.steps[l].id /\ jira'.steps[j].row = jira.steps[l].row
    BY DEF Comes
  <2>3. k = l
    BY <1>1, <1>3, <2>1, <2>2
  <2>. QED BY <2>1, <2>2, <2>3 DEF Shapes, Remotes, Listing
<1>. QED
  BY <1>2, <1>3

LEMMA CreateMadeOnce ==
    ASSUME Shapes, Shapes', RowsPend, MadeOnce, [Next]_vars, NEW x \in left, CreateStep(x)
    PROVE  MadeOnce'
<1>. SUFFICES ASSUME NotMet({"fault", "refused", "meanwhile"})'
              PROVE  /\ \A r \in pending' : r.type = "test_step_add" /\ ~ Pushed(r)' =>
                           \A i \in DOMAIN jira'.steps : jira'.steps[i].row # r.id
                     /\ \A i, j \in DOMAIN jira'.steps : jira'.steps[i].row = jira'.steps[j].row /\ jira'.steps[i].row # 0 => i = j
  BY DEF MadeOnce
<1>1. /\ \A r \in pending : r.type = "test_step_add" /\ ~ Pushed(r) => \A k \in DOMAIN jira.steps : jira.steps[k].row # r.id
      /\ \A k, l \in DOMAIN jira.steps : jira.steps[k].row = jira.steps[l].row /\ jira.steps[k].row # 0 => k = l
      /\ NotMet({"meanwhile"})
  BY NextMet DEF MadeOnce, NotMet
<1>2. /\ pc = "adds" /\ pc' = pc /\ rows' = rows /\ pending' = pending /\ left' = left \ {x} /\ LandAdd(x)
      /\ x \in rows /\ x.type = "test_step_add"
  BY CreateStepIs, LeftIs
<1>3. /\ Len(jira'.steps) = Len(jira.steps) + 1 /\ jira.steps \in Seq(JiraStep) /\ jira'.steps \in Seq(JiraStep)
      /\ \A k \in DOMAIN jira.steps : k \in DOMAIN jira'.steps /\ jira'.steps[k] = jira.steps[k]
      /\ jira'.steps[Len(jira.steps) + 1] = [id |-> born + 1, text |-> x.after[2], row |-> x.id]
  BY <1>2, LandAddIs, JiraIs DEF Remotes, Listing
<1>4. PICK n \in Nat : n = Len(jira.steps) + 1
  BY <1>3
<1>5. jira'.steps[n].row = x.id /\ \A i \in DOMAIN jira'.steps : i = n \/ (i \in DOMAIN jira.steps /\ jira'.steps[i] = jira.steps[i])
  BY <1>3, <1>4
<1>6. \A k \in DOMAIN jira.steps : jira.steps[k].row # x.id
  <2>1. PICK p \in pending : Same(p, x)
    BY <1>1, <1>2 DEF RowsPend
  <2>2. ~ Pushed(p)
    BY <2>1 DEF Pushed, Same
  <2>. QED BY <1>1, <1>2, <2>1, <2>2 DEF Same
<1>7. \A i, j \in DOMAIN jira'.steps : jira'.steps[i].row = jira'.steps[j].row /\ jira'.steps[i].row # 0 => i = j
  BY <1>1, <1>5, <1>6
<1>8. ASSUME NEW r \in pending', r.type = "test_step_add", ~ Pushed(r)' PROVE ~ Pushed(r) /\ r.id # x.id
  <2>1. \A q \in left \ {x} : q.id # x.id
    BY <1>2, ShapeIs DEF Shapes
  <2>. QED BY <1>2, <1>8, <2>1 DEF Pushed
<1>. QED
  BY <1>1, <1>2, <1>5, <1>7, <1>8

LEMMA NextMadeOnce == Shapes /\ Shapes' /\ RowsPend /\ MadeOnce /\ [Next]_vars => MadeOnce'
<1>. SUFFICES ASSUME Shapes, Shapes', RowsPend, MadeOnce, [Next]_vars, NotMet({"fault", "refused", "meanwhile"})' PROVE MadeOnce'
  BY DEF MadeOnce
<1>1. ASSUME jira' = jira PROVE Comes
  BY <1>1 DEF Comes
<1>2. ASSUME Comes, \A r : Pushed(r) => Pushed(r)',
             \A r \in pending' : r.type = "test_step_add" => (\E q \in pending : q.id = r.id /\ q.type = r.type) \/ r.id > lastRow
      PROVE  MadeOnce'
  <2>1. ASSUME NEW q, NEW r, q.id = r.id, Pushed(q) PROVE Pushed(r)
    BY <2>1 DEF Pushed
  <2>2. ASSUME NEW r \in pending', r.type = "test_step_add", ~ Pushed(r)'
        PROVE  (\E q \in pending : q.id = r.id /\ q.type = r.type /\ ~ Pushed(q)) \/ r.id > lastRow
    BY <1>2, <2>1, <2>2
  <2>. QED BY <1>2, <2>2, MadeKept
<1>3. ASSUME Comes, UNCHANGED <<pc, rows, left, pending>> PROVE MadeOnce'
  BY <1>2, <1>3 DEF Pushed
<1>4. CASE UNCHANGED vars
  BY <1>1, <1>3, <1>4 DEF vars, local, commit
<1>5. CASE EditStep
  <2>1. /\ jira' = jira /\ pc = "idle"
        /\ \A r \in pending' : (\E q \in pending : q.id = r.id /\ q.type = r.type) \/ r.id = lastRow + 1
    BY <1>5, EditStepIs, EditIs, EditRows DEF From, NotMet
  <2>. QED BY <1>1, <1>2, <2>1, NotPushed DEF Shapes
<1>6. CASE \E d \in pending : DiscardPendingChange(d)
  <2>0. PICK d \in pending : DiscardPendingChange(d)
    BY <1>6
  <2>1. jira' = jira /\ pc = "idle" /\ pending' \subseteq pending
    <3>1. jira' = jira /\ pending' = Delete(pending, {d.id}) /\ (pc # "idle" => "meanwhile" \in met')
      BY <2>0, DiscardIs
    <3>. QED BY <3>1, DeleteIs DEF NotMet
  <2>. QED BY <1>1, <1>2, <2>1, NotPushed
<1>7. CASE RefreshSteps \/ SyncTest
  BY <1>1, <1>3, <1>7, RefreshIs, SyncIs
<1>8. CASE RemoteEdit
  BY <1>3, <1>8, RemoteEditIs, RemoteEditComes
<1>9. CASE \E theirs : ResolveConflict(theirs)
  <2>1. jira' = jira /\ pc = "idle" /\ \A r \in pending' : \E q \in pending : Same(q, r)
    BY <1>9, ResolveIs, ResolvedRows
  <2>. QED BY <1>1, <1>2, <2>1, NotPushed DEF Same
<1>10. CASE \E selected \in SUBSET pending : CommitChanges(selected)
  BY <1>1, <1>2, <1>10, CommitChangesIs, NotPushed
<1>11. CASE DetectConflicts
  <2>1. Table(Open, lastRow, born) /\ version \in Nat /\ Open \subseteq pending
    BY TableSubset, DeleteIs DEF Open, Shapes
  <2>2. jira' = jira /\ pc = "scan" /\ (pending' = Open \/ pending' = Rebased(Open, version))
    BY <1>11, DetectIs
  <2>3. \A r \in pending' : \E q \in pending : q.id = r.id /\ q.type = r.type
    BY <2>1, <2>2, RebasedIs
  <2>. QED BY <1>1, <1>2, <2>2, <2>3, NotPushed
<1>12. CASE Sends
  <2>1. /\ pending' = pending /\ rows' = rows
        /\ pc \in {"adds", "moves"} => pc' \in {"moves", "clear"} /\ left' = left
        /\ pc \notin {"clear"}
    BY <1>12, SendsIs
  <2>2. \A r : Pushed(r) => Pushed(r)'
    BY <2>1 DEF Pushed
  <2>. QED BY <1>2, <1>12, <2>1, <2>2, SendsComes
<1>13. CASE \E x \in left : CreateStep(x)
  BY <1>13, CreateMadeOnce
<1>14. CASE ClearRows
  <2>1. jira' = jira /\ pending' = Delete(pending, {r.id : r \in rows}) /\ pending' \subseteq pending
    BY <1>14, EndsAre, DeleteIs
  <2>2. \A r \in pending' : r \in pending /\ ~ Pushed(r)
    BY <2>1, DeleteIs DEF Pushed
  <2>. QED BY <1>1, <2>1, <2>2, MadeKept
<1>15. CASE RebaseRest
  <2>1. jira' = jira /\ pc = "rebase" /\ pending' = Rebased(pending, jira.ver)
    BY <1>15, EndsAre
  <2>2. Table(pending, lastRow, born) /\ jira.ver \in Nat
    BY JiraIs DEF Shapes
  <2>3. \A r \in pending' : \E q \in pending : q.id = r.id /\ q.type = r.type
    BY <2>1, <2>2, RebasedIs
  <2>. QED BY <1>1, <1>2, <2>1, <2>3, NotPushed
<1>16. CASE RefusedEnds \/ Fault
  BY <1>16, EndsAre DEF NotMet
<1>. QED
  BY <1>4, <1>5, <1>6, <1>7, <1>8, <1>9, <1>10, <1>11, <1>12, <1>13, <1>14, <1>15, <1>16, Cases

\* What each phase has sent, with what that rests on.
Stands ==
    /\ RowsPend /\ HeldPends /\ HeldKeys /\ StepsDrawn /\ ContentCached /\ IdsGiven
    /\ FieldsStand /\ EditsStand /\ DeletesStand /\ AddsStand /\ OrderStands /\ MadeOnce

LEMMA InitStands == Init => Stands
<1>. SUFFICES ASSUME Init PROVE Stands
  OBVIOUS
<1>1. /\ pc = "idle" /\ rows = {} /\ pending = {} /\ conflict = None /\ idMap = <<>> /\ DOMAIN idMap = {}
      /\ \A k \in DOMAIN jira.steps : jira.steps[k].row = 0
  BY DEF Init
<1>2. RowsPend /\ HeldPends /\ HeldKeys /\ StepsDrawn /\ ContentCached /\ IdsGiven
  BY <1>1 DEF RowsPend, HeldPends, HeldKeys, StepsDrawn, AllDrawn, ContentCached, IdsGiven, OfType
<1>3. FieldsStand /\ EditsStand /\ DeletesStand /\ AddsStand /\ OrderStands /\ MadeOnce
  BY <1>1 DEF FieldsStand, EditsStand, DeletesStand, AddsStand, OrderStands, MadeOnce
<1>. QED
  BY <1>2, <1>3 DEF Stands

LEMMA NextStands == Shapes /\ Shapes' /\ Stands /\ [Next]_vars => Stands'
  BY NextRowsPend, NextHeldPends, NextHeldKeys, NextStepsDrawn, NextContentCached, NextIdsGiven, NextFieldsStand,
     NextEditsStand, NextDeletesStand, NextAddsStand, NextOrderStands, NextMadeOnce DEF Stands

\* Of a queued order only the steps whose delete the pass sent have no place.
LEMMA PlacesStand ==
    ASSUME Shapes, IdsGiven, DeletesStand, OrderStands, Quiet, pc = "clear",
           NEW r \in rows, r.type = "test_step_order", NEW k \in DOMAIN r.after, RealId(r.after[k]) \in IdsOf(jira.steps)
    PROVE  k \in Stay(QueuedOrder) /\ QueuedOrder = r.after /\ At(jira.steps, RealId(r.after[k])) = Place(k)
<1>1. OfType(rows, "test_step_order") # {} /\ QueuedOrder = r.after /\ moves = {}
  BY QueuedOrderIs DEF OfType, Shapes, Phases
<1>2. k \in Stay(QueuedOrder)
  <2>. SUFFICES ASSUME NEW d \in rows, d.type = "test_step_delete", d.key = r.after[k] PROVE FALSE
    BY <1>1 DEF Stay, OfType
  <2>1. d.key > 0 /\ ~ Here(d.key)
    BY DEF DeletesStand, SentDelete
  <2>2. d.key \notin DOMAIN idMap
    BY <2>1 DEF Shapes
  <2>. QED BY <2>1, <2>2 DEF RealId, Here
<1>3. At(jira.steps, Mover(k)) = Place(k)
  BY <1>1, <1>2 DEF OrderStands
<1>. QED
  BY <1>1, <1>2, <1>3 DEF Mover

LEMMA StandsCleared == Shapes /\ Stands => ClearedIsThere
<1>. SUFFICES ASSUME Shapes, Stands, pc = "clear", NotMet({"race", "refresh", "meanwhile", "onscreen", "revived"}), NEW r \in rows
              PROVE  Standing(r)
  BY DEF ClearedIsThere
<1>1. Quiet
  BY DEF Quiet, Steady, NotMet
<1>2. Shape(r) /\ r.type \in Types /\ r.id \in Nat /\ r.id > 0
  BY ShapeIs, RowIs
<1>3. CASE r.type = "test_case"
  BY <1>1, <1>3 DEF Stands, FieldsStand, SentField, Standing
<1>4. CASE r.type = "test_step"
  <2>1. Here(r.key) /\ JiraText(r.key) = r.after
    BY <1>1, <1>4, SentEditIs DEF Stands, EditsStand
  <2>2. Exists(r) /\ Remote(r) = r.after
    BY <1>2, <1>4, <2>1, RemoteIs DEF Here, Exists, JiraText
  <2>. QED BY <1>4, <2>2 DEF Standing
<1>5. CASE r.type = "test_step_delete"
  BY <1>1, <1>5 DEF Stands, DeletesStand, SentDelete, Standing, Exists, Here
<1>6. CASE r.type = "test_step_add"
  <2>. DEFINE made == {k \in DOMAIN jira.steps : jira.steps[k].row = r.id}
  <2>1. PICK k \in DOMAIN jira.steps : jira.steps[k].row = r.id /\ jira.steps[k].text = r.after[2]
    BY <1>1, <1>6 DEF Stands, AddsStand, SentAdd
  <2>2. ASSUME NotMet({"fault", "refused"}) PROVE Cardinality(made) = 1
    <3>1. NotMet({"fault", "refused", "meanwhile"})
      BY <1>1, <2>2 DEF Quiet, Steady, NotMet
    <3>2. \A l \in DOMAIN jira.steps : jira.steps[l].row = r.id => l = k
      BY <1>2, <2>1, <3>1 DEF Stands, MadeOnce
    <3>3. made = {k}
      BY <2>1, <3>2
    <3>. QED BY <3>3, FS_Singleton
  <2>3. k \in made
    BY <2>1
  <2>. HIDE DEF made
  <2>4. made # {} /\ (NotMet({"fault", "refused"}) => Cardinality(made) = 1) /\ \E l \in made : jira.steps[l].text = r.after[2]
    BY <2>1, <2>2, <2>3
  <2>. QED BY <1>6, <2>4 DEF Standing, made
<1>7. CASE r.type = "test_step_order"
  <2>. SUFFICES ASSUME NEW k \in DOMAIN r.after, NEW l \in DOMAIN r.after, k < l,
                       RealId(r.after[k]) \in IdsOf(jira.steps), RealId(r.after[l]) \in IdsOf(jira.steps)
                PROVE  At(jira.steps, RealId(r.after[k])) < At(jira.steps, RealId(r.after[l]))
    BY <1>7 DEF Standing
  <2>1. OfType(rows, "test_step_order") # {}
    BY <1>7 DEF OfType
  <2>2. k \in Stay(QueuedOrder) /\ At(jira.steps, RealId(r.after[k])) = Place(k)
    BY <1>1, <1>7, PlacesStand DEF Stands
  <2>3. l \in Stay(QueuedOrder) /\ At(jira.steps, RealId(r.after[l])) = Place(l)
    BY <1>1, <1>7, PlacesStand DEF Stands
  <2>. QED BY <2>1, <2>2, <2>3, PlaceIs
<1>. QED
  BY <1>2, <1>3, <1>4, <1>5, <1>6, <1>7 DEF Types

\* Every field, step and order a Commit clears from the journal stands in
\* Jira as the user asked, all of them together, also when passes broke off
\* before (commitTestChanges and CommitPendingChanges): an added step at least
\* once, and exactly once if no call failed and none was refused, for a retry
\* creates it again.  Behaviours that met what ClearedIsThere names are exempt.
THEOREM ClearedStands == Spec => []ClearedIsThere
<1>1. Init => Shapes /\ Stands
  BY InitShapes, InitStands
<1>2. Shapes /\ Stands /\ [Next]_vars => Shapes' /\ Stands'
  BY NextShapes, NextStands
<1>3. Shapes /\ Stands => ClearedIsThere
  BY StandsCleared
<1>. QED
  BY <1>1, <1>2, <1>3, PTL DEF Spec
=============================================================================
