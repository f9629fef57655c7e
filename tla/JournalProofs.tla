--------------------------- MODULE JournalProofs ---------------------------
(***************************************************************************)
(* What the journal's helpers return, for every journal: the facts about    *)
(* core/journal the proofs about the store and the engines rest on.        *)
(***************************************************************************)
EXTENDS Journal, TLAPS

\* A place of the index that is not empty answers one of its rows.
LEMMA RowAtIsThere ==
    ASSUME NEW j, NEW type, NEW key, NEW field,
           RowsAt(j, type, key, field) # {}
    PROVE  /\ RowAt(j, type, key, field) \in j
           /\ RowAt(j, type, key, field).type = type
           /\ RowAt(j, type, key, field).key = key
           /\ RowAt(j, type, key, field).field = field
<1>1. RowAt(j, type, key, field) \in RowsAt(j, type, key, field)
  BY DEF RowAt
<1>. QED
  BY <1>1 DEF RowsAt

\* The UNIQUE index: the row found at a row's own place is that row.
LEMMA RowAtIsUnique ==
    ASSUME NEW j, WellKeyed(j), NEW r \in j
    PROVE  /\ RowsAt(j, r.type, r.key, r.field) = {r}
           /\ RowAt(j, r.type, r.key, r.field) = r
<1>1. r \in RowsAt(j, r.type, r.key, r.field)
  BY DEF RowsAt
<1>2. ASSUME NEW s \in RowsAt(j, r.type, r.key, r.field) PROVE s = r
  BY <1>2 DEF RowsAt, WellKeyed
<1>3. RowsAt(j, r.type, r.key, r.field) = {r}
  BY <1>1, <1>2
<1>4. RowAt(j, r.type, r.key, r.field) \in {r}
  BY <1>1, <1>3, RowAtIsThere DEF RowAt
<1>. QED
  BY <1>3, <1>4

\* Every subset of a well-keyed journal is well keyed.
LEMMA SubsetWellKeyed ==
    ASSUME NEW j, WellKeyed(j), NEW S \in SUBSET j
    PROVE  WellKeyed(S)
BY DEF WellKeyed

\* The rows Upsert returns are of the journal's type.
LEMMA UpsertType ==
    ASSUME NEW Types, NEW Keys, NEW Fields, NEW Values,
           NEW j \in SUBSET PendingChange(Types, Keys, Fields, Values),
           NEW id \in Nat, NEW type \in Types, NEW key \in Keys, NEW field \in Fields,
           NEW current \in Values, NEW value \in Values, NEW base \in Nat
    PROVE  Upsert(j, id, type, key, field, current, value, base)
               \subseteq PendingChange(Types, Keys, Fields, Values)
BY DEF Upsert, Inserted, Overwritten, RowsAt, PendingChange

\* Upsert keeps the table well keyed when the id it may hand out is new.
LEMMA UpsertWellKeyed ==
    ASSUME NEW Types, NEW Keys, NEW Fields, NEW Values,
           NEW j \in SUBSET PendingChange(Types, Keys, Fields, Values),
           WellKeyed(j),
           NEW id \in Nat, \A r \in j : r.id < id,
           NEW type, NEW key, NEW field, NEW current, NEW value, NEW base
    PROVE  WellKeyed(Upsert(j, id, type, key, field, current, value, base))
<1>. DEFINE old == RowsAt(j, type, key, field)
            new == [id |-> id, type |-> type, key |-> key, field |-> field,
                    before |-> current, after |-> value, base |-> base]
<1>1. CASE old = {}
  <2>1. Upsert(j, id, type, key, field, current, value, base) = j \cup {new}
    BY <1>1 DEF Upsert, Inserted
  <2>2. \A r \in j : r.id # new.id /\ r.id \in Nat
    BY DEF PendingChange
  <2>3. \A r \in j : ~(r.type = new.type /\ r.key = new.key /\ r.field = new.field)
    BY <1>1 DEF RowsAt
  <2>. QED
    BY <2>1, <2>2, <2>3 DEF WellKeyed
<1>2. CASE old # {} /\ \E r \in old : r.before = value
  <2>1. Upsert(j, id, type, key, field, current, value, base) \subseteq j
    BY <1>2 DEF Upsert
  <2>. QED
    BY <2>1, SubsetWellKeyed
<1>3. CASE old # {} /\ ~\E r \in old : r.before = value
  <2>. DEFINE up == {[r EXCEPT !.after = value] : r \in old}
  <2>1. Upsert(j, id, type, key, field, current, value, base) = (j \ old) \cup up
    BY <1>3 DEF Upsert, Overwritten
  <2>2. \A n \in up : \E r \in old : /\ n = [r EXCEPT !.after = value]
                                   /\ n.id = r.id /\ n.type = r.type
                                   /\ n.key = r.key /\ n.field = r.field
    BY DEF RowsAt, PendingChange
  <2>3. ASSUME NEW r \in j \ old, NEW n \in up
        PROVE  n.id # r.id /\ ~(n.type = r.type /\ n.key = r.key /\ n.field = r.field)
    <3>1. PICK s \in old : s.id = n.id /\ s.type = n.type /\ s.key = n.key /\ s.field = n.field
      BY <2>2, <2>3
    <3>. QED
      BY <3>1, <2>3 DEF WellKeyed, RowsAt
  <2>4. ASSUME NEW n \in up, NEW m \in up PROVE n = m
    <3>1. PICK s \in old : n = [s EXCEPT !.after = value]
      BY <2>2, <2>4
    <3>2. PICK t \in old : m = [t EXCEPT !.after = value]
      BY <2>2, <2>4
    <3>3. s = t
      BY DEF WellKeyed, RowsAt
    <3>. QED
      BY <3>1, <3>2, <3>3
  <2>5. \A r, s \in j \ old : (r.id = s.id \/ (r.type = s.type /\ r.key = s.key /\ r.field = s.field)) => r = s
    BY DEF WellKeyed
  <2>. QED
    <3>. HIDE DEF up, old
    <3>. QED BY <2>1, <2>3, <2>4, <2>5 DEF WellKeyed
<1>. QED
  BY <1>1, <1>2, <1>3

\* What an upsert leaves: the rows at other places as they were, and at its
\* own place nothing or a row asking for the value.
LEMMA UpsertRows ==
    ASSUME NEW Types, NEW Keys, NEW Fields, NEW Values,
           NEW j \in SUBSET PendingChange(Types, Keys, Fields, Values),
           NEW id, NEW type, NEW key, NEW field, NEW current, NEW value, NEW base,
           NEW r \in Upsert(j, id, type, key, field, current, value, base)
    PROVE  \/ r \in j /\ ~(r.type = type /\ r.key = key /\ r.field = field)
           \/ /\ r.type = type /\ r.key = key /\ r.field = field /\ r.after = value
              /\ \/ RowsAt(j, type, key, field) = {} /\ r.before = current /\ r.base = base /\ r.id = id
                 \/ \E s \in RowsAt(j, type, key, field) :
                       /\ r.id = s.id /\ r.before = s.before /\ r.base = s.base
                       /\ s.before # value
<1>. DEFINE old == RowsAt(j, type, key, field)
<1>1. CASE old = {}
  BY <1>1 DEF Upsert, Inserted, RowsAt
<1>2. CASE old # {} /\ \E s \in old : s.before = value
  BY <1>2 DEF Upsert, RowsAt
<1>3. CASE old # {} /\ ~\E s \in old : s.before = value
  <2>1. r \in j \ old \/ \E s \in old : r = [s EXCEPT !.after = value]
    BY <1>3 DEF Upsert, Overwritten
  <2>2. CASE r \in j \ old
    BY <2>2 DEF RowsAt
  <2>3. ASSUME NEW s \in old, r = [s EXCEPT !.after = value]
        PROVE  /\ r.type = type /\ r.key = key /\ r.field = field /\ r.after = value
               /\ r.id = s.id /\ r.before = s.before /\ r.base = s.base
    BY <2>3 DEF RowsAt, PendingChange
  <2>. QED
    BY <1>3, <2>1, <2>2, <2>3
<1>. QED
  BY <1>1, <1>2, <1>3

\* Put writes rows of the journal's type.
LEMMA PutType ==
    ASSUME NEW Types, NEW Keys, NEW Fields, NEW Values,
           NEW j \in SUBSET PendingChange(Types, Keys, Fields, Values),
           NEW id \in Nat, NEW type \in Types, NEW key \in Keys, NEW field \in Fields,
           NEW current \in Values, NEW value \in Values, NEW base \in Nat
    PROVE  Put(j, id, type, key, field, current, value, base)
               \subseteq PendingChange(Types, Keys, Fields, Values)
BY DEF Put, Inserted, Overwritten, RowsAt, PendingChange

\* Where nothing would be taken back, Put and Upsert are the same.
LEMMA PutIsUpsert ==
    ASSUME NEW j, NEW id, NEW type, NEW key, NEW field, NEW current, NEW value, NEW base,
           \A r \in RowsAt(j, type, key, field) : r.before # value
    PROVE  Put(j, id, type, key, field, current, value, base)
               = Upsert(j, id, type, key, field, current, value, base)
BY DEF Put, Upsert

\* Put leaves the value at its place.
LEMMA PutIsThere ==
    ASSUME NEW Types, NEW Keys, NEW Fields, NEW Values,
           NEW j \in SUBSET PendingChange(Types, Keys, Fields, Values),
           NEW id, NEW type, NEW key, NEW field, NEW current, NEW value, NEW base
    PROVE  \E r \in RowsAt(Put(j, id, type, key, field, current, value, base),
                           type, key, field) : r.after = value
<1>. DEFINE old == RowsAt(j, type, key, field)
<1>1. CASE old = {}
  <2>. DEFINE new == [id |-> id, type |-> type, key |-> key, field |-> field,
                      before |-> current, after |-> value, base |-> base]
  <2>1. new \in Put(j, id, type, key, field, current, value, base)
    BY <1>1 DEF Put, Inserted
  <2>2. new.type = type /\ new.key = key /\ new.field = field /\ new.after = value
    OBVIOUS
  <2>. HIDE DEF new
  <2>. QED
    BY <2>1, <2>2 DEF RowsAt
<1>2. CASE old # {}
  <2>1. PICK s \in old : TRUE
    BY <1>2
  <2>2. [s EXCEPT !.after = value] \in Put(j, id, type, key, field, current, value, base)
    BY <1>2 DEF Put, Overwritten
  <2>3. /\ [s EXCEPT !.after = value].type = type /\ [s EXCEPT !.after = value].key = key
        /\ [s EXCEPT !.after = value].field = field /\ [s EXCEPT !.after = value].after = value
    BY DEF RowsAt, PendingChange
  <2>. QED
    BY <2>2, <2>3 DEF RowsAt
<1>. QED
  BY <1>1, <1>2

\* Put touches no row of another place.
LEMMA PutKeepsOthers ==
    ASSUME NEW j, NEW id, NEW type, NEW key, NEW field, NEW current, NEW value, NEW base,
           NEW r \in j, ~(r.type = type /\ r.key = key /\ r.field = field)
    PROVE  r \in Put(j, id, type, key, field, current, value, base)
BY DEF Put, Inserted, Overwritten, RowsAt

\* Put leaves every place it had, and one row more or one value less.
LEMMA PutRows ==
    ASSUME NEW Types, NEW Keys, NEW Fields, NEW Values,
           NEW j \in SUBSET PendingChange(Types, Keys, Fields, Values),
           NEW id \in Nat, \A r \in j : r.id < id,
           NEW type, NEW key, NEW field, NEW current, NEW value, NEW base,
           NEW n, n = Put(j, id, type, key, field, current, value, base)
    PROVE  /\ \A r \in n : r.id < id + 1
           /\ \A r \in n :
                 \/ r \in j /\ ~(r.type = type /\ r.key = key /\ r.field = field)
                 \/ /\ r.type = type /\ r.key = key /\ r.field = field /\ r.after = value
                    /\ \/ r.id = id /\ r.before = current
                       \/ \E s \in RowsAt(j, type, key, field) : r.id = s.id /\ r.before = s.before
           /\ \A s \in j : \E r \in n : r.id = s.id /\ r.type = s.type /\ r.key = s.key /\ r.field = s.field
           /\ RowsAt(n, type, key, field) # {}
<1>. DEFINE old == RowsAt(j, type, key, field)
            new == [id |-> id, type |-> type, key |-> key, field |-> field,
                    before |-> current, after |-> value, base |-> base]
            up  == {[r EXCEPT !.after = value] : r \in old}
<1>1. CASE old = {}
  <2>1. n = j \cup {new}
    BY <1>1 DEF Put, Inserted
  <2>2. \A r \in j : r.id \in Nat /\ ~(r.type = type /\ r.key = key /\ r.field = field)
    BY <1>1 DEF RowsAt, PendingChange
  <2>3. new \in RowsAt(n, type, key, field)
    BY <2>1 DEF RowsAt
  <2>4. \A r \in j : r.id < id + 1
    BY <2>2
  <2>5. new.id = id /\ new.type = type /\ new.key = key /\ new.field = field /\ new.after = value
        /\ new.before = current
    OBVIOUS
  <2>. QED
    <3>. HIDE DEF new
    <3>. QED BY <2>1, <2>2, <2>3, <2>4, <2>5
<1>2. CASE old # {}
  <2>1. n = (j \ old) \cup up
    BY <1>2 DEF Put, Overwritten
  <2>2. \A m \in up : \E r \in old : /\ m.id = r.id /\ m.before = r.before /\ m.after = value
                                   /\ m.type = type /\ m.key = key /\ m.field = field
    BY DEF RowsAt, PendingChange
  <2>3. ASSUME NEW r \in old
        PROVE  \E m \in up : m.id = r.id /\ m.type = type /\ m.key = key /\ m.field = field
    <3>1. [r EXCEPT !.after = value] \in up
      OBVIOUS
    <3>. QED
      BY <3>1 DEF RowsAt, PendingChange
  <2>4. \A r \in j : r.id \in Nat
    BY DEF PendingChange
  <2>5. \A r \in j \ old : ~(r.type = type /\ r.key = key /\ r.field = field)
    BY DEF RowsAt
  <2>6. \A r \in old : r \in j /\ r.type = type /\ r.key = key /\ r.field = field
    BY DEF RowsAt
  <2>7. \E m \in up : m.type = type /\ m.key = key /\ m.field = field
    BY <1>2, <2>3
  <2>8. RowsAt(n, type, key, field) # {}
    BY <2>1, <2>7 DEF RowsAt
  <2>. QED
    <3>. HIDE DEF up, old
    <3>1. \A r \in n : r.id < id + 1
      BY <2>1, <2>2, <2>4, <2>6
    <3>2. \A s \in j : \E r \in n : r.id = s.id /\ r.type = s.type /\ r.key = s.key /\ r.field = s.field
      BY <2>1, <2>3, <2>6
    <3>3. \A r \in n :
            \/ r \in j /\ ~(r.type = type /\ r.key = key /\ r.field = field)
            \/ /\ r.type = type /\ r.key = key /\ r.field = field /\ r.after = value
               /\ \E s \in old : r.id = s.id /\ r.before = s.before
      BY <2>1, <2>2, <2>5
    <3>. QED
      BY <2>8, <3>1, <3>2, <3>3 DEF old
<1>. QED
  BY <1>1, <1>2

\* Put keeps the table well keyed when the id it may hand out is new.
LEMMA PutWellKeyed ==
    ASSUME NEW Types, NEW Keys, NEW Fields, NEW Values,
           NEW j \in SUBSET PendingChange(Types, Keys, Fields, Values),
           WellKeyed(j),
           NEW id \in Nat, \A r \in j : r.id < id,
           NEW type, NEW key, NEW field, NEW current, NEW value, NEW base
    PROVE  WellKeyed(Put(j, id, type, key, field, current, value, base))
<1>. DEFINE old == RowsAt(j, type, key, field)
<1>1. CASE \A r \in old : r.before # value
  <2>1. Put(j, id, type, key, field, current, value, base)
          = Upsert(j, id, type, key, field, current, value, base)
    BY <1>1, PutIsUpsert
  <2>. QED
    BY <2>1, UpsertWellKeyed
<1>2. CASE \E r \in old : r.before = value
  <2>1. PICK s \in old : old = {s} /\ s \in j
    <3>1. PICK s \in old : s.type = type /\ s.key = key /\ s.field = field /\ s \in j
      BY <1>2 DEF RowsAt
    <3>2. old = {s}
      BY <3>1, RowAtIsUnique
    <3>. QED
      BY <3>1, <3>2
  <2>. DEFINE up == [s EXCEPT !.after = value]
  <2>2. Put(j, id, type, key, field, current, value, base) = (j \ {s}) \cup {up}
    BY <2>1 DEF Put, Overwritten
  <2>3. up.id = s.id /\ up.type = s.type /\ up.key = s.key /\ up.field = s.field
    BY <2>1 DEF PendingChange
  <2>4. \A r \in j \ {s} : r.id # up.id /\ ~(r.type = up.type /\ r.key = up.key /\ r.field = up.field)
    BY <2>1, <2>3 DEF WellKeyed
  <2>. HIDE DEF up
  <2>. QED
    BY <2>2, <2>4 DEF WellKeyed
<1>. QED
  BY <1>1, <1>2

\* What one place answers is of the type of its rows.
LEMMA AfterValIn ==
    ASSUME NEW j, NEW type, NEW key, NEW field, NEW D, NEW d \in D,
           \A r \in RowsAt(j, type, key, field) : r.after \in D
    PROVE  AfterVal(j, type, key, field, d) \in D
BY RowAtIsThere DEF AfterVal, RowsAt

LEMMA BeforeValIn ==
    ASSUME NEW j, NEW type, NEW key, NEW field, NEW D, NEW d \in D,
           \A r \in RowsAt(j, type, key, field) : r.before \in D
    PROVE  BeforeVal(j, type, key, field, d) \in D
BY RowAtIsThere DEF BeforeVal, RowsAt
=============================================================================
