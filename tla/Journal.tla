------------------------------ MODULE Journal ------------------------------
(***************************************************************************)
(* The pending-change journal (core/journal/journal.go): a table of rows,  *)
(* one per (entity type, entity key, field), each holding the value the    *)
(* field had when it was first edited, the value asked for, and the remote *)
(* version the edit was made against.  A journal is a set of rows; every   *)
(* operator below is one helper of the package, which the store calls      *)
(* inside the transaction that changes the entity.  Timestamps and the     *)
(* audit trail are left out.                                               *)
(***************************************************************************)
EXTENDS Integers

\* A row.  Its id is the AUTOINCREMENT key: ids grow and are never reused.
PendingChange(Types, Keys, Fields, Values) ==
    [id: Nat, type: Types, key: Keys, field: Fields,
     before: Values, after: Values, base: Nat]

\* The rows at one place of the UNIQUE (entity_type, entity_key, field) index.
RowsAt(j, type, key, field) ==
    {r \in j : r.type = type /\ r.key = key /\ r.field = field}

\* The one row at a place that has one, and the values it gives its field.
RowAt(j, type, key, field) == CHOOSE r \in RowsAt(j, type, key, field) : TRUE

AfterVal(j, type, key, field, unpended) ==
    IF RowsAt(j, type, key, field) = {} THEN unpended
    ELSE RowAt(j, type, key, field).after

BeforeVal(j, type, key, field, unpended) ==
    IF RowsAt(j, type, key, field) = {} THEN unpended
    ELSE RowAt(j, type, key, field).before

\* INSERT INTO pending_change.
Inserted(j, id, type, key, field, current, value, base) ==
    j \cup {[id |-> id, type |-> type, key |-> key, field |-> field,
             before |-> current, after |-> value, base |-> base]}

\* UPDATE pending_change SET after_val: id, before_val and base_version stay.
Overwritten(j, rows, value) ==
    (j \ rows) \cup {[r EXCEPT !.after = value] : r \in rows}

\* Put: a first write inserts, a later one overwrites, whatever the value.
Put(j, id, type, key, field, current, value, base) ==
    LET old == RowsAt(j, type, key, field)
    IN  IF old = {} THEN Inserted(j, id, type, key, field, current, value, base)
        ELSE Overwritten(j, old, value)

\* Mutant of Upsert: a later edit takes the version it was made at.
UpsertRebasing(j, id, type, key, field, current, value, base) ==
    LET old == RowsAt(j, type, key, field)
    IN  IF \E r \in old : r.before = value THEN j \ old
        ELSE IF old = {} THEN Inserted(j, id, type, key, field, current, value, base)
        ELSE {[r EXCEPT !.base = base] : r \in Overwritten({}, old, value)} \cup (j \ old)

\* A first edit inserts, a later one overwrites, and one that returns to the
\* original before_val deletes the row.
Upsert(j, id, type, key, field, current, value, base) ==
    LET old == RowsAt(j, type, key, field)
    IN  IF old = {} THEN Inserted(j, id, type, key, field, current, value, base)
        ELSE IF \E r \in old : r.before = value THEN j \ old
        ELSE Overwritten(j, old, value)

\* DELETE FROM pending_change WHERE id IN ids.
Delete(j, ids) == {r \in j : r.id \notin ids}

\* ListForKey: every row of one entity key, across entity types.
ListForKey(j, key) == {r \in j : r.key = key}

\* SetBaseVersion: rebases every row of one entity key.
SetBaseVersion(j, key, version) ==
    {IF r.key = key THEN [r EXCEPT !.base = version] ELSE r : r \in j}

\* What the UNIQUE index and the AUTOINCREMENT key promise of the table.
WellKeyed(j) ==
    \A r, s \in j :
        (\/ r.id = s.id
         \/ r.type = s.type /\ r.key = s.key /\ r.field = s.field) => r = s
=============================================================================
