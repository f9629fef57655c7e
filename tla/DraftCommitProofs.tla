-------------------------- MODULE DraftCommitProofs --------------------------
(***************************************************************************)
(* What DraftCommit promises of a draft, for any number of drafts and      *)
(* issues, any mix of disturbances and whatever the user does meanwhile:   *)
(* Commit drops none that Jira has not got, and creates none twice but     *)
(* after a lost answer, a journal that could not be cleared, or a crash    *)
(* (Drafts, Once); every key is of the kind its place holds (Typed); a     *)
(* key names one draft from the click to Jira, through every rename, so    *)
(* what is sent, and what is still pending, is what was meant (Meaning);   *)
(* and a Commit that ends leaves only what failed (Order).                 *)
(***************************************************************************)
EXTENDS DraftCommit, JournalProofs, SequenceTheorems, WellFoundedInduction

-----------------------------------------------------------------------------
\* What has to be known of the data: the columns of a row and of an issue.
\* Which values they hold does not matter here.

IsRow(r) == r = [id |-> r.id, type |-> r.type, key |-> r.key, field |-> r.field,
                 before |-> r.before, after |-> r.after, base |-> r.base]
IsIssue(i) == i = [draft |-> i.draft, level |-> i.level, parent |-> i.parent]

\* Rows with ids below the counter, each of its own.
Numbered(j, id) ==
    /\ \A r \in j : IsRow(r) /\ r.id \in Nat /\ r.id < id
    /\ \A r, s \in j : r.id = s.id => r = s

\* Every row of n has the id and the type of a row of j, or a new id.
From(n, j, id) == \A p \in n : p.id = id \/ \E q \in j : q.id = p.id /\ q.type = p.type

\* The row the Commit is at.
Current == IF pc \in {"idle", "next"} THEN {} ELSE {cur}

\* The ids a phase holds are given to no other row, nor to one of another type.
Held ==
    /\ Numbered(todo \cup Current, nextId)
    /\ todo \cap Current = {}
    /\ \A r \in todo \cup Current, p \in journal : p.id = r.id => p.type = r.type

\* Jira's issues carry the ids of create rows that were, or a number of the seed.
Issues ==
    /\ jira \in Seq({jira[k] : k \in DOMAIN jira})
    /\ \A k \in DOMAIN jira :
          IsIssue(jira[k]) /\ jira[k].draft \in Int /\ jira[k].draft < nextId

Tables == nextId \in Nat /\ Numbered(journal, nextId) /\ Issues

\* A create row a step may delete is of a draft Jira has.
Landed ==
    /\ pc \in {"rekey", "forget"} => cur.type = EntityIssueCreate
    /\ pc \in {"rekey", "forget", "clear"} /\ cur.type = EntityIssueCreate =>
          \E k \in DOMAIN jira : jira[k].draft = cur.id

Drafts == Tables /\ Held /\ Landed

-----------------------------------------------------------------------------
\* Rows under the journal's helpers.

LEMMA NumberedSubset ==
    ASSUME NEW j, NEW id \in Int, NEW id2 \in Int, id <= id2, Numbered(j, id), NEW S \in SUBSET j
    PROVE  Numbered(S, id2) /\ From(S, j, id)
BY DEF Numbered, From

\* An overwritten row keeps its id and its type.
LEMMA OverwrittenRows ==
    ASSUME NEW j, NEW id \in Nat, Numbered(j, id), NEW S \in SUBSET j, NEW value
    PROVE  Numbered(Overwritten(j, S, value), id) /\ From(Overwritten(j, S, value), j, id)
<1>. DEFINE up(r) == [r EXCEPT !.after = value]
            n == Overwritten(j, S, value)
<1>1. \A r \in j : IsRow(up(r)) /\ up(r).id = r.id /\ up(r).type = r.type
  BY DEF Numbered, IsRow
<1>2. \A p \in n : \E q \in j : /\ p.id = q.id /\ p.type = q.type /\ IsRow(p)
                               /\ p = (IF q \in S THEN up(q) ELSE q)
  <2>. SUFFICES ASSUME NEW p \in n
                PROVE  \E q \in j : /\ p.id = q.id /\ p.type = q.type /\ IsRow(p)
                                    /\ p = (IF q \in S THEN up(q) ELSE q)
    OBVIOUS
  <2>1. CASE p \in j \ S
    BY <2>1 DEF Numbered
  <2>2. CASE \E q \in S : p = up(q)
    BY <1>1, <2>2
  <2>. QED
    BY <2>1, <2>2 DEF Overwritten
<1>. HIDE DEF n, up
<1>3. \A p \in n : IsRow(p) /\ p.id \in Nat /\ p.id < id
  BY <1>2 DEF Numbered
<1>4. ASSUME NEW p \in n, NEW q \in n, p.id = q.id PROVE p = q
  BY <1>2, <1>4 DEF Numbered
<1>. QED
  BY <1>2, <1>3, <1>4 DEF Numbered, From, n

\* What Put and Upsert return: the rows there were, and one new id at most.
LEMMA WrittenRows ==
    ASSUME NEW j, NEW id \in Nat, Numbered(j, id),
           NEW type, NEW key, NEW field, NEW current, NEW value, NEW base,
           NEW n, n \in {Put(j, id, type, key, field, current, value, base),
                         Upsert(j, id, type, key, field, current, value, base)}
    PROVE  /\ From(n, j, id)
           /\ Numbered(n, id + 1)
           /\ RowsAt(j, type, key, field) # {} => Numbered(n, id)
<1>. DEFINE old == RowsAt(j, type, key, field)
            new == [id |-> id, type |-> type, key |-> key, field |-> field,
                    before |-> current, after |-> value, base |-> base]
<1>1. old \in SUBSET j /\ id + 1 \in Int /\ id <= id + 1 /\ id <= id
  BY DEF RowsAt
<1>2. CASE n = j \cup {new} /\ old = {}
  <2>1. IsRow(new) /\ new.id = id
    BY DEF IsRow
  <2>. HIDE DEF new
  <2>2. \A r \in j : r.id \in Nat /\ r.id < id /\ IsRow(r)
    BY DEF Numbered
  <2>3. \A r \in n : IsRow(r) /\ r.id \in Nat /\ r.id < id + 1
    BY <1>2, <2>1, <2>2
  <2>4. \A r, s \in n : r.id = s.id => r = s
    BY <1>2, <2>1, <2>2 DEF Numbered
  <2>. QED
    BY <1>2, <2>1, <2>3, <2>4 DEF Numbered, From
<1>3. CASE n = j \ old /\ old # {}
  <2>1. n \in SUBSET j
    BY <1>3
  <2>. QED
    BY <1>1, <2>1, NumberedSubset
<1>4. CASE n = Overwritten(j, old, value) /\ old # {}
  <2>1. Numbered(n, id) /\ From(n, j, id)
    BY <1>1, <1>4, OverwrittenRows
  <2>. QED
    BY <1>1, <2>1, NumberedSubset
<1>. QED
  BY <1>2, <1>3, <1>4 DEF Put, Upsert, Inserted

\* A renamed row keeps its id and its type, and every row is still there.
LEMMA RenamedRows ==
    ASSUME NEW j, NEW id \in Nat, Numbered(j, id), NEW from, NEW to
    PROVE  /\ Numbered(Renamed(j, from, to), id) /\ From(Renamed(j, from, to), j, id)
           /\ {r.id : r \in j} = {r.id : r \in Renamed(j, from, to)}
<1>. DEFINE up(r) == [r EXCEPT !.key = IF @ = from THEN to ELSE @,
                               !.after.to = IF @ = from THEN to ELSE @,
                               !.field = IF r.type = EntityLink /\ @ = from THEN to ELSE @]
            n == Renamed(j, from, to)
<1>1. ASSUME NEW r \in j PROVE IsRow(up(r)) /\ up(r).id = r.id /\ up(r).type = r.type
  <2>. DEFINE k == IF r.key = from THEN to ELSE r.key
              a == [r.after EXCEPT !.to = IF @ = from THEN to ELSE @]
              f == IF r.type = EntityLink /\ r.field = from THEN to ELSE r.field
              u == [id |-> r.id, type |-> r.type, key |-> k, field |-> f,
                    before |-> r.before, after |-> a, base |-> r.base]
  <2>1. IsRow(r)
    BY DEF Numbered
  <2>2. up(r) = [r EXCEPT !.key = k, !.after = a, !.field = f]
    OBVIOUS
  <2>. HIDE DEF up, k, a, f
  <2>3. up(r) = u
    BY <2>1, <2>2 DEF IsRow
  <2>. QED
    BY <2>3 DEF IsRow
<1>2. n = {up(r) : r \in j}
  BY DEF Renamed
<1>. HIDE DEF n, up
<1>3. \A p \in n : \E q \in j : p = up(q)
  BY <1>2
<1>4. \A p \in n : IsRow(p) /\ p.id \in Nat /\ p.id < id
  BY <1>1, <1>3 DEF Numbered
<1>5. ASSUME NEW p \in n, NEW q \in n, p.id = q.id PROVE p = q
  BY <1>1, <1>3, <1>5 DEF Numbered
<1>6. From(n, j, id)
  BY <1>1, <1>3 DEF From
<1>7. {r.id : r \in j} = {r.id : r \in n}
  BY <1>1, <1>2
<1>. QED
  BY <1>4, <1>5, <1>6, <1>7 DEF Numbered, n

\* A row held before, under a new key perhaps.
Kept(r) == IsRow(r) /\ \E q \in (todo \cup Current) \ todo' : q.id = r.id /\ q.type = r.type

\* What a phase holds stays apart from what is written meanwhile.
LEMMA HeldFrame ==
    ASSUME Tables, Held, nextId' \in Nat, nextId <= nextId', From(journal', journal, nextId),
           todo' \subseteq todo, \A r \in Current' : Kept(r)
    PROVE  Held'
<1>1. \A r \in todo \cup Current : r.id \in Nat /\ r.id < nextId /\ r.id < nextId' /\ IsRow(r)
  BY DEF Tables, Held, Numbered
<1>2. \A r \in todo' \cup Current' : IsRow(r) /\ \E q \in todo \cup Current : q.id = r.id /\ q.type = r.type
  BY <1>1 DEF Kept
<1>3. \A r, s \in Current' : r = s
  BY DEF Current
<1>4. \A r, s \in todo \cup Current : r.id = s.id => r = s
  BY DEF Held, Numbered
<1>5. ASSUME NEW r \in Current', NEW s \in todo' PROVE r.id # s.id
  BY <1>4 DEF Kept
<1>6. \A r, s \in todo' \cup Current' : r.id = s.id => r = s
  BY <1>3, <1>4, <1>5
<1>7. Numbered(todo' \cup Current', nextId') /\ todo' \cap Current' = {}
  BY <1>1, <1>2, <1>5, <1>6 DEF Numbered
<1>8. ASSUME NEW r \in todo' \cup Current', NEW p \in journal', p.id = r.id PROVE p.type = r.type
  <2>1. PICK h \in todo \cup Current : h.id = r.id /\ h.type = r.type
    BY <1>2
  <2>2. p.id # nextId
    BY <1>1, <1>8, <2>1 DEF Tables
  <2>3. PICK q \in journal : q.id = p.id /\ q.type = p.type
    BY <2>2 DEF From
  <2>. QED
    BY <1>8, <2>1, <2>3 DEF Held
<1>. QED
  BY <1>7, <1>8 DEF Held

\* A phase takes its rows from the journal as it is.
LEMMA HeldReload ==
    ASSUME Tables, UNCHANGED <<journal, nextId>>, todo' \subseteq journal, Current' = {}
    PROVE  Held'
<1>1. Numbered(todo' \cup Current', nextId')
  BY NumberedSubset DEF Tables, Numbered
<1>. QED
  BY <1>1 DEF Held, Tables, Numbered

-----------------------------------------------------------------------------
\* What a write makes of Jira: its issues stay, and a created one is new.

Grown ==
    /\ \A k \in DOMAIN jira : k \in DOMAIN jira' /\ jira'[k].draft = jira[k].draft
    /\ \A k, l \in DOMAIN jira' \ DOMAIN jira : k = l
    /\ \A k \in DOMAIN jira' \ DOMAIN jira :
          pc = "send" /\ cur.type = EntityIssueCreate /\ jira'[k].draft = cur.id

LEMMA RangeSeq ==
    ASSUME NEW S, NEW s \in Seq(S)
    PROVE  s \in Seq({s[k] : k \in DOMAIN s})
<1>1. PICK n \in Nat : s \in [1..n -> S]
  BY SeqDef
<1>2. s \in [1..n -> {s[k] : k \in DOMAIN s}]
  BY <1>1
<1>. QED
  BY <1>1, <1>2, SeqDef

LEMMA LandGrows ==
    ASSUME Tables, Held, pc = "send", Land, nextId' = nextId
    PROVE  /\ Issues' /\ Grown
           /\ cur.type = EntityIssueCreate => \E k \in DOMAIN jira' : jira'[k].draft = cur.id
<1>. DEFINE X == {jira[k] : k \in DOMAIN jira}
            new == [draft |-> cur.id, level |-> cur.after.level, parent |-> cur.after.to]
            n == Len(jira)
<1>1. jira \in Seq(X) /\ \A k \in DOMAIN jira : IsIssue(jira[k]) /\ jira[k].draft \in Int /\ jira[k].draft < nextId
  BY DEF Tables, Issues
<1>2. cur.id \in Nat /\ cur.id < nextId /\ nextId \in Nat
  BY DEF Held, Current, Numbered, Tables
<1>3. CASE cur.type = EntityIssueCreate /\ jira' = Append(jira, new)
  <2>1. IsIssue(new) /\ new.draft = cur.id
    BY DEF IsIssue
  <2>2. jira \in Seq(X \cup {new}) /\ new \in X \cup {new}
    BY <1>1, SeqMonotonic
  <2>. HIDE DEF new, X
  <2>3. /\ jira' \in Seq(X \cup {new}) /\ Len(jira') = n + 1
        /\ \A i \in 1..n : jira'[i] = jira[i]
        /\ jira'[n + 1] = new
    BY <1>3, <2>2, AppendProperties
  <2>4. n \in Nat /\ DOMAIN jira = 1..n /\ DOMAIN jira' = 1..(n + 1)
    BY <2>2, <2>3, LenProperties
  <2>5. jira' \in Seq({jira'[k] : k \in DOMAIN jira'})
    BY <2>3, RangeSeq
  <2>6. \A k \in DOMAIN jira' : (k \in DOMAIN jira /\ jira'[k] = jira[k]) \/ (k = n + 1 /\ jira'[k] = new)
    BY <2>3, <2>4
  <2>7. n + 1 \in DOMAIN jira' /\ n + 1 \notin DOMAIN jira
    BY <2>4
  <2>8. Issues'
    BY <1>1, <1>2, <2>1, <2>5, <2>6 DEF Issues
  <2>9. Grown
    BY <1>3, <2>1, <2>3, <2>4, <2>6 DEF Grown
  <2>. QED
    BY <2>1, <2>3, <2>7, <2>8, <2>9
<1>4. CASE jira' = [jira EXCEPT ![cur.key].parent = cur.after.to] /\ cur.type # EntityIssueCreate
  <2>1. DOMAIN jira' = DOMAIN jira
    BY <1>4
  <2>2. \A k \in DOMAIN jira : jira'[k] = IF k = cur.key THEN [jira[k] EXCEPT !.parent = cur.after.to] ELSE jira[k]
    BY <1>4
  <2>3. \A k \in DOMAIN jira : IsIssue(jira'[k]) /\ jira'[k].draft = jira[k].draft
    BY <1>1, <2>2 DEF IsIssue
  <2>4. PICK m \in Nat : jira \in [1..m -> X]
    BY <1>1, SeqDef
  <2>5. jira' \in [1..m -> {jira'[k] : k \in DOMAIN jira'}]
    BY <1>4, <2>1, <2>4
  <2>6. jira' \in Seq({jira'[k] : k \in DOMAIN jira'})
    BY <2>5, SeqDef
  <2>7. Issues'
    BY <1>1, <2>1, <2>3, <2>6 DEF Issues
  <2>. QED
    BY <1>4, <2>1, <2>3, <2>7 DEF Grown
<1>5. CASE UNCHANGED jira /\ cur.type # EntityIssueCreate
  BY <1>1, <1>5 DEF Issues, Grown
<1>. QED
  BY <1>3, <1>4, <1>5 DEF Land, EntityIssueCreate, EntityIssue, EntityLink

\* The other steps leave Jira as it is.
LEMMA StaysGrown ==
    ASSUME Tables, UNCHANGED jira, nextId' \in Nat, nextId <= nextId'
    PROVE  Issues' /\ Grown
BY DEF Tables, Issues, Grown

-----------------------------------------------------------------------------
\* Drafts is inductive.

LEMMA InitDrafts == Init => Drafts
<1>. SUFFICES ASSUME Init PROVE Drafts
  OBVIOUS
<1>. DEFINE S == {jira[k] : k \in DOMAIN jira}
            e(k) == [draft |-> -k, level |-> Seed[k], parent |-> None]
<1>1. Len(Seed) \in Nat
  BY DraftCommitAssumption, LenProperties
<1>2. jira = [k \in 1..Len(Seed) |-> e(k)]
  BY DEF Init
<1>3. jira \in [1..Len(Seed) -> S]
  BY <1>2
<1>4. jira \in Seq(S)
  BY <1>1, <1>3, SeqDef
<1>5. \A k \in DOMAIN jira : jira[k] = e(k) /\ k \in Nat /\ k >= 1
  BY <1>1, <1>2
<1>6. \A k \in DOMAIN jira : IsIssue(jira[k]) /\ jira[k].draft \in Int /\ jira[k].draft < 1
  BY <1>5 DEF IsIssue
<1>7. nextId = 1 /\ journal = {} /\ todo = {} /\ pc = "idle"
  BY DEF Init
<1>. QED
  BY <1>4, <1>6, <1>7 DEF Drafts, Tables, Issues, Held, Landed, Numbered, Current

\* The user's bindings write rows of their own and none of the Commit's.
Wrote ==
    /\ UNCHANGED <<engine, remote>> /\ met \subseteq met'
    /\ nextId' \in Nat /\ nextId <= nextId'
    /\ Numbered(journal', nextId') /\ From(journal', journal, nextId)

LEMMA UserWrites ==
    ASSUME Drafts, UserStep
    PROVE  Wrote
<1>1. nextId \in Nat /\ Numbered(journal, nextId)
  BY DEF Drafts, Tables
<1>2. ASSUME NEW S \in SUBSET journal, NEW v, journal' = Overwritten(journal, S, v), nextId' = nextId
      PROVE  Numbered(journal', nextId') /\ From(journal', journal, nextId)
  BY <1>1, <1>2, OverwrittenRows
<1>3. ASSUME NEW S \in SUBSET journal, journal' = S, nextId' = nextId
      PROVE  Numbered(journal', nextId') /\ From(journal', journal, nextId)
  BY <1>1, <1>3, NumberedSubset
<1>4. CASE \E level \in Levels, parent \in DOMAIN issue \cup {None} : CreateDraft(level, parent)
  <2>1. PICK level \in Levels, parent \in DOMAIN issue \cup {None} : CreateDraft(level, parent)
    BY <1>4
  <2>2. /\ journal' = Put(journal, nextId, EntityIssueCreate, -NextDraft, None, Nothing,
                          Asked(level, parent, nextId), 0)
        /\ nextId' = nextId + 1
    BY <2>1 DEF CreateDraft
  <2>3. Numbered(journal', nextId') /\ From(journal', journal, nextId)
    BY <1>1, <2>2, WrittenRows
  <2>. QED
    BY <1>1, <2>1, <2>2, <2>3 DEF CreateDraft, Unguarded, Wrote
<1>5. CASE \E k \in DOMAIN issue, parent \in DOMAIN issue \cup {None} : EditDraftParent(k, parent)
  <2>1. PICK k \in DOMAIN issue, parent \in DOMAIN issue \cup {None} : EditDraftParent(k, parent)
    BY <1>5
  <2>2. CreateRows(k) \in SUBSET journal
    BY DEF CreateRows, RowsAt
  <2>3. Numbered(journal', nextId') /\ From(journal', journal, nextId)
    BY <1>2, <2>1, <2>2 DEF EditDraftParent
  <2>. QED
    BY <1>1, <2>1, <2>3 DEF EditDraftParent, Unguarded, Wrote
<1>6. CASE \E k \in DOMAIN issue, parent \in DOMAIN issue \cup {None} : EditParent(k, parent)
  <2>1. PICK k \in DOMAIN issue, parent \in DOMAIN issue \cup {None} : EditParent(k, parent)
    BY <1>6
  <2>2. nextId' = IF RowsAt(journal, EntityIssue, k, None) = {} THEN nextId + 1 ELSE nextId
    BY <2>1 DEF EditParent, ParentRows
  <2>3. ASSUME journal' = journal \ ParentRows(k), ParentRows(k) # {}
        PROVE  Numbered(journal', nextId') /\ From(journal', journal, nextId)
    <3>1. nextId' = nextId /\ journal' \in SUBSET journal
      BY <2>2, <2>3 DEF ParentRows
    <3>. QED
      BY <1>3, <3>1
  <2>4. ASSUME journal' = Upsert(journal, nextId, EntityIssue, k, None, Asked(None, issue[k].to, Who(k)),
                                 Asked(None, parent, Who(k)), 0)
        PROVE  Numbered(journal', nextId') /\ From(journal', journal, nextId)
    BY <1>1, <2>2, <2>4, WrittenRows
  <2>5. Numbered(journal', nextId') /\ From(journal', journal, nextId)
    BY <2>1, <2>3, <2>4 DEF EditParent
  <2>. QED
    BY <1>1, <2>1, <2>2, <2>5 DEF EditParent, Unguarded, Wrote
<1>7. CASE \E k, to \in DOMAIN issue : AddLink(k, to)
  <2>1. PICK k, to \in DOMAIN issue : AddLink(k, to)
    BY <1>7
  <2>2. /\ journal' = Put(journal, nextId, EntityLink, k, to, Nothing, Asked(None, to, Who(k)), 0)
        /\ nextId' = nextId + 1
    BY <2>1 DEF AddLink
  <2>3. Numbered(journal', nextId') /\ From(journal', journal, nextId)
    BY <1>1, <2>2, WrittenRows
  <2>. QED
    BY <1>1, <2>1, <2>2, <2>3 DEF AddLink, Unguarded, Wrote
<1>8. CASE \E r \in journal : DiscardPendingChange(r)
  <2>1. PICK r \in journal : DiscardPendingChange(r)
    BY <1>8
  <2>2. Delete(journal, {r.id}) \in SUBSET journal
    BY DEF Delete
  <2>3. Numbered(journal', nextId') /\ From(journal', journal, nextId)
    BY <1>3, <2>1, <2>2 DEF DiscardPendingChange
  <2>. QED
    BY <1>1, <2>1, <2>3 DEF DiscardPendingChange, Wrote
<1>. QED
  BY <1>4, <1>5, <1>6, <1>7, <1>8 DEF UserStep

LEMMA UserDrafts ==
    ASSUME Drafts, UserStep
    PROVE  Drafts'
<1>1. Wrote
  BY UserWrites
<1>2. UNCHANGED <<jira, pc, todo, cur>> /\ Current' = Current
  BY <1>1 DEF Wrote, engine, remote, Current
<1>3. \A r \in Current' : Kept(r)
  BY <1>2 DEF Kept, Drafts, Held, Numbered
<1>4. Held'
  BY <1>1, <1>2, <1>3, HeldFrame DEF Wrote, Drafts
<1>5. Issues'
  BY <1>1, <1>2, StaysGrown DEF Wrote, Drafts
<1>6. Landed'
  BY <1>2 DEF Drafts, Landed
<1>. QED
  BY <1>1, <1>4, <1>5, <1>6 DEF Wrote, Drafts, Tables

\* Steps of the Commit that write neither Jira nor the tables.
LEMMA ReadingDrafts ==
    ASSUME Drafts, UNCHANGED <<jira, journal, nextId>>, Held', Landed'
    PROVE  Drafts'
BY StaysGrown DEF Drafts, Tables

LEMMA TakeDrafts ==
    ASSUME Drafts, NEW r \in todo, Take(r)
    PROVE  Drafts'
<1>1. UNCHANGED <<jira, journal, nextId>> /\ todo' = todo \ {r} /\ pc = "next" /\ Current = {}
  BY DEF Take, remote, store, Current
<1>2. (pc' = "next" /\ Current' = {}) \/ (pc' = "send" /\ Current' = {r})
  BY <1>1 DEF Take, Hold, Fail, Go, Current
<1>3. \A q \in Current' : Kept(q)
  BY <1>1, <1>2 DEF Kept, Drafts, Held, Numbered
<1>4. From(journal', journal, nextId) /\ nextId' \in Nat /\ nextId <= nextId'
  BY <1>1 DEF From, Drafts, Tables
<1>5. Held'
  BY <1>1, <1>3, <1>4, HeldFrame DEF Drafts
<1>6. Landed'
  BY <1>2 DEF Landed
<1>. QED
  BY <1>1, <1>5, <1>6, ReadingDrafts

LEMMA ReloadDrafts ==
    ASSUME Drafts, CommitStart \/ NextPhase
    PROVE  Drafts'
<1>1. UNCHANGED <<jira, journal, nextId>> /\ todo' \subseteq journal /\ pc' = "next"
  BY DEF CommitStart, NextPhase, Reload, remote, store
<1>2. Held' /\ Landed'
  BY <1>1, HeldReload DEF Drafts, Landed, Current
<1>. QED
  BY <1>1, <1>2, ReadingDrafts

\* The step leaves the row it is at, and the journal may lose rows.
LEMMA StayDrafts ==
    ASSUME Drafts, UNCHANGED <<jira, nextId, todo>>, journal' \subseteq journal,
           pc' \in {"idle", "next"} \/ (Current # {} /\ cur' = cur), Landed'
    PROVE  Drafts' /\ Grown
<1>1. Numbered(journal', nextId') /\ From(journal', journal, nextId) /\ nextId' \in Nat /\ nextId <= nextId'
  BY NumberedSubset DEF Drafts, Tables
<1>2. Current' \subseteq Current
  BY DEF Current
<1>3. \A q \in Current' : Kept(q)
  BY <1>2 DEF Kept, Drafts, Held, Numbered
<1>4. Held'
  BY <1>1, <1>3, HeldFrame DEF Drafts
<1>. QED
  BY <1>1, <1>4, StaysGrown DEF Drafts, Tables

LEMMA SendDrafts ==
    ASSUME Drafts, Send \/ (Refused /\ Land)
    PROVE  Drafts' /\ Grown
<1>1. /\ pc = "send" /\ Land /\ UNCHANGED <<journal, nextId, todo>>
      /\ pc' = "next" \/ (cur' = cur /\ pc' = IF cur.type = EntityIssueCreate THEN "rekey" ELSE "clear")
  BY DEF Send, Refused, store, Done
<1>2. /\ Issues' /\ Grown
      /\ cur.type = EntityIssueCreate => \E k \in DOMAIN jira' : jira'[k].draft = cur.id
  BY <1>1, LandGrows DEF Drafts
<1>3. Current' \subseteq Current
  BY <1>1 DEF Current
<1>4. \A q \in Current' : Kept(q)
  BY <1>1, <1>3 DEF Kept, Drafts, Held, Numbered
<1>5. From(journal', journal, nextId) /\ nextId' \in Nat /\ nextId <= nextId'
  BY <1>1 DEF From, Drafts, Tables
<1>6. Held'
  BY <1>1, <1>4, <1>5, HeldFrame DEF Drafts
<1>7. Landed'
  BY <1>1, <1>2 DEF Landed
<1>. QED
  BY <1>1, <1>2, <1>6, <1>7 DEF Drafts, Tables

LEMMA RekeyDrafts ==
    ASSUME Drafts, Rekey
    PROVE  /\ Drafts' /\ {r.id : r \in journal} = {r.id : r \in journal'}
           /\ From(journal', journal, nextId)
<1>. DEFINE real == Len(jira)
<1>1. /\ pc = "rekey" /\ pc' = "clear" /\ UNCHANGED <<jira, nextId, todo>>
      /\ journal' = Renamed(journal, cur.key, real)
      /\ cur' = [cur EXCEPT !.key = real]
  BY DEF Rekey, remote
<1>2. nextId \in Nat /\ Numbered(journal, nextId)
  BY DEF Drafts, Tables
<1>3. /\ Numbered(journal', nextId') /\ From(journal', journal, nextId)
      /\ {r.id : r \in journal} = {r.id : r \in journal'}
  BY <1>1, <1>2, RenamedRows
<1>4. IsRow(cur) /\ Current = {cur} /\ Current' = {cur'} /\ cur \notin todo
  BY <1>1 DEF Current, Drafts, Held, Numbered
<1>5. IsRow(cur') /\ cur'.id = cur.id /\ cur'.type = cur.type
  BY <1>1, <1>4 DEF IsRow
<1>6. \A q \in Current' : Kept(q)
  BY <1>1, <1>4, <1>5 DEF Kept
<1>7. Held'
  BY <1>1, <1>2, <1>3, <1>6, HeldFrame DEF Drafts
<1>8. Landed'
  BY <1>1, <1>5 DEF Drafts, Landed
<1>9. Issues'
  BY <1>1, <1>2, StaysGrown DEF Drafts
<1>. QED
  BY <1>1, <1>2, <1>3, <1>7, <1>8, <1>9 DEF Drafts, Tables

LEMMA CommitDrafts ==
    ASSUME Drafts, CommitStep
    PROVE  Drafts' /\ Grown
<1>. USE DEF remote, store
<1>1. ASSUME UNCHANGED <<jira, nextId>> PROVE Grown
  BY <1>1, StaysGrown DEF Drafts, Tables
<1>2. CASE \E r \in todo : Take(r)
  BY <1>1, <1>2, TakeDrafts DEF Take
<1>3. CASE Send
  BY <1>3, SendDrafts
<1>4. CASE Refused
  <2>1. CASE Land
    BY <1>4, <2>1, SendDrafts
  <2>2. CASE UNCHANGED remote
    BY <1>4, <2>2, StayDrafts DEF Refused, Done, Landed
  <2>. QED
    BY <1>4, <2>1, <2>2 DEF Refused
<1>5. CASE Rekey
  BY <1>1, <1>5, RekeyDrafts DEF Rekey
<1>6. CASE RekeyFails
  <2>1. pc = "rekey" /\ pc' = "forget" /\ UNCHANGED <<jira, nextId, todo, journal, cur>>
    BY <1>6 DEF RekeyFails
  <2>2. Landed' /\ Current # {}
    BY <2>1 DEF Drafts, Landed, Current
  <2>. QED
    BY <2>1, <2>2, StayDrafts
<1>7. CASE MarkCreatedWithoutRekey
  BY <1>7, StayDrafts DEF MarkCreatedWithoutRekey, Done, Landed, Delete
<1>8. CASE MarkCommitted
  <2>1. /\ pc = "clear" /\ UNCHANGED <<jira, nextId, todo>> /\ journal' \subseteq journal
        /\ pc' = "next" \/ (pc' = "refresh" /\ cur' = cur)
    BY <1>8 DEF MarkCommitted, Done, Delete
  <2>2. Landed' /\ Current # {}
    BY <2>1 DEF Landed, Current
  <2>. QED
    BY <2>1, <2>2, StayDrafts
<1>9. CASE ClearFails
  BY <1>9, StayDrafts DEF ClearFails, Done, Landed
<1>10. CASE Refresh
  BY <1>10, StayDrafts DEF Refresh, Done, Landed
<1>11. CASE RefreshFails
  BY <1>11, StayDrafts DEF RefreshFails, Done, Landed
<1>12. CASE NextPhase
  BY <1>1, <1>12, ReloadDrafts DEF NextPhase
<1>13. CASE CommitEnds
  BY <1>13, StayDrafts DEF CommitEnds, Landed
<1>. QED
  BY <1>2, <1>3, <1>4, <1>5, <1>6, <1>7, <1>8, <1>9, <1>10, <1>11, <1>12, <1>13 DEF CommitStep

LEMMA OtherDrafts ==
    ASSUME Drafts, FullSync \/ CommitStart \/ Crash \/ UNCHANGED vars
    PROVE  Drafts'
<1>. USE DEF remote, store
<1>1. CASE FullSync \/ UNCHANGED vars
  <2>1. UNCHANGED <<jira, journal, nextId, pc, todo, cur>>
    BY <1>1 DEF FullSync, vars, engine
  <2>. QED
    BY <2>1 DEF Drafts, Tables, Issues, Held, Landed, Current
<1>2. CASE CommitStart
  BY <1>2, ReloadDrafts
<1>3. CASE Crash
  <2>1. UNCHANGED <<jira, journal, nextId>> /\ todo' = {} /\ pc' = "idle"
    BY <1>3 DEF Crash
  <2>2. Held' /\ Landed'
    BY <2>1, HeldReload DEF Drafts, Landed, Current
  <2>. QED
    BY <2>1, <2>2, ReadingDrafts
<1>. QED
  BY <1>1, <1>2, <1>3

LEMMA DraftsInvariant == Spec => []Drafts
<1>1. Init => Drafts
  BY InitDrafts
<1>2. Drafts /\ [Next]_vars => Drafts'
  BY UserDrafts, CommitDrafts, OtherDrafts DEF Next
<1>. QED
  BY <1>1, <1>2, PTL DEF Spec

-----------------------------------------------------------------------------
\* Commit takes a create row out of the journal only when Jira has its issue,
\* whatever failed, whatever was never answered, and whatever the user did.
LEMMA DroppedIsLanded ==
    ASSUME Drafts, [Next]_vars, NEW r \in journal, r.type = EntityIssueCreate
    PROVE  \/ r.id \in {s.id : s \in journal'}
           \/ UNCHANGED engine
           \/ \E k \in DOMAIN jira : jira[k].draft = r.id
<1>. USE DEF remote, store
<1>1. CASE UNCHANGED journal
  BY <1>1
<1>2. CASE UserStep
  BY <1>2, UserWrites DEF Wrote
<1>3. CASE Rekey
  BY <1>3, RekeyDrafts
<1>4. CASE MarkCreatedWithoutRekey \/ MarkCommitted
  <2>1. pc \in {"forget", "clear"} /\ journal' = {s \in journal : s.id # cur.id}
    BY <1>4 DEF MarkCreatedWithoutRekey, MarkCommitted, Delete
  <2>2. CASE r.id # cur.id
    BY <2>1, <2>2
  <2>3. CASE r.id = cur.id
    <3>1. cur \in Current
      BY <2>1 DEF Current
    <3>2. cur.type = EntityIssueCreate
      BY <2>3, <3>1 DEF Drafts, Held
    <3>. QED
      BY <2>1, <2>3, <3>2 DEF Drafts, Landed
  <2>. QED
    BY <2>2, <2>3
<1>5. CASE \E q \in todo : Take(q)
  BY <1>1, <1>5 DEF Take
<1>6. CASE Send \/ Refused \/ RekeyFails \/ ClearFails \/ Refresh \/ RefreshFails \/ NextPhase \/ CommitEnds
  BY <1>1, <1>6 DEF Send, Refused, RekeyFails, ClearFails, Refresh, RefreshFails, NextPhase, CommitEnds
<1>7. CASE FullSync \/ CommitStart \/ Crash \/ UNCHANGED vars
  BY <1>1, <1>7 DEF FullSync, CommitStart, Crash, vars
<1>. QED
  BY <1>2, <1>3, <1>4, <1>5, <1>6, <1>7 DEF Next, CommitStep

\* For any number of drafts, every disturbance and every step of the user's
\* during a Commit: a create row Commit removes is of an issue Jira has.
THEOREM NothingDraftedIsLost == Spec => NoDraftLost
<1>1. Drafts /\ [Next]_vars =>
        \A r \in journal : r.type = EntityIssueCreate =>
            \/ r.id \in {s.id : s \in journal'}
            \/ UNCHANGED engine
            \/ \E k \in DOMAIN jira : jira[k].draft = r.id
  BY DroppedIsLanded
<1>. QED
  BY <1>1, DraftsInvariant, PTL DEF Spec, NoDraftLost

-----------------------------------------------------------------------------
\* A draft is created once: until a write is answered its create row is of no
\* issue, and the one row of an issue Jira has is the row the Commit is at.

Sure == NotMet({"lost", "clear", "crash"})

Sending == IF pc = "send" THEN {cur} ELSE {}

\* The draft of this row was created, and the row is about to go.
Going(r) == r \in journal /\ pc \in {"rekey", "forget", "clear"} /\ r.id = cur.id

Unsent ==
    \A r \in journal \cup todo \cup Sending, k \in DOMAIN jira :
        r.type = EntityIssueCreate /\ jira[k].draft = r.id => Going(r)

Once == Sure => Unsent /\ \A k, l \in DOMAIN jira : jira[k].draft = jira[l].draft => k = l

\* What stays as it was, or comes with a new id, does not disturb it.
LEMMA OnceFrame ==
    ASSUME Drafts, Once, met \subseteq met',
           \A k \in DOMAIN jira' : k \in DOMAIN jira /\ jira'[k].draft = jira[k].draft,
           \A r \in journal' \cup todo' \cup Sending' :
              \/ r.id = nextId
              \/ \E q \in journal \cup todo \cup Sending :
                    q.id = r.id /\ q.type = r.type /\ (Going(q) => Going(r)')
    PROVE  Once'
<1>. SUFFICES ASSUME Sure' PROVE (Unsent /\ \A k, l \in DOMAIN jira : jira[k].draft = jira[l].draft => k = l)'
  BY DEF Once
<1>1. Unsent /\ \A k, l \in DOMAIN jira : jira[k].draft = jira[l].draft => k = l
  BY DEF Once, Sure, NotMet
<1>2. \A k \in DOMAIN jira : jira[k].draft \in Int /\ jira[k].draft < nextId /\ nextId \in Nat
  BY DEF Drafts, Tables, Issues
<1>3. ASSUME NEW r \in journal' \cup todo' \cup Sending', NEW k \in DOMAIN jira',
             r.type = EntityIssueCreate, jira'[k].draft = r.id
      PROVE  Going(r)'
  <2>1. k \in DOMAIN jira /\ jira[k].draft = r.id /\ r.id # nextId
    BY <1>2, <1>3
  <2>2. PICK q \in journal \cup todo \cup Sending :
               q.id = r.id /\ q.type = r.type /\ (Going(q) => Going(r)')
    BY <2>1
  <2>. QED
    BY <1>1, <1>3, <2>1, <2>2 DEF Unsent
<1>. QED
  BY <1>1, <1>3 DEF Unsent

\* The row the Commit sends has no namesake but its own in the journal.
LEMMA SendOnce ==
    ASSUME Drafts, Once, Send
    PROVE  Once'
<1>. SUFFICES ASSUME Sure' PROVE (Unsent /\ \A k, l \in DOMAIN jira : jira[k].draft = jira[l].draft => k = l)'
  BY DEF Once
<1>1. /\ pc = "send" /\ pc' \in {"rekey", "clear"} /\ UNCHANGED <<journal, todo, cur, met>>
      /\ Land /\ nextId' = nextId
  BY DEF Send, store
<1>2. Unsent /\ \A k, l \in DOMAIN jira : jira[k].draft = jira[l].draft => k = l
  BY <1>1 DEF Once, Sure, NotMet
<1>3. Grown
  BY <1>1, LandGrows DEF Drafts
<1>4. \A r \in journal \cup todo \cup {cur}, k \in DOMAIN jira :
         r.type = EntityIssueCreate => jira[k].draft # r.id
  BY <1>1, <1>2 DEF Unsent, Sending, Going
<1>5. \A k, l \in DOMAIN jira' : jira'[k].draft = jira'[l].draft => k = l
  BY <1>2, <1>3, <1>4 DEF Grown
<1>6. \A r \in todo : r.id # cur.id
  BY <1>1 DEF Drafts, Held, Numbered, Current
<1>7. ASSUME NEW r \in journal' \cup todo' \cup Sending', NEW k \in DOMAIN jira',
             r.type = EntityIssueCreate, jira'[k].draft = r.id
      PROVE  Going(r)'
  <2>1. r \in journal \cup todo
    BY <1>1, <1>7 DEF Sending
  <2>2. k \notin DOMAIN jira
    BY <1>3, <1>4, <1>7, <2>1 DEF Grown
  <2>3. r.id = cur.id
    BY <1>3, <1>7, <2>2 DEF Grown
  <2>. QED
    BY <1>1, <1>6, <2>1, <2>3 DEF Going
<1>. QED
  BY <1>5, <1>7 DEF Unsent

\* The row that goes leaves the journal and nothing else of its id is left.
LEMMA MarkOnce ==
    ASSUME Drafts, Once, MarkCommitted \/ MarkCreatedWithoutRekey
    PROVE  Once'
<1>1. /\ pc \in {"forget", "clear"} /\ journal' = {s \in journal : s.id # cur.id}
      /\ UNCHANGED <<jira, todo, met>> /\ pc' \in {"next", "refresh"}
  BY DEF MarkCommitted, MarkCreatedWithoutRekey, Delete, Done, remote
<1>2. \A r \in todo : r.id # cur.id
  BY <1>1 DEF Drafts, Held, Numbered, Current
<1>3. Sending' = {} /\ \A r \in journal' \cup todo' : r \in journal \cup todo /\ ~Going(r)
  BY <1>1, <1>2 DEF Sending, Going
<1>. QED
  BY <1>1, <1>3, OnceFrame

\* A row renamed is the row it was.
LEMMA RekeyOnce ==
    ASSUME Drafts, Once, Rekey
    PROVE  Once'
<1>1. pc = "rekey" /\ pc' = "clear" /\ UNCHANGED <<jira, nextId, todo, met>> /\ cur' = [cur EXCEPT !.key = Len(jira)]
  BY DEF Rekey, remote
<1>2. IsRow(cur) /\ \A r \in todo : r.id # cur.id
  BY <1>1 DEF Drafts, Held, Numbered, Current
<1>3. cur'.id = cur.id
  BY <1>1, <1>2 DEF IsRow
<1>4. From(journal', journal, nextId)
  BY RekeyDrafts
<1>5. \A r \in journal' : r.id = nextId \/ \E q \in journal : q.id = r.id /\ q.type = r.type /\ (Going(q) => Going(r)')
  BY <1>1, <1>3, <1>4 DEF From, Going
<1>6. Sending' = {} /\ \A r \in todo : ~Going(r)
  BY <1>1, <1>2 DEF Sending, Going
<1>. QED
  BY <1>1, <1>5, <1>6, OnceFrame

LEMMA CommitOnce ==
    ASSUME Drafts, Once, CommitStep
    PROVE  Once'
<1>. USE DEF remote, store
<1>1. ASSUME UNCHANGED <<jira, met>>, pc' # "send", pc \notin {"rekey", "forget", "clear"},
             journal' \cup todo' \subseteq journal \cup todo
      PROVE  Once'
  BY <1>1, OnceFrame DEF Sending, Going
<1>2. CASE \E r \in todo : Take(r)
  <2>1. PICK r \in todo : Take(r)
    BY <1>2
  <2>2. /\ UNCHANGED <<jira, met, journal>> /\ pc = "next" /\ todo' = todo \ {r}
        /\ pc' = "next" \/ (pc' = "send" /\ cur' = r)
    BY <2>1 DEF Take, Hold, Fail, Go
  <2>3. Sending' \subseteq {r} /\ \A q : ~Going(q)
    BY <2>2 DEF Sending, Going
  <2>. QED
    BY <2>2, <2>3, OnceFrame
<1>3. CASE Send
  BY <1>3, SendOnce
<1>4. CASE Refused
  <2>1. CASE "lost" \in met'
    BY <2>1 DEF Once, Sure, NotMet
  <2>2. CASE UNCHANGED <<remote, met>>
    BY <1>1, <1>4, <2>2 DEF Refused, Done
  <2>. QED
    BY <1>4, <2>1, <2>2 DEF Refused
<1>5. CASE Rekey
  BY <1>5, RekeyOnce
<1>6. CASE RekeyFails
  <2>1. pc = "rekey" /\ pc' = "forget" /\ UNCHANGED <<jira, todo, journal, cur, met>>
    BY <1>6 DEF RekeyFails
  <2>2. Sending' = {} /\ \A q : Going(q) => Going(q)'
    BY <2>1 DEF Sending, Going
  <2>. QED
    BY <2>1, <2>2, OnceFrame
<1>7. CASE MarkCreatedWithoutRekey \/ MarkCommitted
  BY <1>7, MarkOnce
<1>8. CASE ClearFails
  BY <1>8 DEF ClearFails, Once, Sure, NotMet
<1>9. CASE Refresh \/ RefreshFails
  BY <1>1, <1>9 DEF Refresh, RefreshFails, Done
<1>10. CASE NextPhase
  BY <1>1, <1>10 DEF NextPhase, Reload
<1>11. CASE CommitEnds
  BY <1>1, <1>11 DEF CommitEnds
<1>. QED
  BY <1>2, <1>3, <1>4, <1>5, <1>6, <1>7, <1>8, <1>9, <1>10, <1>11 DEF CommitStep

LEMMA OtherOnce ==
    ASSUME Drafts, Once, UserStep \/ FullSync \/ CommitStart \/ Crash \/ UNCHANGED vars
    PROVE  Once'
<1>. USE DEF remote, store
<1>1. CASE UserStep
  <2>1. Wrote
    BY <1>1, UserWrites
  <2>2. UNCHANGED <<jira, pc, todo, cur>> /\ Sending' = Sending /\ met \subseteq met'
    BY <2>1 DEF Wrote, engine, Sending
  <2>3. \A r \in todo : ~Going(r) \/ r \in journal
    BY DEF Going
  <2>4. \A r \in Sending : ~Going(r)
    BY DEF Sending, Going
  <2>5. \A r \in todo : ~Going(r)
    BY DEF Going, Drafts, Held, Numbered, Current
  <2>6. \A r \in journal' : r.id = nextId \/ \E q \in journal : q.id = r.id /\ q.type = r.type /\ (Going(q) => Going(r)')
    BY <2>1, <2>2 DEF Wrote, From, Going
  <2>. QED
    BY <2>2, <2>4, <2>5, <2>6, OnceFrame
<1>2. CASE FullSync \/ UNCHANGED vars
  <2>1. UNCHANGED <<jira, journal, todo, pc, cur, met>>
    BY <1>2 DEF FullSync, vars, engine
  <2>. QED
    BY <2>1 DEF Once, Unsent, Sending, Going, Sure, NotMet
<1>3. CASE CommitStart
  <2>1. UNCHANGED <<jira, journal, met>> /\ todo' \subseteq journal /\ pc = "idle" /\ pc' = "next"
    BY <1>3 DEF CommitStart, Reload
  <2>2. Sending' = {} /\ \A q : ~Going(q)
    BY <2>1 DEF Sending, Going
  <2>. QED
    BY <2>1, <2>2, OnceFrame
<1>4. CASE Crash
  BY <1>4 DEF Crash, Once, Sure, NotMet
<1>. QED
  BY <1>1, <1>2, <1>3, <1>4

LEMMA InitOnce == Init => Once
<1>1. Init => \A k \in DOMAIN jira : k \in Int /\ jira[k].draft = -k
  BY DraftCommitAssumption, LenProperties DEF Init
<1>2. Init => journal = {} /\ todo = {} /\ Sending = {}
  BY DEF Init, Sending
<1>. QED
  BY <1>1, <1>2 DEF Once, Unsent

\* For any number of drafts: unless an answer was lost, a journal row could
\* not be deleted, or the app died, no two issues of Jira are of one draft.
THEOREM NothingIsCreatedTwice == Spec => []CreatedAtMostOnce
<1>1. Drafts /\ Once /\ [Next]_vars => Once'
  BY CommitOnce, OtherOnce DEF Next
<1>2. Once => CreatedAtMostOnce
  BY DEF Once, Sure, CreatedAtMostOnce
<1>. QED
  BY <1>1, <1>2, InitOnce, DraftsInvariant, PTL DEF Spec
-----------------------------------------------------------------------------
\* nextDraftNumberTx finds a number no cached draft has.
LEMMA HighestIsThere ==
    ASSUME NEW S \in SUBSET Nat, NEW n \in Nat, \A m \in S : m <= n, S # {}
    PROVE  \E h \in S : \A m \in S : m <= h
<1>. DEFINE R == OpToRel(<, Nat)
            T == {n - m : m \in S}
<1>1. T \subseteq Nat /\ T # {}
  <2>1. \A m \in S : n - m \in Nat
    OBVIOUS
  <2>. QED
    BY <2>1
<1>2. PICK t \in T : \A u \in T : ~(<<u, t>> \in R)
  BY <1>1, WFMin, NatLessThanWellFounded, Zenon
<1>3. \A u \in T : ~(u < t)
  BY <1>1, <1>2 DEF OpToRel
<1>4. PICK h \in S : t = n - h
  OBVIOUS
<1>5. ASSUME NEW m \in S PROVE m <= h
  <2>1. n - m \in T
    OBVIOUS
  <2>. QED
    BY <1>3, <1>4, <2>1
<1>. QED
  BY <1>5

LEMMA NextDraftIsNew ==
    ASSUME DOMAIN issue \subseteq Keys
    PROVE  NextDraft \in Nat \ {0} /\ -NextDraft \notin DOMAIN issue
<1>. DEFINE high == CHOOSE n \in DraftNumbers : \A m \in DraftNumbers : m <= n
<1>1. MaxDraft \in Nat /\ DraftNumbers \subseteq Nat \ {0} /\ \A m \in DraftNumbers : m <= MaxDraft
  BY DraftCommitAssumption DEF DraftNumbers, isDraftKey, Keys
<1>2. \A k \in DOMAIN issue : isDraftKey(k) => -k \in DraftNumbers
  BY DEF DraftNumbers
<1>3. CASE DraftNumbers = {}
  BY <1>2, <1>3 DEF NextDraft, isDraftKey
<1>4. CASE DraftNumbers # {}
  <2>1. \E h \in DraftNumbers : \A m \in DraftNumbers : m <= h
    BY <1>1, <1>4, HighestIsThere
  <2>2. high \in DraftNumbers /\ \A m \in DraftNumbers : m <= high
    BY <2>1
  <2>3. NextDraft = 1 + high
    BY <1>4 DEF NextDraft
  <2>. HIDE DEF high
  <2>4. NextDraft \in Nat \ {0} /\ NextDraft \notin DraftNumbers
    BY <1>1, <2>2, <2>3
  <2>5. -NextDraft < 0 /\ -(-NextDraft) = NextDraft
    BY <2>4
  <2>. QED
    BY <1>2, <2>4, <2>5 DEF isDraftKey
<1>. QED
  BY <1>3, <1>4

-----------------------------------------------------------------------------
\* A row as Rekey leaves it: nothing but the keys it names changes.
Repointed(r, from, to) ==
    [id |-> r.id, type |-> r.type,
     key |-> IF r.key = from THEN to ELSE r.key,
     field |-> IF r.type = EntityLink /\ r.field = from THEN to ELSE r.field,
     before |-> r.before,
     after |-> [level |-> r.after.level, to |-> IF r.after.to = from THEN to ELSE r.after.to,
                of |-> r.after.of, meant |-> r.after.meant],
     base |-> r.base]

LEMMA RenamedIs ==
    ASSUME NEW j \in SUBSET Rows, NEW from, NEW to
    PROVE  Renamed(j, from, to) = {Repointed(r, from, to) : r \in j}
<1>. DEFINE up(r) == [r EXCEPT !.key = IF @ = from THEN to ELSE @,
                               !.after.to = IF @ = from THEN to ELSE @,
                               !.field = IF r.type = EntityLink /\ @ = from THEN to ELSE @]
<1>1. ASSUME NEW r \in j PROVE up(r) = Repointed(r, from, to)
  <2>. DEFINE k == IF r.key = from THEN to ELSE r.key
              a == [r.after EXCEPT !.to = IF @ = from THEN to ELSE @]
              f == IF r.type = EntityLink /\ r.field = from THEN to ELSE r.field
  <2>1. IsRow(r) /\ r.after \in Ask
    BY DEF Rows, PendingChange, IsRow
  <2>2. up(r) = [r EXCEPT !.key = k, !.after = a, !.field = f]
    OBVIOUS
  <2>3. a = [level |-> r.after.level, to |-> IF r.after.to = from THEN to ELSE r.after.to,
             of |-> r.after.of, meant |-> r.after.meant]
    BY <2>1 DEF Ask
  <2>. HIDE DEF up, a
  <2>4. up(r) = [id |-> r.id, type |-> r.type, key |-> k, field |-> f,
                 before |-> r.before, after |-> a, base |-> r.base]
    BY <2>1, <2>2 DEF IsRow
  <2>. QED
    BY <2>3, <2>4 DEF Repointed
<1>2. Renamed(j, from, to) = {up(r) : r \in j}
  BY DEF Renamed
<1>. HIDE DEF up
<1>. QED
  BY <1>1, <1>2

\* A key nothing names yet may take a draft's place.
LEMMA RenamedTyped ==
    ASSUME NEW j \in SUBSET Rows, WellKeyed(j), NEW from \in Keys, NEW to \in Keys,
           \A r \in j : r.key # to /\ r.field # to
    PROVE  Renamed(j, from, to) \subseteq Rows /\ WellKeyed(Renamed(j, from, to))
<1>1. Renamed(j, from, to) = {Repointed(r, from, to) : r \in j}
  BY RenamedIs
<1>2. ASSUME NEW r \in j PROVE Repointed(r, from, to) \in Rows
  BY DEF Repointed, Rows, PendingChange, Ask
<1>3. ASSUME NEW r \in j, NEW s \in j,
             \/ Repointed(r, from, to).id = Repointed(s, from, to).id
             \/ /\ Repointed(r, from, to).type = Repointed(s, from, to).type
                /\ Repointed(r, from, to).key = Repointed(s, from, to).key
                /\ Repointed(r, from, to).field = Repointed(s, from, to).field
      PROVE  r = s
  BY <1>3 DEF WellKeyed, Repointed
<1>. QED
  BY <1>1, <1>2, <1>3 DEF WellKeyed
-----------------------------------------------------------------------------
\* The keys the store and the journal know: drafts, and issues of Jira up to
\* the one whose creation the Commit has still to take over.

Last == IF pc = "rekey" THEN Len(jira) - 1 ELSE Len(jira)

Known(r) ==
    /\ r.key # None /\ r.key <= Last /\ r.after.to <= Last /\ r.field <= Last
    /\ r.type = EntityIssueCreate => r.field = None

Fit(r) ==
    /\ r.type = EntityIssueCreate => r.after.level \in Levels
    /\ r.type = EntityIssue => r.key \in DOMAIN jira

KnownKeys ==
    /\ \A k \in DOMAIN issue : k # None /\ k <= Last
    /\ \A r \in journal : Known(r)
    /\ \A r \in journal \cup todo \cup Current : Fit(r)
    /\ pc = "rekey" => Len(jira) > 0
    /\ pc \in {"clear", "refresh"} /\ cur.type # EntityLink => cur.key \in DOMAIN jira
    /\ pc = "refresh" => cur.type # EntityLink

Typed == TypeOK /\ KnownKeys

IssueRows == [level: Levels, to: Keys, draft: Int]
JiraIssues == [draft: Int, level: Levels, parent: Keys]

LEMMA KeyFacts ==
    /\ None \in Keys /\ Nat \subseteq Keys /\ MaxDraft \in Nat
    /\ Keys \subseteq Int /\ Levels \subseteq Nat \ {0}
BY DraftCommitAssumption DEF None, Keys, Levels, Epic, Issue, Subtask

LEMMA InitTyped == Init => Typed
<1>. SUFFICES ASSUME Init PROVE Typed
  OBVIOUS
<1>. DEFINE e(k) == [draft |-> -k, level |-> Seed[k], parent |-> None]
<1>1. Len(Seed) \in Nat /\ DOMAIN Seed = 1..Len(Seed) /\ \A k \in 1..Len(Seed) : Seed[k] \in Levels
  BY DraftCommitAssumption, LenProperties, ElementOfSeq
<1>2. jira = [k \in 1..Len(Seed) |-> e(k)]
  BY DEF Init
<1>3. \A k \in 1..Len(Seed) : e(k) \in JiraIssues
  BY <1>1, KeyFacts DEF JiraIssues
<1>4. jira \in [1..Len(Seed) -> JiraIssues]
  BY <1>2, <1>3
<1>5. jira \in Seq(JiraIssues) /\ Len(jira) = Len(Seed) /\ DOMAIN jira = 1..Len(Seed)
  BY <1>1, <1>4, SeqDef, LenProperties
<1>6. \A k \in DOMAIN jira : Fresh(k) \in IssueRows
  BY <1>4, <1>5 DEF Fresh, JiraIssues, IssueRows
<1>7. issue = [k \in 1..Len(Seed) |-> Fresh(k)]
  BY DEF Init
<1>8. DOMAIN issue = DOMAIN jira /\ \A k \in DOMAIN issue : issue[k] \in IssueRows
  BY <1>5, <1>6, <1>7
<1>9. \A k \in DOMAIN issue : k \in Nat /\ k \in Keys /\ k # None /\ k <= Len(jira)
  BY <1>1, <1>5, <1>8, KeyFacts DEF None
<1>. QED
  BY <1>5, <1>8, <1>9 DEF Init, Typed, TypeOK, KnownKeys, Last, Current, WellKeyed, JiraIssues, IssueRows, Phases

\* The rows of the journal after a write, and the place written.
LEMMA WrittenTyped ==
    ASSUME TypeOK, Tables,
           NEW type \in {EntityIssueCreate, EntityIssue, EntityLink}, NEW key \in Keys, NEW field \in Keys,
           NEW current \in Ask, NEW value \in Ask,
           NEW n, n \in {Put(journal, nextId, type, key, field, current, value, 0),
                         Upsert(journal, nextId, type, key, field, current, value, 0)}
    PROVE  /\ n \subseteq Rows /\ WellKeyed(n)
           /\ \A p \in n : p \in journal \/ (p.type = type /\ p.key = key /\ p.field = field /\ p.after = value)
<1>. DEFINE Types == {EntityIssueCreate, EntityIssue, EntityLink}
<1>1. journal \in SUBSET PendingChange(Types, Keys, Keys, Ask) /\ WellKeyed(journal)
  BY DEF TypeOK, Rows
<1>2. nextId \in Nat /\ 0 \in Nat /\ \A r \in journal : r.id < nextId
  BY DEF Tables, Numbered
<1>3. CASE n = Put(journal, nextId, type, key, field, current, value, 0)
  <2>1. n \subseteq Rows
    BY <1>1, <1>2, <1>3, PutType DEF Rows
  <2>2. WellKeyed(n)
    BY <1>1, <1>2, <1>3, PutWellKeyed
  <2>3. \A p \in n : p \in journal \/ (p.type = type /\ p.key = key /\ p.field = field /\ p.after = value)
    BY <1>1, <1>2, <1>3, PutRows
  <2>. QED
    BY <2>1, <2>2, <2>3
<1>4. CASE n = Upsert(journal, nextId, type, key, field, current, value, 0)
  <2>1. n \subseteq Rows
    BY <1>1, <1>2, <1>4, UpsertType DEF Rows
  <2>2. WellKeyed(n)
    BY <1>1, <1>2, <1>4, UpsertWellKeyed
  <2>3. ASSUME NEW p \in n
        PROVE  p \in journal \/ (p.type = type /\ p.key = key /\ p.field = field /\ p.after = value)
    <3>. DEFINE old == RowsAt(journal, type, key, field)
    <3>1. \A q \in old : /\ q.type = type /\ q.key = key /\ q.field = field
                         /\ [q EXCEPT !.after = value].type = type /\ [q EXCEPT !.after = value].key = key
                         /\ [q EXCEPT !.after = value].field = field /\ [q EXCEPT !.after = value].after = value
      BY <1>1 DEF RowsAt, PendingChange
    <3>2. \/ p \in journal
          \/ \E q \in old : p = [q EXCEPT !.after = value]
          \/ p = [id |-> nextId, type |-> type, key |-> key, field |-> field,
                  before |-> current, after |-> value, base |-> 0]
      BY <1>4, Zenon DEF Upsert, Inserted, Overwritten
    <3>3. CASE \E q \in old : p = [q EXCEPT !.after = value]
      BY <3>1, <3>3
    <3>4. CASE p = [id |-> nextId, type |-> type, key |-> key, field |-> field,
                    before |-> current, after |-> value, base |-> 0]
      BY <3>4
    <3>. QED
      BY <3>2, <3>3, <3>4
  <2>. QED
    BY <2>1, <2>2, <2>3
<1>. QED
  BY <1>3, <1>4

\* What an overwritten row keeps.
LEMMA OverwrittenTyped ==
    ASSUME NEW j \in SUBSET Rows, WellKeyed(j), NEW S \in SUBSET j, NEW value \in Ask
    PROVE  /\ Overwritten(j, S, value) \subseteq Rows /\ WellKeyed(Overwritten(j, S, value))
           /\ \A p \in Overwritten(j, S, value) :
                 \/ p \in j \ S
                 \/ \E q \in S : p.id = q.id /\ p.type = q.type /\ p.key = q.key /\ p.field = q.field /\ p.after = value
           /\ \A q \in j : \E p \in Overwritten(j, S, value) :
                 p.id = q.id /\ p.type = q.type /\ p.key = q.key /\ p.field = q.field
<1>. DEFINE up(r) == [r EXCEPT !.after = value]
            n == Overwritten(j, S, value)
<1>1. ASSUME NEW r \in j
      PROVE  /\ up(r) \in Rows /\ up(r).id = r.id /\ up(r).type = r.type /\ up(r).key = r.key
             /\ up(r).field = r.field /\ up(r).after = value
  BY DEF Rows, PendingChange
<1>2. n = (j \ S) \cup {up(r) : r \in S}
  BY DEF Overwritten
<1>. HIDE DEF n, up
<1>3. n \subseteq Rows
  BY <1>1, <1>2
<1>4. \A p \in n : \E q \in j : /\ p.id = q.id /\ p.type = q.type /\ p.key = q.key /\ p.field = q.field
                               /\ p = IF q \in S THEN up(q) ELSE q
  BY <1>1, <1>2
<1>5. WellKeyed(n)
  BY <1>4 DEF WellKeyed
<1>6. \A p \in n : \/ p \in j \ S
                   \/ \E q \in S : p.id = q.id /\ p.type = q.type /\ p.key = q.key /\ p.field = q.field /\ p.after = value
  BY <1>1, <1>2
<1>7. \A q \in j : (IF q \in S THEN up(q) ELSE q) \in n
  BY <1>2
<1>8. \A q \in j : \E p \in n : p.id = q.id /\ p.type = q.type /\ p.key = q.key /\ p.field = q.field
  BY <1>1, <1>7
<1>. QED
  BY <1>3, <1>5, <1>6, <1>8 DEF n
-----------------------------------------------------------------------------
\* A binding of the user's leaves Jira and the engine; what it writes is known.
LEMMA UserFrame ==
    ASSUME Typed, UNCHANGED <<remote, engine>>, met' \subseteq met \cup {"overlap", "discard"},
           nextId' \in Nat \ {0},
           \A k \in DOMAIN issue' : k \in Keys /\ k # None /\ k <= Last /\ issue'[k] \in IssueRows,
           journal' \subseteq Rows, WellKeyed(journal'), \A r \in journal' : Known(r) /\ Fit(r)
    PROVE  Typed'
<1>1. UNCHANGED <<jira, links, pc, phase, todo, cur, blocked, failed>>
  BY DEF remote, engine
<1>2. Last' = Last /\ Current' = Current /\ \A r : Known(r)' = Known(r) /\ Fit(r)' = Fit(r)
  BY <1>1 DEF Last, Current, Known, Fit
<1>3. met' \subseteq Disturbances
  BY DEF Typed, TypeOK, Disturbances
<1>4. TypeOK'
  BY <1>1, <1>3 DEF Typed, TypeOK, WellKeyed, IssueRows
<1>5. KnownKeys'
  BY <1>1, <1>2 DEF Typed, KnownKeys
<1>. QED
  BY <1>4, <1>5 DEF Typed

LEMMA CreateDraftTyped ==
    ASSUME Typed, Tables, NEW level \in Levels, NEW parent \in DOMAIN issue \cup {None}, CreateDraft(level, parent)
    PROVE  Typed'
<1>. DEFINE key == -NextDraft
            asked == Asked(level, parent, nextId)
            row == [level |-> level, to |-> parent, draft |-> nextId]
<1>1. /\ UNCHANGED <<remote, engine>> /\ met' \subseteq met \cup {"overlap", "discard"}
      /\ NextDraft <= MaxDraft /\ nextId' = nextId + 1
      /\ issue' = [k \in DOMAIN issue \cup {key} |-> IF k = key THEN row ELSE issue[k]]
      /\ journal' = Put(journal, nextId, EntityIssueCreate, key, None, Nothing, asked, 0)
  BY DEF CreateDraft, Unguarded
<1>2. NextDraft \in Nat \ {0} /\ nextId \in Nat \ {0} /\ MaxDraft \in Nat
  BY NextDraftIsNew, KeyFacts DEF Typed, TypeOK
<1>3. key \in Keys /\ key < 0
  BY <1>1, <1>2, KeyFacts DEF Keys
<1>4. /\ Nothing \in Ask /\ asked \in Ask /\ asked.level = level /\ asked.to = parent
      /\ parent \in Keys /\ row \in IssueRows
  BY <1>2, KeyFacts DEF Typed, TypeOK, Nothing, Asked, Ask, Who, None, IssueRows
<1>5. Last \in Nat /\ parent <= Last
  BY LenProperties DEF Typed, KnownKeys, TypeOK, Last, None
<1>. HIDE DEF key, asked, row
<1>6. \A k \in DOMAIN issue' : k \in Keys /\ k # None /\ k <= Last /\ issue'[k] \in IssueRows
  BY <1>1, <1>3, <1>4, <1>5 DEF Typed, TypeOK, KnownKeys, None, IssueRows, Keys
<1>7. /\ journal' \subseteq Rows /\ WellKeyed(journal')
      /\ \A p \in journal' : \/ p \in journal
                             \/ p.type = EntityIssueCreate /\ p.key = key /\ p.field = None /\ p.after = asked
  BY <1>1, <1>3, <1>4, WrittenTyped, KeyFacts DEF Typed
<1>8. \A r \in journal' : Known(r) /\ Fit(r)
  BY <1>3, <1>4, <1>5, <1>7 DEF Typed, KnownKeys, Known, Fit, None, EntityIssueCreate, EntityIssue, Keys
<1>. QED
  BY <1>1, <1>2, <1>6, <1>7, <1>8, UserFrame

LEMMA EditDraftParentTyped ==
    ASSUME Typed, NEW k \in DOMAIN issue, NEW parent \in DOMAIN issue \cup {None}, EditDraftParent(k, parent)
    PROVE  Typed'
<1>. DEFINE asked == Asked(issue[k].level, parent, Who(k))
<1>1. /\ UNCHANGED <<remote, engine>> /\ met' \subseteq met \cup {"overlap", "discard"}
      /\ nextId' = nextId /\ issue' = [issue EXCEPT ![k].to = parent]
      /\ journal' = Overwritten(journal, CreateRows(k), asked)
  BY DEF EditDraftParent, Unguarded
<1>2. issue[k] \in IssueRows /\ parent \in Keys
  BY KeyFacts DEF Typed, TypeOK, IssueRows
<1>3. asked \in Ask /\ asked.level \in Levels /\ asked.to = parent
  BY <1>2, KeyFacts DEF Typed, TypeOK, Asked, Ask, Who, None, IssueRows
<1>4. Last \in Nat /\ parent <= Last
  BY LenProperties DEF Typed, KnownKeys, TypeOK, Last, None
<1>5. CreateRows(k) \in SUBSET journal
  BY DEF CreateRows, RowsAt
<1>. HIDE DEF asked
<1>6. \A d \in DOMAIN issue' : d \in Keys /\ d # None /\ d <= Last /\ issue'[d] \in IssueRows
  BY <1>1, <1>2 DEF Typed, TypeOK, KnownKeys, IssueRows
<1>7. /\ journal' \subseteq Rows /\ WellKeyed(journal')
      /\ \A p \in journal' :
            \/ p \in journal
            \/ \E q \in journal : p.type = q.type /\ p.key = q.key /\ p.field = q.field /\ p.after = asked
  <2>1. journal \in SUBSET Rows /\ WellKeyed(journal)
    BY DEF Typed, TypeOK
  <2>. QED
    BY <1>1, <1>3, <1>5, <2>1, OverwrittenTyped
<1>8. \A r \in journal' : Known(r) /\ Fit(r)
  BY <1>3, <1>4, <1>7 DEF Typed, KnownKeys, Known, Fit
<1>. QED
  BY <1>1, <1>6, <1>7, <1>8, UserFrame DEF Typed, TypeOK

LEMMA EditParentTyped ==
    ASSUME Typed, Tables, NEW k \in DOMAIN issue, NEW parent \in DOMAIN issue \cup {None}, EditParent(k, parent)
    PROVE  Typed'
<1>. DEFINE current == Asked(None, issue[k].to, Who(k))
            asked == Asked(None, parent, Who(k))
<1>1. /\ UNCHANGED <<remote, engine>> /\ met' \subseteq met \cup {"overlap", "discard"}
      /\ nextId' \in {nextId, nextId + 1} /\ issue' = [issue EXCEPT ![k].to = parent]
      /\ journal' \in {journal \ ParentRows(k), Upsert(journal, nextId, EntityIssue, k, None, current, asked, 0)}
      /\ ~isDraftKey(k)
  BY DEF EditParent, Unguarded
<1>2. issue[k] \in IssueRows /\ parent \in Keys /\ k \in Keys
  BY KeyFacts DEF Typed, TypeOK, IssueRows
<1>3. asked \in Ask /\ asked.to = parent /\ current \in Ask
  BY <1>2, KeyFacts DEF Typed, TypeOK, Asked, Ask, Who, None, IssueRows
<1>4. Last \in Nat /\ parent <= Last /\ k <= Last /\ k # None
  BY LenProperties DEF Typed, KnownKeys, TypeOK, Last, None
<1>5. k \in DOMAIN jira
  <2>1. DOMAIN jira = 1..Len(jira) /\ Len(jira) \in Nat
    BY LenProperties DEF Typed, TypeOK
  <2>. QED
    BY <1>1, <1>2, <1>4, <2>1 DEF Last, isDraftKey, None, Keys
<1>. HIDE DEF asked, current
<1>6. \A d \in DOMAIN issue' : d \in Keys /\ d # None /\ d <= Last /\ issue'[d] \in IssueRows
  BY <1>1, <1>2 DEF Typed, TypeOK, KnownKeys, IssueRows
<1>7. /\ journal' \subseteq Rows /\ WellKeyed(journal')
      /\ \A p \in journal' : \/ p \in journal
                             \/ p.type = EntityIssue /\ p.key = k /\ p.field = None /\ p.after = asked
  <2>1. CASE journal' = journal \ ParentRows(k)
    BY <2>1 DEF Typed, TypeOK, WellKeyed
  <2>2. CASE journal' = Upsert(journal, nextId, EntityIssue, k, None, current, asked, 0)
    <3>1. EntityIssue \in {EntityIssueCreate, EntityIssue, EntityLink}
      OBVIOUS
    <3>. QED
      BY <1>2, <1>3, <2>2, <3>1, WrittenTyped, KeyFacts DEF Typed
  <2>. QED
    BY <1>1, <2>1, <2>2
<1>8. \A r \in journal' : Known(r) /\ Fit(r)
  BY <1>3, <1>4, <1>5, <1>7 DEF Typed, KnownKeys, Known, Fit, None, EntityIssueCreate, EntityIssue
<1>9. nextId' \in Nat \ {0}
  BY <1>1 DEF Typed, TypeOK
<1>. QED
  BY <1>1, <1>6, <1>7, <1>8, <1>9, UserFrame

LEMMA AddLinkTyped ==
    ASSUME Typed, Tables, NEW k \in DOMAIN issue, NEW to \in DOMAIN issue, AddLink(k, to)
    PROVE  Typed'
<1>. DEFINE asked == Asked(None, to, Who(k))
<1>1. /\ UNCHANGED <<remote, engine, issue>> /\ met' \subseteq met \cup {"overlap", "discard"}
      /\ nextId' = nextId + 1
      /\ journal' = Put(journal, nextId, EntityLink, k, to, Nothing, asked, 0)
  BY DEF AddLink, Unguarded
<1>2. k \in Keys /\ to \in Keys /\ to <= Last /\ k <= Last /\ k # None
  BY DEF Typed, TypeOK, KnownKeys
<1>3. asked \in Ask /\ asked.to = to /\ Nothing \in Ask
  BY <1>2, KeyFacts DEF Typed, TypeOK, Asked, Ask, Who, None, Nothing
<1>. HIDE DEF asked
<1>7. /\ journal' \subseteq Rows /\ WellKeyed(journal')
      /\ \A p \in journal' : \/ p \in journal
                             \/ p.type = EntityLink /\ p.key = k /\ p.field = to /\ p.after = asked
  <2>1. EntityLink \in {EntityIssueCreate, EntityIssue, EntityLink}
    OBVIOUS
  <2>. QED
    BY <1>1, <1>2, <1>3, <2>1, WrittenTyped DEF Typed
<1>8. \A r \in journal' : Known(r) /\ Fit(r)
  BY <1>2, <1>3, <1>7 DEF Typed, KnownKeys, Known, Fit, EntityIssueCreate, EntityIssue, EntityLink
<1>9. nextId' \in Nat \ {0}
  BY <1>1 DEF Typed, TypeOK
<1>10. \A d \in DOMAIN issue' : d \in Keys /\ d # None /\ d <= Last /\ issue'[d] \in IssueRows
  BY <1>1 DEF Typed, TypeOK, KnownKeys, IssueRows
<1>. QED
  BY <1>1, <1>7, <1>8, <1>9, <1>10, UserFrame

LEMMA DiscardTyped ==
    ASSUME Typed, NEW r \in journal, DiscardPendingChange(r)
    PROVE  Typed'
<1>1. /\ UNCHANGED <<remote, engine>> /\ met' \subseteq met \cup {"overlap", "discard"} /\ nextId' = nextId
      /\ journal' \subseteq journal
  BY DEF DiscardPendingChange, Delete
<1>2. r.before.to \in Keys
  BY DEF Typed, TypeOK, Rows, PendingChange, Ask
<1>3. DOMAIN issue' \subseteq DOMAIN issue /\ \A k \in DOMAIN issue' : issue'[k] \in IssueRows
  <2>1. CASE issue' = [k \in DOMAIN issue \ {r.key} |-> issue[k]]
    BY <2>1 DEF Typed, TypeOK, IssueRows
  <2>2. CASE issue' = [k \in DOMAIN issue |->
                          IF k = r.key THEN [issue[k] EXCEPT !.to = r.before.to] ELSE issue[k]]
    BY <1>2, <2>2 DEF Typed, TypeOK, IssueRows
  <2>3. CASE UNCHANGED issue
    BY <2>3 DEF Typed, TypeOK, IssueRows
  <2>. QED
    BY <2>1, <2>2, <2>3 DEF DiscardPendingChange
<1>4. journal' \subseteq Rows /\ WellKeyed(journal')
  BY <1>1 DEF Typed, TypeOK, WellKeyed
<1>5. \A s \in journal' : Known(s) /\ Fit(s)
  BY <1>1 DEF Typed, KnownKeys
<1>6. \A d \in DOMAIN issue' : d \in Keys /\ d # None /\ d <= Last /\ issue'[d] \in IssueRows
  BY <1>3 DEF Typed, TypeOK, KnownKeys
<1>7. nextId' \in Nat \ {0}
  BY <1>1 DEF Typed, TypeOK
<1>. QED
  BY <1>1, <1>4, <1>5, <1>6, <1>7, UserFrame

LEMMA UserTyped ==
    ASSUME Typed, Tables, UserStep
    PROVE  Typed'
BY CreateDraftTyped, EditDraftParentTyped, EditParentTyped, AddLinkTyped, DiscardTyped DEF UserStep
-----------------------------------------------------------------------------
JiraFacts == Len(jira) \in Nat /\ DOMAIN jira = 1..Len(jira)

LEMMA TypedJira == Typed => JiraFacts
BY LenProperties DEF Typed, TypeOK, JiraFacts

\* A step of the engine that takes its rows from the tables and writes to
\* none of them but, perhaps, deletes from the journal.
LEMMA EngineFrame ==
    ASSUME Typed, UNCHANGED <<remote, issue, nextId>>, journal' \subseteq journal,
           todo' \subseteq todo \cup journal, Current' \subseteq Current \cup todo,
           phase' \in Phases \cup {0}, blocked' \subseteq Keys, failed' \subseteq Nat,
           met' \subseteq Disturbances,
           \/ pc' \in {"idle", "next"} /\ cur' = None
           \/ pc' \in {"send", "forget"}
           \/ pc' = "clear" /\ cur'.type = EntityLink
           \/ pc' \in {"clear", "refresh"} /\ cur'.type # EntityLink /\ cur'.key \in DOMAIN jira
    PROVE  Typed'
<1>1. UNCHANGED <<jira, links>>
  BY DEF remote
<1>2. JiraFacts /\ Last' = Len(jira) /\ Last <= Last' /\ Last \in Int
  <2>1. JiraFacts /\ pc' # "rekey" /\ Len(jira') = Len(jira)
    BY <1>1, TypedJira
  <2>2. Last' = Len(jira)
    BY <2>1 DEF Last
  <2>. QED
    BY <2>1, <2>2 DEF Last, JiraFacts
<1>3. Current \subseteq Rows
  BY DEF Typed, TypeOK, Current
<1>4. TypeOK'
  BY <1>1, <1>3 DEF Typed, TypeOK, WellKeyed, Current
<1>5. \A k \in DOMAIN issue : k # None /\ k <= Last /\ k \in Int
  BY KeyFacts DEF Typed, TypeOK, KnownKeys
<1>6. \A r \in journal : Known(r) /\ r.key \in Int /\ r.after.to \in Int /\ r.field \in Int
  BY KeyFacts DEF Typed, TypeOK, KnownKeys, Rows, PendingChange, Ask
<1>7. \A r \in journal' : Known(r)'
  BY <1>2, <1>6 DEF Known, JiraFacts
<1>8. \A r \in journal \cup todo \cup Current : Fit(r)'
  BY <1>1 DEF Typed, KnownKeys, Fit
<1>9. \A r \in journal' \cup todo' \cup Current' : Fit(r)'
  BY <1>8
<1>10. KnownKeys'
  BY <1>1, <1>2, <1>5, <1>7, <1>9 DEF KnownKeys, JiraFacts
<1>. QED
  BY <1>4, <1>10 DEF Typed

\* What a write makes of Jira.
LEMMA LandTyped ==
    ASSUME Typed, pc = "send", Land
    PROVE  /\ jira' \in Seq(JiraIssues) /\ links' \subseteq [from: Keys, to: Keys]
           /\ Len(jira) \in Nat /\ DOMAIN jira = 1..Len(jira) /\ DOMAIN jira' = 1..Len(jira')
           /\ IF cur.type = EntityIssueCreate
              THEN /\ jira' = Append(jira, [draft |-> cur.id, level |-> cur.after.level, parent |-> cur.after.to])
                   /\ Len(jira') = Len(jira) + 1
                   /\ \A k \in DOMAIN jira : jira'[k] = jira[k]
                   /\ jira'[Len(jira')] = [draft |-> cur.id, level |-> cur.after.level, parent |-> cur.after.to]
              ELSE /\ Len(jira') = Len(jira)
                   /\ \A k \in DOMAIN jira : jira'[k].draft = jira[k].draft /\ jira'[k].level = jira[k].level
<1>. DEFINE new == [draft |-> cur.id, level |-> cur.after.level, parent |-> cur.after.to]
            n == Len(jira)
<1>1. cur \in Rows /\ Fit(cur) /\ jira \in Seq(JiraIssues) /\ links \subseteq [from: Keys, to: Keys]
  BY DEF Typed, TypeOK, KnownKeys, Current, JiraIssues
<1>2. n \in Nat /\ DOMAIN jira = 1..n
  BY <1>1, LenProperties
<1>3. cur.key \in Keys /\ cur.after.to \in Keys /\ cur.id \in Nat
  BY <1>1 DEF Rows, PendingChange, Ask
<1>4. CASE cur.type = EntityIssueCreate /\ jira' = Append(jira, new) /\ UNCHANGED links
  <2>1. new \in JiraIssues
    BY <1>1, <1>3, <1>4 DEF JiraIssues, Fit
  <2>. HIDE DEF new
  <2>2. /\ jira' \in Seq(JiraIssues) /\ Len(jira') = n + 1
        /\ \A i \in 1..n : jira'[i] = jira[i]
        /\ jira'[n + 1] = new
    BY <1>1, <1>4, <2>1, AppendProperties
  <2>3. DOMAIN jira' = 1..Len(jira')
    BY <2>2, LenProperties
  <2>. QED
    BY <1>1, <1>2, <1>4, <2>2, <2>3 DEF new
<1>5. CASE cur.type # EntityIssueCreate /\ jira' = [jira EXCEPT ![cur.key].parent = cur.after.to] /\ UNCHANGED links
  <2>1. jira \in [1..n -> JiraIssues]
    BY <1>1, <1>2, ElementOfSeq, RangeSeq, SeqDef
  <2>2. jira' \in [1..n -> JiraIssues]
    BY <1>3, <1>5, <2>1 DEF JiraIssues
  <2>3. jira' \in Seq(JiraIssues) /\ Len(jira') = n /\ DOMAIN jira' = 1..n
    BY <1>2, <2>2, SeqDef, LenProperties
  <2>4. \A k \in DOMAIN jira : jira'[k].draft = jira[k].draft /\ jira'[k].level = jira[k].level
    BY <1>2, <1>5, <2>1 DEF JiraIssues
  <2>. QED
    BY <1>1, <1>2, <1>5, <2>3, <2>4
<1>6. CASE cur.type # EntityIssueCreate /\ links' = links \cup {[from |-> cur.key, to |-> cur.after.to]} /\ UNCHANGED jira
  BY <1>1, <1>2, <1>3, <1>6
<1>. QED
  BY <1>4, <1>5, <1>6 DEF Land, EntityIssueCreate, EntityIssue, EntityLink

LEMMA SendTyped ==
    ASSUME Typed, Send \/ (Refused /\ Land)
    PROVE  Typed'
<1>1. /\ pc = "send" /\ Land /\ UNCHANGED <<issue, journal, nextId, phase, todo>>
      /\ \/ pc' = "next" /\ cur' = None
         \/ cur' = cur /\ pc' = IF cur.type = EntityIssueCreate THEN "rekey" ELSE "clear"
      /\ blocked' \subseteq blocked \cup {cur.key} /\ failed' \subseteq failed \cup {cur.id}
      /\ met' \subseteq met \cup {"lost"}
  BY DEF Send, Refused, store, Done
<1>2. /\ jira' \in Seq(JiraIssues) /\ links' \subseteq [from: Keys, to: Keys]
      /\ Len(jira) \in Nat /\ DOMAIN jira = 1..Len(jira) /\ DOMAIN jira' = 1..Len(jira')
      /\ IF cur.type = EntityIssueCreate THEN Len(jira') = Len(jira) + 1 ELSE Len(jira') = Len(jira)
  BY <1>1, LandTyped
<1>3. cur \in Rows /\ cur \in Current /\ Fit(cur) /\ cur.id \in Nat /\ cur.key \in Keys
  BY <1>1 DEF Typed, TypeOK, KnownKeys, Current, Rows, PendingChange
<1>4. TypeOK'
  BY <1>1, <1>2, <1>3 DEF Typed, TypeOK, WellKeyed, JiraIssues, Disturbances
<1>. DEFINE n == Len(jira)
            m == Len(jira')
<1>15. /\ n \in Nat /\ DOMAIN jira = 1..n /\ DOMAIN jira' = 1..m
       /\ m = (IF cur.type = EntityIssueCreate THEN n + 1 ELSE n)
  BY <1>2
<1>16. Last = n /\ Last' = IF pc' = "rekey" THEN m - 1 ELSE m
  BY <1>1 DEF Last
<1>. HIDE DEF n, m
<1>5. Last \in Int /\ Last <= Last' /\ Last' \in Int /\ DOMAIN jira \subseteq DOMAIN jira'
  BY <1>1, <1>15, <1>16
<1>6. \A k \in DOMAIN issue : k # None /\ k <= Last /\ k \in Int
  BY KeyFacts DEF Typed, TypeOK, KnownKeys
<1>7. \A r \in journal : Known(r) /\ r.key \in Int /\ r.after.to \in Int /\ r.field \in Int
  BY KeyFacts DEF Typed, TypeOK, KnownKeys, Rows, PendingChange, Ask
<1>8. \A r \in journal' : Known(r)'
  <2>1. \A r \in journal : r.key <= Last' /\ r.after.to <= Last' /\ r.field <= Last'
    BY <1>5, <1>7 DEF Known
  <2>. QED
    BY <1>1, <1>7, <2>1 DEF Known
<1>17. \A k \in DOMAIN issue' : k # None /\ k <= Last'
  BY <1>1, <1>5, <1>6
<1>9. Current' \subseteq Current
  BY <1>1 DEF Current
<1>10. \A r \in journal' \cup todo' \cup Current' : Fit(r)'
  BY <1>1, <1>5, <1>9 DEF Typed, KnownKeys, Fit
<1>11. pc' = "clear" /\ cur'.type # EntityLink => cur'.key \in DOMAIN jira'
  <2>1. cur.type \in {EntityIssueCreate, EntityIssue, EntityLink}
    BY <1>3 DEF Rows, PendingChange
  <2>. QED
    BY <1>1, <1>3, <1>5, <2>1 DEF Fit
<1>12. pc' = "rekey" => m > 0
  BY <1>1, <1>15
<1>13. KnownKeys'
  BY <1>1, <1>8, <1>10, <1>11, <1>12, <1>17 DEF KnownKeys, m
<1>. QED
  BY <1>4, <1>13 DEF Typed

\* The key Jira gave is nobody's yet.
LEMMA RealIsNew ==
    ASSUME Typed, pc = "rekey"
    PROVE  /\ Len(jira) \in Keys \ {None} /\ Len(jira) \in DOMAIN jira /\ ~isDraftKey(Len(jira))
           /\ Len(jira) \notin DOMAIN issue
           /\ \A r \in journal : r.key # Len(jira) /\ r.field # Len(jira) /\ r.after.to # Len(jira)
           /\ Last = Len(jira) - 1 /\ Last \in Nat
<1>1. JiraFacts /\ Len(jira) > 0 /\ Last = Len(jira) - 1
  BY TypedJira DEF Typed, KnownKeys, Last
<1>2. Len(jira) \in Nat \ {0} /\ Last < Len(jira) /\ Last \in Nat
  BY <1>1 DEF JiraFacts
<1>3. \A k \in DOMAIN issue : k \in Int /\ k <= Last
  BY KeyFacts DEF Typed, TypeOK, KnownKeys
<1>4. \A r \in journal : /\ r.key \in Int /\ r.after.to \in Int /\ r.field \in Int
                        /\ r.key <= Last /\ r.after.to <= Last /\ r.field <= Last
  BY KeyFacts DEF Typed, TypeOK, KnownKeys, Known, Rows, PendingChange, Ask
<1>5. ~(Len(jira) <= Last)
  BY <1>2
<1>. QED
  BY <1>1, <1>2, <1>3, <1>4, <1>5, KeyFacts DEF JiraFacts, isDraftKey, None

\* What Rekey makes of the cache: the draft's row, if it is there, under the
\* real key, and every parent that named the draft naming the issue.
LEMMA RekeyedIssues ==
    ASSUME Typed, Rekey
    PROVE  /\ DOMAIN issue' = {IF d = cur.key THEN Len(jira) ELSE d : d \in DOMAIN issue}
           /\ \A d \in DOMAIN issue :
                 issue'[IF d = cur.key THEN Len(jira) ELSE d] =
                    [issue[d] EXCEPT !.to = IF @ = cur.key THEN Len(jira) ELSE @]
<1>. DEFINE real == Len(jira)
            Moved(k) == IF k = cur.key THEN real ELSE k
            old(k) == IF k = real /\ cur.key \in DOMAIN issue THEN cur.key ELSE k
<1>1. issue' = [k \in {Moved(d) : d \in DOMAIN issue} |-> [issue[old(k)] EXCEPT !.to = Moved(@)]]
  BY DEF Rekey
<1>2. real \notin DOMAIN issue
  BY RealIsNew DEF Rekey
<1>. HIDE DEF real
<1>3. \A d \in DOMAIN issue : old(Moved(d)) = d
  BY <1>2
<1>. HIDE DEF old
<1>4. DOMAIN issue' = {Moved(d) : d \in DOMAIN issue}
  BY <1>1
<1>5. ASSUME NEW d \in DOMAIN issue PROVE issue'[Moved(d)] = [issue[d] EXCEPT !.to = Moved(@)]
  <2>1. Moved(d) \in {Moved(e) : e \in DOMAIN issue}
    OBVIOUS
  <2>2. issue'[Moved(d)] = [issue[old(Moved(d))] EXCEPT !.to = Moved(@)]
    BY <1>1, <2>1
  <2>. QED
    BY <1>3, <2>2
<1>. QED
  BY <1>4, <1>5 DEF real

LEMMA RekeyTyped ==
    ASSUME Typed, Rekey
    PROVE  Typed'
<1>. DEFINE real == Len(jira)
            moved(k) == IF k = cur.key THEN real ELSE k
<1>1. /\ pc = "rekey" /\ pc' = "clear" /\ UNCHANGED <<jira, links, nextId, phase, todo, blocked, failed, met>>
      /\ journal' = Renamed(journal, cur.key, real)
      /\ cur' = [cur EXCEPT !.key = real]
  BY DEF Rekey, remote
<1>2. cur \in Rows /\ cur \in Current /\ cur.key \in Keys
  BY <1>1 DEF Typed, TypeOK, Current, Rows, PendingChange
<1>3. /\ real \in Keys /\ real # None /\ real \in DOMAIN jira /\ real \in Nat
      /\ \A r \in journal : r.key # real /\ r.field # real
      /\ Last = real - 1 /\ Last' = real
  BY <1>1, RealIsNew, TypedJira DEF Last, JiraFacts
<1>4. /\ DOMAIN issue' = {moved(d) : d \in DOMAIN issue}
      /\ \A d \in DOMAIN issue : issue'[moved(d)] = [issue[d] EXCEPT !.to = IF @ = cur.key THEN real ELSE @]
  BY RekeyedIssues
<1>. HIDE DEF real
<1>5. \A d \in DOMAIN issue : /\ d \in Keys /\ d \in Int /\ d # None /\ d <= Last /\ issue[d] \in IssueRows
  BY KeyFacts DEF Typed, TypeOK, KnownKeys, IssueRows
<1>6. ASSUME NEW d \in DOMAIN issue
      PROVE  issue'[moved(d)] \in IssueRows /\ moved(d) \in Keys /\ moved(d) # None /\ moved(d) <= Last'
  <2>1. issue'[moved(d)] \in IssueRows
    BY <1>3, <1>4, <1>5 DEF IssueRows
  <2>. QED
    BY <1>3, <1>5, <2>1
<1>7. journal' \subseteq Rows /\ WellKeyed(journal')
  BY <1>1, <1>2, <1>3, RenamedTyped DEF Typed, TypeOK
<1>8. cur' \in Rows /\ cur'.key = real /\ cur'.type = cur.type /\ cur'.after = cur.after
  BY <1>1, <1>2, <1>3 DEF Rows, PendingChange
<1>9. TypeOK'
  BY <1>1, <1>4, <1>6, <1>7, <1>8 DEF Typed, TypeOK, IssueRows
<1>10. journal' = {Repointed(r, cur.key, real) : r \in journal}
  <2>1. journal \in SUBSET Rows
    BY DEF Typed, TypeOK
  <2>. QED
    BY <1>1, <2>1, RenamedIs
<1>11. ASSUME NEW r \in journal, NEW p, p = Repointed(r, cur.key, real)
      PROVE  Known(p)' /\ Fit(p)'
  <2>1. /\ Known(r) /\ Fit(r) /\ r.key \in Int /\ r.after.to \in Int /\ r.field \in Int
    BY KeyFacts DEF Typed, TypeOK, KnownKeys, Rows, PendingChange, Ask
  <2>2. Known(p)'
    BY <1>3, <1>11, <2>1 DEF Known, Repointed, EntityIssueCreate, EntityLink
  <2>3. Fit(p)'
    BY <1>1, <1>3, <1>11, <2>1 DEF Fit, Repointed
  <2>. QED
    BY <2>2, <2>3
<1>12. \A r \in journal' : Known(r)' /\ Fit(r)'
  BY <1>10, <1>11
<1>13. \A r \in todo' \cup Current' : Fit(r)'
  BY <1>1, <1>2, <1>3, <1>8 DEF Typed, KnownKeys, Fit, Current
<1>14. KnownKeys'
  BY <1>1, <1>3, <1>4, <1>6, <1>8, <1>12, <1>13 DEF KnownKeys
<1>. QED
  BY <1>9, <1>14 DEF Typed
-----------------------------------------------------------------------------
\* The row of an issue as Jira answers it, with the pending parent on top.
LEMMA ReappliedRow ==
    ASSUME Typed, NEW k \in DOMAIN jira
    PROVE  LET row == reapplyPending(Fresh(k), k)
           IN  row \in IssueRows /\ row.draft = jira[k].draft /\ row.level = jira[k].level
<1>. DEFINE to == AfterVal(journal, EntityIssue, k, None, Fresh(k)).to
<1>1. Fresh(k) \in IssueRows /\ Fresh(k).draft = jira[k].draft /\ Fresh(k).level = jira[k].level
  <2>1. jira[k] \in JiraIssues
    <3>1. jira \in Seq(JiraIssues)
      BY DEF Typed, TypeOK, JiraIssues
    <3>. QED
      BY <3>1, SeqDef
  <2>. QED
    BY <2>1 DEF Fresh, JiraIssues, IssueRows
<1>2. to \in Keys
  <2>1. CASE RowsAt(journal, EntityIssue, k, None) = {}
    BY <1>1, <2>1 DEF AfterVal, IssueRows
  <2>2. CASE RowsAt(journal, EntityIssue, k, None) # {}
    <3>1. RowAt(journal, EntityIssue, k, None) \in Rows
      BY <2>2, RowAtIsThere DEF Typed, TypeOK
    <3>. QED
      BY <2>2, <3>1 DEF AfterVal, Rows, PendingChange, Ask
  <2>. QED
    BY <2>1, <2>2
<1>3. reapplyPending(Fresh(k), k) = [Fresh(k) EXCEPT !.to = to]
  BY DEF reapplyPending
<1>. HIDE DEF to
<1>. QED
  BY <1>1, <1>2, <1>3 DEF IssueRows

\* FullSync and refresh: the rows of some issues of Jira come anew.
LEMMA FetchTyped ==
    ASSUME Typed, UNCHANGED <<remote, journal, nextId>>, NEW K \in SUBSET DOMAIN jira,
           NEW D \in SUBSET DOMAIN issue,
           issue' = [k \in D \cup K |-> IF k \in K THEN reapplyPending(Fresh(k), k) ELSE issue[k]],
           UNCHANGED <<phase, todo, blocked, failed, met>>,
           \/ pc = "idle" /\ UNCHANGED <<pc, cur>>
           \/ pc = "refresh" /\ pc' = "next" /\ cur' = None
    PROVE  Typed'
<1>1. UNCHANGED <<jira, links>> /\ Last' = Last /\ Last = Len(jira)
  BY DEF remote, Last
<1>2. K \subseteq Keys /\ \A k \in K : k # None /\ k <= Last
  BY <1>1, TypedJira, KeyFacts DEF JiraFacts, None
<1>3. \A k \in DOMAIN issue : k \in Keys /\ k # None /\ k <= Last /\ issue[k] \in IssueRows
  BY DEF Typed, TypeOK, KnownKeys, IssueRows
<1>4. \A k \in DOMAIN issue' : k \in Keys /\ k # None /\ k <= Last' /\ issue'[k] \in IssueRows
  BY <1>1, <1>2, <1>3, ReappliedRow
<1>5. TypeOK'
  BY <1>1, <1>4 DEF Typed, TypeOK, WellKeyed, IssueRows
<1>6. Current' \subseteq Current
  BY DEF Current
<1>7. KnownKeys'
  BY <1>1, <1>4, <1>6 DEF Typed, KnownKeys, Known, Fit
<1>. QED
  BY <1>5, <1>7 DEF Typed

LEMMA FullSyncTyped ==
    ASSUME Typed, FullSync
    PROVE  Typed'
<1>. DEFINE D == {d \in DOMAIN issue : isDraftKey(d)}
            K == DOMAIN jira
<1>1. \A k \in K : ~isDraftKey(k)
  BY TypedJira DEF JiraFacts, isDraftKey
<1>2. issue' = [k \in D \cup K |-> IF isDraftKey(k) THEN issue[k] ELSE reapplyPending(Fresh(k), k)]
  BY DEF FullSync
<1>3. issue' = [k \in D \cup K |-> IF k \in K THEN reapplyPending(Fresh(k), k) ELSE issue[k]]
  BY <1>1, <1>2
<1>4. UNCHANGED <<remote, journal, nextId, phase, todo, blocked, failed, met, pc, cur>> /\ pc = "idle"
  BY DEF FullSync, engine
<1>. QED
  BY <1>3, <1>4, FetchTyped

LEMMA RefreshTyped ==
    ASSUME Typed, Refresh
    PROVE  Typed'
<1>1. cur.key \in DOMAIN jira /\ pc = "refresh"
  BY DEF Refresh, Typed, KnownKeys
<1>2. issue' = [k \in DOMAIN issue \cup {cur.key} |->
                   IF k \in {cur.key} THEN reapplyPending(Fresh(k), k) ELSE issue[k]]
  BY DEF Refresh
<1>3. UNCHANGED <<remote, journal, nextId, phase, todo, blocked, failed, met>> /\ pc' = "next" /\ cur' = None
  BY DEF Refresh, Done
<1>. QED
  BY <1>1, <1>2, <1>3, FetchTyped

LEMMA TakeTyped ==
    ASSUME Typed, NEW r \in todo, Take(r)
    PROVE  Typed'
<1>1. /\ UNCHANGED <<remote, issue, nextId, journal, phase, failed, met>> /\ todo' \subseteq todo /\ pc = "next"
      /\ (pc' = "next" /\ cur' = cur) \/ (pc' = "send" /\ cur' = r)
      /\ blocked' \subseteq blocked \cup {r.key}
  BY DEF Take, Hold, Fail, Go, store
<1>2. r \in Rows /\ r.key \in Keys /\ cur = None
  BY <1>1 DEF Typed, TypeOK, Rows, PendingChange
<1>3. Current' \subseteq Current \cup todo
  BY <1>1 DEF Current
<1>4. /\ phase' \in Phases \cup {0} /\ failed' \subseteq Nat /\ met' \subseteq Disturbances
      /\ blocked' \subseteq Keys
  BY <1>1, <1>2 DEF Typed, TypeOK
<1>. QED
  BY <1>1, <1>2, <1>3, <1>4, EngineFrame

\* The steps at a row that leave Jira alone, and the Commit's own end.
LEMMA StepTyped ==
    ASSUME Typed, \/ Refused /\ UNCHANGED remote
                  \/ RekeyFails \/ MarkCreatedWithoutRekey \/ MarkCommitted \/ ClearFails \/ RefreshFails
                  \/ CommitEnds \/ Crash
    PROVE  Typed'
<1>. USE DEF store, Done
<1>1. /\ UNCHANGED <<remote, issue, nextId>> /\ journal' \subseteq journal /\ todo' \subseteq todo
      /\ phase' \in {phase, 0}
      /\ failed' \subseteq failed \cup (IF pc \in {"send", "rekey", "forget", "clear"} THEN {cur.id} ELSE {})
      /\ blocked' \subseteq blocked \cup (IF pc \in {"send", "rekey", "forget", "clear"} THEN {cur.key} ELSE {})
      /\ met' \subseteq met \cup {"clear", "crash", "lost"}
  BY DEF Refused, RekeyFails, MarkCreatedWithoutRekey, MarkCommitted, ClearFails, RefreshFails, CommitEnds, Crash, Delete
<1>2. \/ pc' \in {"idle", "next"} /\ (cur' = None \/ (pc = "next" /\ cur' = cur))
      \/ pc = "rekey" /\ pc' = "forget" /\ cur' = cur
      \/ pc = "clear" /\ pc' = "refresh" /\ cur' = cur /\ cur.type # EntityLink
  BY DEF Refused, RekeyFails, MarkCreatedWithoutRekey, MarkCommitted, ClearFails, RefreshFails, CommitEnds, Crash
<1>3. pc \in {"send", "rekey", "forget", "clear"} => cur.id \in Nat /\ cur.key \in Keys
  BY DEF Typed, TypeOK, Rows, PendingChange
<1>4. /\ phase' \in Phases \cup {0} /\ failed' \subseteq Nat /\ met' \subseteq Disturbances
      /\ blocked' \subseteq Keys
  BY <1>1, <1>3 DEF Typed, TypeOK, Disturbances
<1>5. Current' \subseteq Current
  BY <1>2 DEF Current
<1>6. \/ pc' \in {"idle", "next"} /\ cur' = None
      \/ pc' = "forget"
      \/ pc' = "refresh" /\ cur'.type # EntityLink /\ cur'.key \in DOMAIN jira
  BY <1>2 DEF Typed, TypeOK, KnownKeys
<1>. QED
  BY <1>1, <1>4, <1>5, <1>6, EngineFrame

LEMMA ReloadTyped ==
    ASSUME Typed, CommitStart \/ NextPhase
    PROVE  Typed'
<1>1. /\ UNCHANGED <<remote, issue, nextId, journal, met>> /\ todo' \subseteq journal
      /\ phase' \in Phases /\ blocked' \subseteq blocked /\ failed' \subseteq failed
      /\ pc \in {"idle", "next"} /\ pc' = "next" /\ cur' = cur
  BY DEF CommitStart, NextPhase, Reload, store, Phases
<1>2. Current' = {} /\ cur' = None
  BY <1>1 DEF Current, Typed, TypeOK
<1>3. /\ failed' \subseteq Nat /\ met' \subseteq Disturbances /\ blocked' \subseteq Keys
  BY <1>1 DEF Typed, TypeOK
<1>. QED
  BY <1>1, <1>2, <1>3, EngineFrame

LEMMA CommitTyped ==
    ASSUME Typed, CommitStep
    PROVE  Typed'
<1>1. CASE Refused
  BY <1>1, SendTyped, StepTyped DEF Refused
<1>. QED
  BY <1>1, TakeTyped, SendTyped, RekeyTyped, StepTyped, RefreshTyped, ReloadTyped DEF CommitStep

LEMMA StutterTyped ==
    ASSUME Typed, UNCHANGED vars
    PROVE  Typed'
BY DEF vars, Typed, TypeOK, KnownKeys, Known, Fit, Last, Current, WellKeyed

LEMMA TypedInvariant == Spec => []Typed
<1>1. Drafts => Tables
  BY DEF Drafts
<1>2. Typed /\ Tables /\ [Next]_vars => Typed'
  BY UserTyped, FullSyncTyped, ReloadTyped, CommitTyped, StepTyped, StutterTyped DEF Next
<1>. QED
  BY <1>1, <1>2, InitTyped, DraftsInvariant, PTL DEF Spec

\* For any number of drafts and any mix of disturbances: every key is of the
\* kind its place holds, the journal's index is never broken, also by a
\* rename, and what refresh fetches is an issue Jira has.
THEOREM TypeCorrect == Spec => []TypeOK
<1>1. Typed => TypeOK
  BY DEF Typed
<1>. QED
  BY <1>1, TypedInvariant, PTL
-----------------------------------------------------------------------------
\* Which draft a key stands for and of what level it is, as long as the key
\* is a draft of the cache or an issue of Jira.

There(k)   == IF isDraftKey(k) THEN k \in DOMAIN issue ELSE k \in DOMAIN jira
DraftOf(k) == IF isDraftKey(k) THEN issue[k].draft ELSE jira[k].draft
LevelAt(k) == IF isDraftKey(k) THEN issue[k].level ELSE jira[k].level

Names(k, draft) == There(k) /\ DraftOf(k) = draft
Hangs(k, level) == There(k) /\ LevelAt(k) = level

NamesTo(r) == IF r.after.to = None THEN r.after.meant = None ELSE Names(r.after.to, r.after.meant)

\* A create row is of the draft its key stands for.
Own(r) == Names(r.key, r.id) /\ Hangs(r.key, r.after.level)

\* A pending row names what the user named.
Right(r) ==
    /\ NamesTo(r)
    /\ IF r.type = EntityIssueCreate
       THEN Own(r) /\ (r.after.to # None => Hangs(r.after.to, r.after.level - 1))
       ELSE Names(r.key, r.after.of)

\* A row a phase read before may name a draft renamed since.
RightCopy(r) ==
    /\ ~isDraftKey(r.after.to) => NamesTo(r)
    /\ IF r.type = EntityIssueCreate THEN Own(r)
       ELSE ~isDraftKey(r.key) => Names(r.key, r.after.of)

\* The cache knows which draft each of Jira's issues was.
Cached ==
    \A k \in DOMAIN issue : ~isDraftKey(k) =>
        issue[k].draft = jira[k].draft /\ issue[k].level = jira[k].level

\* A cached draft is still to be created, or Jira has it.
Backed ==
    \A k \in DOMAIN issue : isDraftKey(k) =>
        CreateRows(k) # {} \/ \E l \in DOMAIN jira : jira[l].draft = issue[k].draft

Meant ==
    /\ Cached /\ Backed
    /\ \A r \in journal : Right(r)
    /\ \A r \in todo \cup Current : RightCopy(r)

Meaning == NotMet({"discard"}) => Meant

\* What the Commit has sent names no draft, and what it created is Jira's last.
Sent ==
    /\ pc \notin {"idle", "next"} => ~isDraftKey(cur.after.to)
    /\ pc = "send" /\ cur.type # EntityIssueCreate => ~isDraftKey(cur.key)
    /\ pc = "rekey" => jira[Len(jira)].draft = cur.id /\ jira[Len(jira)].level = cur.after.level

-----------------------------------------------------------------------------
LEMMA SentSteps ==
    ASSUME Typed, Sent, [Next]_vars
    PROVE  Sent'
<1>. USE DEF remote, store, Done
<1>1. CASE UserStep \/ FullSync \/ UNCHANGED vars
  <2>1. UNCHANGED <<jira, pc, cur>>
    BY <1>1 DEF UserStep, CreateDraft, EditDraftParent, EditParent, AddLink, DiscardPendingChange,
                FullSync, engine, vars
  <2>. QED
    BY <2>1 DEF Sent
<1>2. CASE CommitStart \/ Crash \/ NextPhase \/ CommitEnds
  BY <1>2 DEF CommitStart, Crash, NextPhase, CommitEnds, Sent
<1>3. CASE \E r \in todo : Take(r)
  <2>1. PICK r \in todo : Take(r)
    BY <1>3
  <2>2. CASE Go(r)
    <3>1. /\ pc' = "send" /\ cur' = r /\ ~isDraftKey(r.after.to)
          /\ ~Left(r) /\ Waits(r) \cap blocked = {}
      BY <2>2 DEF Go
    <3>2. r.type \in {EntityIssueCreate, EntityIssue, EntityLink} /\ Fit(r) /\ JiraFacts
      BY TypedJira DEF Typed, TypeOK, KnownKeys, Rows, PendingChange
    <3>3. r.type = EntityIssue => ~isDraftKey(r.key)
      BY <3>2 DEF Fit, JiraFacts, isDraftKey
    <3>4. r.type = EntityLink => ~isDraftKey(r.key)
      BY <3>1 DEF Left, Waits
    <3>. QED
      BY <3>1, <3>2, <3>3, <3>4 DEF Sent
  <2>3. CASE ~Go(r)
    <3>1. pc' = "next"
      BY <2>1, <2>3 DEF Take, Hold, Fail
    <3>. QED
      BY <3>1 DEF Sent
  <2>. QED
    BY <2>2, <2>3
<1>4. CASE Send
  <2>1. pc = "send" /\ Land /\ cur' = cur /\ pc' = IF cur.type = EntityIssueCreate THEN "rekey" ELSE "clear"
    BY <1>4 DEF Send
  <2>2. cur.type = EntityIssueCreate =>
            jira'[Len(jira')] = [draft |-> cur.id, level |-> cur.after.level, parent |-> cur.after.to]
    BY <2>1, LandTyped
  <2>. QED
    BY <2>1, <2>2 DEF Sent
<1>5. CASE Rekey
  <2>1. pc = "rekey" /\ pc' = "clear" /\ cur' = [cur EXCEPT !.key = Len(jira)]
    BY <1>5 DEF Rekey
  <2>2. cur'.after = cur.after
    BY <2>1 DEF Typed, TypeOK, Rows, PendingChange
  <2>. QED
    BY <2>1, <2>2 DEF Sent
<1>6. CASE Refused \/ MarkCreatedWithoutRekey \/ ClearFails \/ Refresh \/ RefreshFails
  BY <1>6 DEF Refused, MarkCreatedWithoutRekey, ClearFails, Refresh, RefreshFails, Sent
<1>7. CASE RekeyFails \/ MarkCommitted
  BY <1>7 DEF RekeyFails, MarkCommitted, Sent
<1>. QED
  BY <1>1, <1>2, <1>3, <1>4, <1>5, <1>6, <1>7 DEF Next, CommitStep

-----------------------------------------------------------------------------
\* The keys that stood for a draft still do.
Lasting ==
    \A k \in Keys : There(k) => There(k)' /\ DraftOf(k)' = DraftOf(k) /\ LevelAt(k)' = LevelAt(k)

LEMMA RowKeys ==
    ASSUME Typed
    PROVE  \A r \in journal \cup todo \cup Current :
              /\ r \in Rows /\ r.key \in Keys /\ r.after.to \in Keys /\ r.field \in Keys /\ r.id \in Nat
              /\ r.type \in {EntityIssueCreate, EntityIssue, EntityLink}
BY DEF Typed, TypeOK, Current, Rows, PendingChange, Ask

LEMMA LastingRows ==
    ASSUME Lasting, NEW r, r.key \in Keys, r.after.to \in Keys
    PROVE  /\ Right(r) => Right(r)' /\ RightCopy(r)
           /\ RightCopy(r) => RightCopy(r)'
<1>1. \A d : Names(r.key, d) => Names(r.key, d)'
  BY DEF Lasting, Names
<1>2. \A d : Names(r.after.to, d) => Names(r.after.to, d)'
  BY DEF Lasting, Names
<1>3. \A l : Hangs(r.key, l) => Hangs(r.key, l)'
  BY DEF Lasting, Hangs
<1>4. \A l : Hangs(r.after.to, l) => Hangs(r.after.to, l)'
  BY DEF Lasting, Hangs
<1>5. (NamesTo(r) => NamesTo(r)') /\ (Own(r) => Own(r)')
  BY <1>1, <1>2, <1>3 DEF NamesTo, Own
<1>. QED
  BY <1>1, <1>4, <1>5 DEF Right, RightCopy

LEMMA MeantFrame ==
    ASSUME Typed, Meant, Lasting, Cached', Backed',
           \A r \in journal' : r \in journal \/ Right(r)',
           todo' \cup Current' \subseteq todo \cup Current \cup journal
    PROVE  Meant'
<1>1. \A r \in journal : Right(r) /\ r.key \in Keys /\ r.after.to \in Keys
  BY RowKeys DEF Meant
<1>2. \A r \in journal : Right(r)' /\ RightCopy(r)'
  BY <1>1, LastingRows
<1>3. \A r \in todo \cup Current : RightCopy(r) /\ r.key \in Keys /\ r.after.to \in Keys
  BY RowKeys DEF Meant
<1>4. \A r \in todo \cup Current : RightCopy(r)'
  BY <1>3, LastingRows
<1>. QED
  BY <1>2, <1>4 DEF Meant

\* What the cache holds is there, and it is what the cache says.
LEMMA CachedIsThere ==
    ASSUME Typed, Cached, NEW k \in DOMAIN issue
    PROVE  /\ There(k) /\ DraftOf(k) = issue[k].draft /\ LevelAt(k) = issue[k].level
           /\ Who(k) = issue[k].draft /\ k \in Keys /\ k # None
           /\ ~isDraftKey(k) => k \in DOMAIN jira
<1>1. k \in Keys /\ k \in Int /\ k # None /\ k <= Last /\ JiraFacts
  BY KeyFacts, TypedJira DEF Typed, TypeOK, KnownKeys
<1>2. ~isDraftKey(k) => k \in DOMAIN jira
  BY <1>1 DEF isDraftKey, None, Last, JiraFacts
<1>. QED
  BY <1>1, <1>2 DEF There, DraftOf, LevelAt, Who, Cached

LEMMA BackedFrame ==
    ASSUME Backed, Grown,
           \A k \in DOMAIN issue' : isDraftKey(k) =>
              \/ k \in DOMAIN issue /\ issue'[k].draft = issue[k].draft
              \/ CreateRows(k)' # {},
           \A q \in journal, k \in DOMAIN issue' :
              q.type = EntityIssueCreate /\ q.key = k /\ q.field = None /\ isDraftKey(k) =>
                 \/ CreateRows(k)' # {}
                 \/ \E l \in DOMAIN jira' : jira'[l].draft = issue'[k].draft
    PROVE  Backed'
<1>. SUFFICES ASSUME NEW k \in DOMAIN issue', isDraftKey(k)
              PROVE  CreateRows(k)' # {} \/ \E l \in DOMAIN jira' : jira'[l].draft = issue'[k].draft
  BY DEF Backed
<1>1. CASE k \in DOMAIN issue /\ issue'[k].draft = issue[k].draft
  <2>1. CASE CreateRows(k) # {}
    BY <2>1 DEF CreateRows, RowsAt
  <2>2. CASE \E l \in DOMAIN jira : jira[l].draft = issue[k].draft
    BY <1>1, <2>2 DEF Grown
  <2>. QED
    BY <1>1, <2>1, <2>2 DEF Backed
<1>. QED
  BY <1>1
-----------------------------------------------------------------------------
\* The user's bindings, discarding apart: what a binding writes is right, and
\* the places of the journal stay.
LEMMA WriteMeant ==
    ASSUME Typed, Meant, UNCHANGED <<remote, engine>>,
           \A k \in DOMAIN issue : /\ k \in DOMAIN issue' /\ issue'[k].draft = issue[k].draft
                                   /\ issue'[k].level = issue[k].level,
           \A k \in DOMAIN issue' \ DOMAIN issue : isDraftKey(k) /\ CreateRows(k)' # {},
           \A q \in journal : \E p \in journal' : p.type = q.type /\ p.key = q.key /\ p.field = q.field,
           \A r \in journal' : r \in journal \/ Right(r)'
    PROVE  Meant'
<1>1. UNCHANGED <<jira, pc, todo, cur>>
  BY DEF remote, engine
<1>2. Lasting
  BY <1>1 DEF Lasting, There, DraftOf, LevelAt
<1>3. Cached'
  BY <1>1 DEF Meant, Cached
<1>4. Grown
  BY <1>1 DEF Grown
<1>5. Backed'
  <2>1. \A q \in journal : q.type = EntityIssueCreate /\ q.field = None => CreateRows(q.key)' # {}
    BY DEF CreateRows, RowsAt
  <2>. QED
    BY <1>4, <2>1, BackedFrame DEF Meant
<1>6. todo' \cup Current' \subseteq todo \cup Current
  BY <1>1 DEF Current
<1>. QED
  BY <1>2, <1>3, <1>5, <1>6, MeantFrame

\* A parent that may be chosen is there, one level up.
LEMMA ParentIsThere ==
    ASSUME Typed, Cached, NEW level \in Levels, NEW key, NEW parent \in DOMAIN issue \cup {None},
           NEW of, NEW r, r.after = Asked(level, parent, of)
    PROVE  /\ NamesTo(r)
           /\ ValidParent(level, key, parent) /\ parent # None => Hangs(parent, level - 1)
<1>1. r.after.to = parent /\ r.after.meant = Who(parent)
  BY DEF Asked
<1>2. CASE parent = None
  <2>1. None \notin DOMAIN issue
    BY DEF Typed, KnownKeys
  <2>. QED
    BY <1>1, <1>2, <2>1 DEF NamesTo, Who
<1>3. CASE parent # None
  <2>1. There(parent) /\ DraftOf(parent) = Who(parent) /\ LevelAt(parent) = issue[parent].level
    BY <1>3, CachedIsThere
  <2>2. ValidParent(level, key, parent) => issue[parent].level = level - 1
    BY <1>3 DEF ValidParent, Levels, Epic, Issue, Subtask
  <2>. QED
    BY <1>1, <1>3, <2>1, <2>2 DEF NamesTo, Names, Hangs
<1>. QED
  BY <1>2, <1>3

LEMMA CreateDraftMeant ==
    ASSUME Typed, Meant, Tables, NEW level \in Levels, NEW parent \in DOMAIN issue \cup {None},
           CreateDraft(level, parent)
    PROVE  Meant'
<1>. DEFINE key == -NextDraft
            asked == Asked(level, parent, nextId)
            row == [level |-> level, to |-> parent, draft |-> nextId]
            Types == {EntityIssueCreate, EntityIssue, EntityLink}
<1>1. /\ UNCHANGED <<remote, engine>>
      /\ issue' = [k \in DOMAIN issue \cup {key} |-> IF k = key THEN row ELSE issue[k]]
      /\ journal' = Put(journal, nextId, EntityIssueCreate, key, None, Nothing, asked, 0)
      /\ ValidParent(level, key, parent)
  BY DEF CreateDraft
<1>2. NextDraft \in Nat \ {0} /\ key \notin DOMAIN issue
  BY NextDraftIsNew DEF Typed, TypeOK
<1>3. isDraftKey(key) /\ asked.level = level /\ asked.to = parent
  BY <1>2 DEF isDraftKey, Asked
<1>4. RowsAt(journal, EntityIssueCreate, key, None) = {}
  <2>1. \A r \in journal : r.type = EntityIssueCreate => There(r.key)
    BY DEF Meant, Right, Own, Names
  <2>. QED
    BY <1>2, <1>3, <2>1 DEF RowsAt, There
<1>. HIDE DEF key
<1>5. /\ \A p \in journal' :
            \/ p \in journal
            \/ p.type = EntityIssueCreate /\ p.key = key /\ p.field = None /\ p.after = asked /\ p.id = nextId
      /\ \A s \in journal : \E p \in journal' : s.id = p.id /\ p.type = s.type /\ p.key = s.key /\ p.field = s.field
      /\ RowsAt(journal', EntityIssueCreate, key, None) # {}
  <2>1. journal \in SUBSET PendingChange(Types, Keys, Keys, Ask) /\ nextId \in Nat /\ \A r \in journal : r.id < nextId
    BY DEF Typed, TypeOK, Rows, Tables, Numbered
  <2>. QED
    BY <1>1, <1>4, <2>1, PutRows
<1>6. /\ \A k \in DOMAIN issue : k \in DOMAIN issue' /\ issue'[k] = issue[k]
      /\ \A k \in DOMAIN issue' \ DOMAIN issue : k = key
      /\ key \in DOMAIN issue' /\ issue'[key].draft = nextId /\ issue'[key].level = level
  BY <1>1, <1>2
<1>7. UNCHANGED jira
  BY <1>1 DEF remote
<1>8. ASSUME NEW p \in journal', p \notin journal PROVE Right(p)'
  <2>1. p.type = EntityIssueCreate /\ p.key = key /\ p.after = asked /\ p.id = nextId
    BY <1>5, <1>8
  <2>2. NamesTo(p) /\ (parent # None => Hangs(parent, level - 1))
    BY <1>1, <2>1, ParentIsThere DEF Meant
  <2>3. Lasting
    BY <1>6, <1>7 DEF Lasting, There, DraftOf, LevelAt
  <2>4. parent \in Keys
    BY KeyFacts DEF Typed, TypeOK
  <2>5. NamesTo(p)' /\ (parent # None => Hangs(parent, level - 1)')
    BY <1>3, <2>1, <2>2, <2>3, <2>4 DEF NamesTo, Names, Hangs, Lasting
  <2>6. Own(p)'
    BY <1>3, <1>6, <2>1 DEF Own, Names, Hangs, There, DraftOf, LevelAt
  <2>. QED
    BY <1>3, <2>1, <2>5, <2>6 DEF Right
<1>. QED
  <2>1. \A k \in DOMAIN issue' \ DOMAIN issue : isDraftKey(k) /\ CreateRows(k)' # {}
    BY <1>3, <1>5, <1>6 DEF CreateRows
  <2>. QED
    BY <1>1, <1>5, <1>6, <1>8, <2>1, WriteMeant

LEMMA EditDraftParentMeant ==
    ASSUME Typed, Meant, NEW k \in DOMAIN issue, NEW parent \in DOMAIN issue \cup {None}, EditDraftParent(k, parent)
    PROVE  Meant'
<1>0. PICK level \in Levels : level = issue[k].level
  BY DEF Typed, TypeOK
<1>. DEFINE asked == Asked(level, parent, Who(k))
<1>1. /\ UNCHANGED <<remote, engine>> /\ issue' = [issue EXCEPT ![k].to = parent]
      /\ journal' = Overwritten(journal, CreateRows(k), asked)
      /\ ValidParent(level, k, parent) /\ isDraftKey(k)
  BY <1>0 DEF EditDraftParent
<1>2. parent \in Keys /\ Who(k) \in Int /\ Who(parent) \in Int
  BY KeyFacts DEF Typed, TypeOK, Who, None
<1>3. asked \in Ask /\ asked.level = level /\ asked.to = parent
  BY <1>2, KeyFacts DEF Asked, Ask
<1>. HIDE DEF asked
<1>4. /\ \A p \in journal' :
            \/ p \in journal
            \/ \E q \in CreateRows(k) : p.id = q.id /\ p.type = q.type /\ p.key = q.key /\ p.after = asked
      /\ \A q \in journal : \E p \in journal' : p.type = q.type /\ p.key = q.key /\ p.field = q.field
  <2>1. journal \in SUBSET Rows /\ WellKeyed(journal) /\ CreateRows(k) \in SUBSET journal
    BY DEF Typed, TypeOK, CreateRows, RowsAt
  <2>. QED
    BY <1>1, <1>3, <2>1, OverwrittenTyped
<1>5. DOMAIN issue' = DOMAIN issue /\ \A d \in DOMAIN issue : issue'[d].draft = issue[d].draft /\ issue'[d].level = issue[d].level
  BY <1>1 DEF Typed, TypeOK
<1>6. UNCHANGED jira
  BY <1>1 DEF remote
<1>7. Lasting
  BY <1>5, <1>6 DEF Lasting, There, DraftOf, LevelAt
<1>8. ASSUME NEW p \in journal', p \notin journal PROVE Right(p)'
  <2>1. PICK q \in CreateRows(k) : p.id = q.id /\ p.type = q.type /\ p.key = q.key /\ p.after = asked
    BY <1>4, <1>8
  <2>2. q \in journal /\ q.type = EntityIssueCreate /\ q.key = k /\ Own(q)
    BY <2>1 DEF CreateRows, RowsAt, Meant, Right
  <2>3. NamesTo(p) /\ (parent # None => Hangs(parent, level - 1))
    BY <1>1, <1>2, <2>1, ParentIsThere DEF Meant, asked
  <2>4. NamesTo(p)' /\ (parent # None => Hangs(parent, level - 1)')
    BY <1>2, <1>3, <1>7, <2>1, <2>3 DEF NamesTo, Names, Hangs, Lasting
  <2>5. LevelAt(k) = level /\ k \in Keys
    BY <1>0, <1>1 DEF LevelAt, Typed, TypeOK
  <2>6. Own(p)'
    BY <1>3, <1>7, <2>1, <2>2, <2>5 DEF Own, Names, Hangs, Lasting
  <2>. QED
    <3>1. p.after.level = level /\ p.after.to = parent /\ p.type = EntityIssueCreate
      BY <1>3, <2>1, <2>2
    <3>. QED
      BY <2>4, <2>6, <3>1 DEF Right
<1>. QED
  BY <1>1, <1>4, <1>5, <1>8, WriteMeant
-----------------------------------------------------------------------------
\* Upsert of an edit leaves the create rows where they are.
LEMMA EditParentMeant ==
    ASSUME Typed, Meant, Tables, NEW k \in DOMAIN issue, NEW parent \in DOMAIN issue \cup {None}, EditParent(k, parent)
    PROVE  Meant'
<1>. DEFINE current == Asked(None, issue[k].to, Who(k))
            asked == Asked(None, parent, Who(k))
<1>1. /\ UNCHANGED <<remote, engine>> /\ issue' = [issue EXCEPT ![k].to = parent]
      /\ journal' \in {journal \ ParentRows(k), Upsert(journal, nextId, EntityIssue, k, None, current, asked, 0)}
  BY DEF EditParent
<1>2. issue[k] \in IssueRows /\ parent \in Keys /\ k \in Keys
  BY KeyFacts DEF Typed, TypeOK, IssueRows
<1>3. asked \in Ask /\ asked.to = parent /\ asked.meant = Who(parent) /\ asked.of = Who(k) /\ current \in Ask
  BY <1>2, KeyFacts DEF Typed, TypeOK, Asked, Ask, Who, None, IssueRows
<1>. HIDE DEF asked, current
<1>4. \A p \in journal' : \/ p \in journal
                          \/ p.type = EntityIssue /\ p.key = k /\ p.field = None /\ p.after = asked
  <2>1. CASE journal' = Upsert(journal, nextId, EntityIssue, k, None, current, asked, 0)
    BY <1>2, <1>3, <2>1, WrittenTyped, KeyFacts DEF Typed
  <2>. QED
    BY <1>1, <2>1
<1>5. \A q \in journal : q.type # EntityIssue => q \in journal'
  BY <1>1 DEF Upsert, Inserted, Overwritten, RowsAt, ParentRows
<1>6. DOMAIN issue' = DOMAIN issue /\ \A d \in DOMAIN issue : issue'[d].draft = issue[d].draft /\ issue'[d].level = issue[d].level
  BY <1>1 DEF Typed, TypeOK
<1>7. UNCHANGED <<jira, pc, todo, cur>>
  BY <1>1 DEF remote, engine
<1>8. Lasting
  BY <1>6, <1>7 DEF Lasting, There, DraftOf, LevelAt
<1>9. ASSUME NEW p \in journal', p \notin journal PROVE Right(p)'
  <2>1. p.type = EntityIssue /\ p.key = k /\ p.after = asked
    BY <1>4, <1>9
  <2>2. Names(k, Who(k)) /\ (IF parent = None THEN Who(parent) = None ELSE Names(parent, Who(parent)))
    BY CachedIsThere DEF Names, Who, Typed, KnownKeys, Meant
  <2>3. NamesTo(p) /\ Names(p.key, p.after.of)
    BY <1>3, <2>1, <2>2 DEF NamesTo
  <2>4. NamesTo(p)' /\ Names(p.key, p.after.of)'
    BY <1>2, <1>3, <1>8, <2>1, <2>3 DEF NamesTo, Names, Lasting
  <2>. QED
    BY <2>1, <2>4 DEF Right, EntityIssue, EntityIssueCreate
<1>10. Cached'
  BY <1>6, <1>7 DEF Meant, Cached
<1>11. Backed'
  <2>1. \A q \in journal, d \in DOMAIN issue' :
           q.type = EntityIssueCreate /\ q.key = d /\ q.field = None => CreateRows(d)' # {}
    BY <1>5 DEF CreateRows, RowsAt, EntityIssueCreate, EntityIssue
  <2>2. Grown
    BY <1>7 DEF Grown
  <2>. QED
    BY <1>6, <2>1, <2>2, BackedFrame DEF Meant
<1>12. todo' \cup Current' \subseteq todo \cup Current
  BY <1>7 DEF Current
<1>. QED
  BY <1>8, <1>9, <1>10, <1>11, <1>12, MeantFrame

LEMMA AddLinkMeant ==
    ASSUME Typed, Meant, Tables, NEW k \in DOMAIN issue, NEW to \in DOMAIN issue, AddLink(k, to)
    PROVE  Meant'
<1>. DEFINE asked == Asked(None, to, Who(k))
            Types == {EntityIssueCreate, EntityIssue, EntityLink}
<1>1. /\ UNCHANGED <<remote, engine, issue>>
      /\ journal' = Put(journal, nextId, EntityLink, k, to, Nothing, asked, 0)
  BY DEF AddLink
<1>2. asked.to = to /\ asked.meant = Who(to) /\ asked.of = Who(k)
  BY DEF Asked
<1>3. journal \in SUBSET PendingChange(Types, Keys, Keys, Ask) /\ nextId \in Nat /\ \A r \in journal : r.id < nextId
  BY DEF Typed, TypeOK, Rows, Tables, Numbered
<1>. HIDE DEF asked, Types
<1>4. /\ \A p \in journal' : p \in journal \/ (p.type = EntityLink /\ p.key = k /\ p.after = asked)
      /\ \A s \in journal : \E p \in journal' : s.id = p.id /\ p.type = s.type /\ p.key = s.key /\ p.field = s.field
  BY <1>1, <1>3, PutRows
<1>5. Names(k, Who(k)) /\ Names(to, Who(to)) /\ to # None
  BY CachedIsThere DEF Names, Meant
<1>6. ASSUME NEW p \in journal', p \notin journal PROVE Right(p)'
  <2>1. p.type = EntityLink /\ p.key = k /\ p.after = asked
    BY <1>4, <1>6
  <2>2. Right(p)
    BY <1>2, <1>5, <2>1 DEF Right, NamesTo, EntityLink, EntityIssueCreate
  <2>3. Lasting
    BY <1>1 DEF Lasting, There, DraftOf, LevelAt, remote
  <2>4. p.key \in Keys /\ p.after.to \in Keys
    BY <1>2, <2>1 DEF Typed, TypeOK
  <2>. QED
    BY <2>2, <2>3, <2>4, LastingRows
<1>. QED
  BY <1>1, <1>4, <1>6, WriteMeant

LEMMA UserMeant ==
    ASSUME Typed, Tables, Meaning, UserStep
    PROVE  Meaning'
<1>. SUFFICES ASSUME NotMet({"discard"})' PROVE Meant'
  BY DEF Meaning
<1>1. CASE \E r \in journal : DiscardPendingChange(r)
  BY <1>1 DEF DiscardPendingChange, NotMet
<1>2. CASE ~\E r \in journal : DiscardPendingChange(r)
  <2>1. met \subseteq met'
    BY <1>2 DEF UserStep, CreateDraft, EditDraftParent, EditParent, AddLink, Unguarded
  <2>2. Meant
    BY <2>1 DEF Meaning, NotMet
  <2>. QED
    BY <1>2, <2>2, CreateDraftMeant, EditDraftParentMeant, EditParentMeant, AddLinkMeant DEF UserStep
<1>. QED
  BY <1>1, <1>2

-----------------------------------------------------------------------------
\* FullSync and refresh answer what the cache knows.
LEMMA FetchMeant ==
    ASSUME Typed, Meant, UNCHANGED <<remote, journal, todo>>, NEW K \in SUBSET DOMAIN jira,
           NEW D \in SUBSET DOMAIN issue, \A k \in DOMAIN issue : isDraftKey(k) => k \in D,
           issue' = [k \in D \cup K |-> IF k \in K THEN reapplyPending(Fresh(k), k) ELSE issue[k]],
           Current' \subseteq Current
    PROVE  Meant'
<1>1. UNCHANGED jira /\ \A k \in K : ~isDraftKey(k)
  BY TypedJira DEF remote, JiraFacts, isDraftKey
<1>2. \A k \in DOMAIN issue' : \/ k \in K /\ issue'[k].draft = jira[k].draft /\ issue'[k].level = jira[k].level
                               \/ k \in DOMAIN issue /\ issue'[k] = issue[k]
  BY ReappliedRow
<1>3. \A k \in DOMAIN issue : isDraftKey(k) => k \in DOMAIN issue' /\ issue'[k] = issue[k]
  BY <1>1
<1>4. Lasting
  BY <1>1, <1>3 DEF Lasting, There, DraftOf, LevelAt
<1>5. Cached'
  BY <1>1, <1>2 DEF Meant, Cached
<1>6. Grown
  BY <1>1 DEF Grown
<1>7. Backed'
  <2>1. \A k : \A q \in journal : q.type = EntityIssueCreate /\ q.key = k /\ q.field = None => CreateRows(k)' # {}
    BY DEF CreateRows, RowsAt
  <2>2. \A k \in DOMAIN issue' : isDraftKey(k) => k \in DOMAIN issue /\ issue'[k].draft = issue[k].draft
    BY <1>1, <1>2
  <2>. QED
    BY <1>6, <2>1, <2>2, BackedFrame DEF Meant
<1>. QED
  BY <1>4, <1>5, <1>7, MeantFrame

LEMMA FullSyncMeant ==
    ASSUME Typed, Meant, FullSync
    PROVE  Meant'
<1>. DEFINE D == {d \in DOMAIN issue : isDraftKey(d)}
            K == DOMAIN jira
<1>1. \A k \in K : ~isDraftKey(k)
  BY TypedJira DEF JiraFacts, isDraftKey
<1>2. issue' = [k \in D \cup K |-> IF isDraftKey(k) THEN issue[k] ELSE reapplyPending(Fresh(k), k)]
  BY DEF FullSync
<1>3. issue' = [k \in D \cup K |-> IF k \in K THEN reapplyPending(Fresh(k), k) ELSE issue[k]]
  BY <1>1, <1>2
<1>4. UNCHANGED <<remote, journal, todo, pc, cur>> /\ Current' = Current
  BY DEF FullSync, engine, Current
<1>. QED
  BY <1>3, <1>4, FetchMeant

LEMMA RefreshMeant ==
    ASSUME Typed, Meant, Refresh
    PROVE  Meant'
<1>1. cur.key \in DOMAIN jira
  BY DEF Refresh, Typed, KnownKeys
<1>2. issue' = [k \in DOMAIN issue \cup {cur.key} |->
                   IF k \in {cur.key} THEN reapplyPending(Fresh(k), k) ELSE issue[k]]
  BY DEF Refresh
<1>3. UNCHANGED <<remote, journal, todo>> /\ Current' = {}
  BY DEF Refresh, Done, Current
<1>. QED
  BY <1>1, <1>2, <1>3, FetchMeant

LEMMA SendMeant ==
    ASSUME Typed, Meant, Drafts, Send \/ (Refused /\ Land)
    PROVE  Meant'
<1>1. pc = "send" /\ Land /\ UNCHANGED <<issue, journal, todo>> /\ Current' \subseteq Current
  BY DEF Send, Refused, store, Done, Current
<1>2. \A k \in DOMAIN jira : k \in DOMAIN jira' /\ jira'[k].draft = jira[k].draft /\ jira'[k].level = jira[k].level
  <2>. DEFINE n == Len(jira)
              m == Len(jira')
  <2>1. /\ n \in Nat /\ DOMAIN jira = 1..n /\ DOMAIN jira' = 1..m
        /\ IF cur.type = EntityIssueCreate
           THEN m = n + 1 /\ \A k \in DOMAIN jira : jira'[k] = jira[k]
           ELSE m = n /\ \A k \in DOMAIN jira : jira'[k].draft = jira[k].draft /\ jira'[k].level = jira[k].level
    BY <1>1, LandTyped
  <2>. HIDE DEF n, m
  <2>. QED
    BY <2>1
<1>3. Lasting
  BY <1>1, <1>2 DEF Lasting, There, DraftOf, LevelAt
<1>4. Cached'
  BY <1>1, <1>2, CachedIsThere DEF Meant, Cached
<1>5. Grown
  BY SendDrafts
<1>6. Backed'
  <2>1. \A k : \A q \in journal : q.type = EntityIssueCreate /\ q.key = k /\ q.field = None => CreateRows(k)' # {}
    BY <1>1 DEF CreateRows, RowsAt
  <2>. QED
    BY <1>1, <1>5, <2>1, BackedFrame DEF Meant
<1>. QED
  BY <1>1, <1>3, <1>4, <1>6, MeantFrame

\* The other steps of the engine take rows of the journal, or delete what
\* Jira has.
LEMMA EngineMeant ==
    ASSUME Typed, Meant, UNCHANGED <<jira, issue>>,
           todo' \cup Current' \subseteq todo \cup Current \cup journal,
           journal' \subseteq journal,
           \A q \in journal : q.type = EntityIssueCreate =>
              q \in journal' \/ \E l \in DOMAIN jira : jira[l].draft = q.id
    PROVE  Meant'
<1>1. Lasting
  BY DEF Lasting, There, DraftOf, LevelAt
<1>2. Cached'
  BY DEF Meant, Cached
<1>3. Grown
  BY DEF Grown
<1>4. Backed'
  <2>1. \A q \in journal, k \in DOMAIN issue' :
           q.type = EntityIssueCreate /\ q.key = k /\ q.field = None /\ isDraftKey(k) =>
              CreateRows(k)' # {} \/ \E l \in DOMAIN jira' : jira'[l].draft = issue'[k].draft
    BY DEF CreateRows, RowsAt, Meant, Right, Own, Names, DraftOf
  <2>. QED
    BY <1>3, <2>1, BackedFrame DEF Meant
<1>. QED
  BY <1>1, <1>2, <1>4, MeantFrame
-----------------------------------------------------------------------------
\* Rekey: whatever named the draft names the issue Jira made of it.
LEMMA RekeyMeant ==
    ASSUME Typed, Drafts, Sent, Meant, Rekey
    PROVE  Meant'
<1>0. PICK from \in Keys : from = cur.key
  BY DEF Rekey, Typed, TypeOK, Rows, PendingChange
<1>00. PICK real \in Keys : real = Len(jira)
  BY RealIsNew DEF Rekey
<1>. DEFINE R(k) == IF k = from THEN real ELSE k
<1>1. /\ pc = "rekey" /\ UNCHANGED <<jira, todo>> /\ journal' = Renamed(journal, from, real)
      /\ Current = {cur} /\ Current' = {cur'} /\ cur' = [cur EXCEPT !.key = real]
  BY <1>0, <1>00 DEF Rekey, remote, Current
<1>2. /\ cur.type = EntityIssueCreate /\ cur \in Rows
      /\ jira[real].draft = cur.id /\ jira[real].level = cur.after.level /\ ~isDraftKey(cur.after.to)
  BY <1>00, <1>1 DEF Drafts, Landed, Typed, TypeOK, Sent
<1>3. There(from) /\ DraftOf(from) = cur.id /\ LevelAt(from) = cur.after.level
  BY <1>0, <1>1, <1>2 DEF Meant, RightCopy, Own, Names, Hangs
<1>4. /\ real \in DOMAIN jira /\ ~isDraftKey(real) /\ real # None /\ real \notin DOMAIN issue
  BY <1>00, <1>1, RealIsNew
<1>5. from # None
  BY <1>3, TypedJira DEF There, None, isDraftKey, JiraFacts
<1>6. /\ DOMAIN issue' = {R(d) : d \in DOMAIN issue}
      /\ \A d \in DOMAIN issue : issue'[R(d)].draft = issue[d].draft /\ issue'[R(d)].level = issue[d].level
  <2>1. /\ DOMAIN issue' = {R(d) : d \in DOMAIN issue}
        /\ \A d \in DOMAIN issue : issue'[R(d)] = [issue[d] EXCEPT !.to = IF @ = from THEN real ELSE @]
    BY <1>0, <1>00, RekeyedIssues
  <2>. QED
    BY <2>1 DEF Typed, TypeOK
<1>7. \A k \in Keys : There(k) => There(R(k))' /\ DraftOf(R(k))' = DraftOf(k) /\ LevelAt(R(k))' = LevelAt(k)
  <2>. SUFFICES ASSUME NEW k \in Keys, There(k)
                PROVE  There(R(k))' /\ DraftOf(R(k))' = DraftOf(k) /\ LevelAt(R(k))' = LevelAt(k)
    OBVIOUS
  <2>1. CASE k = from
    BY <1>1, <1>2, <1>3, <1>4, <2>1 DEF There, DraftOf, LevelAt
  <2>2. CASE k # from /\ isDraftKey(k)
    <3>1. k \in DOMAIN issue /\ R(k) = k
      BY <2>2 DEF There
    <3>2. k \in DOMAIN issue' /\ issue'[k].draft = issue[k].draft /\ issue'[k].level = issue[k].level
      BY <1>6, <3>1
    <3>. QED
      BY <2>2, <3>1, <3>2 DEF There, DraftOf, LevelAt
  <2>3. CASE k # from /\ ~isDraftKey(k)
    BY <1>1, <2>3 DEF There, DraftOf, LevelAt
  <2>. QED
    BY <2>1, <2>2, <2>3
<1>8. Cached'
  <2>. SUFFICES ASSUME NEW d \in DOMAIN issue, ~isDraftKey(R(d))
                PROVE  issue'[R(d)].draft = jira[R(d)].draft /\ issue'[R(d)].level = jira[R(d)].level
    BY <1>1, <1>6 DEF Cached
  <2>1. CASE d = from
    <3>1. issue[d].draft = DraftOf(from) /\ issue[d].level = LevelAt(from)
      BY <2>1, CachedIsThere DEF Meant
    <3>. QED
      BY <1>2, <1>3, <1>6, <2>1, <3>1
  <2>2. CASE d # from
    BY <1>6, <2>2 DEF Meant, Cached
  <2>. QED
    BY <2>1, <2>2
<1>9. journal' = {Repointed(r, from, real) : r \in journal}
  <2>1. journal \in SUBSET Rows
    BY DEF Typed, TypeOK
  <2>. QED
    BY <1>1, <2>1, RenamedIs
<1>10. Backed'
  <2>1. \A k \in DOMAIN issue' : isDraftKey(k) =>
           k # from /\ k \in DOMAIN issue /\ issue'[k].draft = issue[k].draft
    BY <1>4, <1>6
  <2>2. ASSUME NEW q \in journal, NEW k \in DOMAIN issue',
               q.type = EntityIssueCreate /\ q.key = k /\ q.field = None /\ isDraftKey(k)
        PROVE  CreateRows(k)' # {}
    <3>1. Repointed(q, from, real) \in journal'
      BY <1>9
    <3>2. /\ Repointed(q, from, real).type = EntityIssueCreate /\ Repointed(q, from, real).key = k
          /\ Repointed(q, from, real).field = None
      BY <2>1, <2>2 DEF Repointed, EntityIssueCreate, EntityLink
    <3>. QED
      BY <3>1, <3>2 DEF CreateRows, RowsAt
  <2>3. Grown
    BY <1>1 DEF Grown
  <2>. QED
    BY <2>1, <2>2, <2>3, BackedFrame DEF Meant
<1>11. ASSUME NEW r \in journal, NEW p, p = Repointed(r, from, real) PROVE Right(p)'
  <2>1. Right(r) /\ r.key \in Keys /\ r.after.to \in Keys
    BY RowKeys DEF Meant
  <2>2. /\ p.id = r.id /\ p.type = r.type /\ p.key = R(r.key) /\ p.after.to = R(r.after.to)
        /\ p.after.level = r.after.level /\ p.after.of = r.after.of /\ p.after.meant = r.after.meant
    BY <1>11 DEF Repointed
  <2>3. NamesTo(p)'
    BY <1>4, <1>5, <1>7, <2>1, <2>2 DEF Right, NamesTo, Names
  <2>4. p.type = EntityIssueCreate => Own(p)'
    BY <1>7, <2>1, <2>2 DEF Right, Own, Names, Hangs
  <2>5. p.type = EntityIssueCreate /\ p.after.to # None => Hangs(p.after.to, p.after.level - 1)'
    BY <1>4, <1>5, <1>7, <2>1, <2>2 DEF Right, Hangs
  <2>6. p.type # EntityIssueCreate => Names(p.key, p.after.of)'
    BY <1>7, <2>1, <2>2 DEF Right, Names
  <2>. QED
    BY <2>3, <2>4, <2>5, <2>6 DEF Right
<1>12. ASSUME NEW r \in todo PROVE RightCopy(r)'
  <2>1. RightCopy(r) /\ r.key \in Keys /\ r.after.to \in Keys /\ r.id # cur.id
    BY <1>1, RowKeys DEF Meant, Drafts, Held, Numbered
  <2>2. ~isDraftKey(r.after.to) => NamesTo(r)'
    BY <1>1, <2>1 DEF RightCopy, NamesTo, Names, There, DraftOf
  <2>3. r.type = EntityIssueCreate => r.key # from
    BY <1>3, <2>1 DEF RightCopy, Own, Names
  <2>4. r.type = EntityIssueCreate => Own(r)'
    BY <1>7, <2>1, <2>3 DEF RightCopy, Own, Names, Hangs
  <2>5. r.type # EntityIssueCreate => (~isDraftKey(r.key) => Names(r.key, r.after.of)')
    BY <1>1, <2>1 DEF RightCopy, Names, There, DraftOf
  <2>. QED
    BY <2>2, <2>4, <2>5 DEF RightCopy
<1>13. ASSUME NEW r, r = cur' PROVE RightCopy(r)'
  <2>1. /\ r.id = cur.id /\ r.type = EntityIssueCreate /\ r.key = real /\ r.after = cur.after
    BY <1>1, <1>2, <1>13 DEF Rows, PendingChange
  <2>2. Own(r)'
    BY <1>1, <1>2, <1>4, <2>1 DEF Own, Names, Hangs, There, DraftOf, LevelAt
  <2>3. NamesTo(cur)
    BY <1>1, <1>2 DEF Meant, RightCopy
  <2>4. NamesTo(r)'
    BY <1>1, <1>2, <2>1, <2>3 DEF NamesTo, Names, There, DraftOf
  <2>. QED
    BY <2>1, <2>2, <2>4 DEF RightCopy
<1>. QED
  BY <1>1, <1>8, <1>9, <1>10, <1>11, <1>12, <1>13 DEF Meant

LEMMA CommitMeant ==
    ASSUME Typed, Drafts, Sent, Meant, CommitStep
    PROVE  Meant'
<1>. USE DEF remote, store
<1>1. ASSUME UNCHANGED <<jira, issue, journal>>, todo' \cup Current' \subseteq todo \cup Current \cup journal
      PROVE  Meant'
  BY <1>1, EngineMeant
<1>2. CASE \E r \in todo : Take(r)
  <2>1. UNCHANGED <<jira, issue, journal>> /\ todo' \cup Current' \subseteq todo \cup Current
    BY <1>2 DEF Take, Hold, Fail, Go, Current
  <2>. QED
    BY <1>1, <2>1
<1>3. CASE Send \/ (Refused /\ Land)
  BY <1>3, SendMeant
<1>4. CASE (Refused /\ UNCHANGED remote) \/ RekeyFails \/ ClearFails \/ RefreshFails \/ NextPhase \/ CommitEnds
  <2>1. UNCHANGED <<jira, issue, journal>> /\ todo' \cup Current' \subseteq todo \cup Current \cup journal
    BY <1>4 DEF Refused, RekeyFails, ClearFails, RefreshFails, NextPhase, CommitEnds, Reload, Done, Current
  <2>. QED
    BY <1>1, <2>1
<1>5. CASE Rekey
  BY <1>5, RekeyMeant
<1>6. CASE MarkCreatedWithoutRekey \/ MarkCommitted
  <2>1. /\ UNCHANGED <<jira, issue, todo>> /\ Current' \subseteq Current
        /\ pc \in {"forget", "clear"} /\ journal' = {s \in journal : s.id # cur.id}
    BY <1>6 DEF MarkCreatedWithoutRekey, MarkCommitted, Done, Delete, Current
  <2>2. ASSUME NEW q \in journal, q.type = EntityIssueCreate, q \notin journal'
        PROVE  \E l \in DOMAIN jira : jira[l].draft = q.id
    <3>1. q.id = cur.id /\ cur \in Current
      BY <2>1, <2>2 DEF Current
    <3>2. cur.type = EntityIssueCreate
      BY <2>2, <3>1 DEF Drafts, Held
    <3>. QED
      BY <2>1, <3>1, <3>2 DEF Drafts, Landed
  <2>. QED
    BY <2>1, <2>2, EngineMeant
<1>7. CASE Refresh
  BY <1>7, RefreshMeant
<1>. QED
  BY <1>2, <1>3, <1>4, <1>5, <1>6, <1>7 DEF CommitStep, Refused

LEMMA MetGrows ==
    ASSUME [Next]_vars
    PROVE  met \subseteq met'
BY DEF Next, UserStep, CreateDraft, EditDraftParent, EditParent, AddLink, DiscardPendingChange, Unguarded,
       FullSync, CommitStart, CommitStep, Take, Send, Refused, Rekey, RekeyFails, MarkCreatedWithoutRekey,
       MarkCommitted, ClearFails, Refresh, RefreshFails, NextPhase, CommitEnds, Crash, vars

LEMMA MeaningSteps ==
    ASSUME Typed, Drafts, Sent, Meaning, [Next]_vars
    PROVE  Meaning'
<1>. SUFFICES ASSUME NotMet({"discard"})' PROVE Meant'
  BY DEF Meaning
<1>1. Meant
  BY MetGrows DEF Meaning, NotMet
<1>2. CASE UserStep
  BY <1>2, UserMeant DEF Drafts, Meaning
<1>3. CASE FullSync
  BY <1>1, <1>3, FullSyncMeant
<1>4. CASE CommitStart \/ Crash
  <2>1. UNCHANGED <<jira, issue, journal>> /\ todo' \cup Current' \subseteq journal
    BY <1>4 DEF CommitStart, Crash, Reload, Current, remote, store
  <2>. QED
    BY <1>1, <2>1, EngineMeant
<1>5. CASE CommitStep
  BY <1>1, <1>5, CommitMeant
<1>6. CASE UNCHANGED vars
  <2>1. UNCHANGED <<jira, issue, journal, todo>> /\ Current' = Current
    BY <1>6 DEF vars, Current
  <2>. QED
    BY <1>1, <2>1, EngineMeant
<1>. QED
  BY <1>2, <1>3, <1>4, <1>5, <1>6 DEF Next

LEMMA InitMeaning == Init => Sent /\ Meaning
<1>. SUFFICES ASSUME Init PROVE Sent /\ Meant
  BY DEF Meaning
<1>1. \A k \in DOMAIN jira : jira[k].draft = -k /\ jira[k].level = Seed[k] /\ k \in Nat
  BY DraftCommitAssumption, LenProperties DEF Init
<1>2. issue = [k \in DOMAIN jira |-> Fresh(k)]
  BY DEF Init
<1>3. \A k \in DOMAIN issue : issue[k].draft = jira[k].draft /\ issue[k].level = jira[k].level /\ ~isDraftKey(k)
  BY <1>1, <1>2 DEF Fresh, isDraftKey
<1>. QED
  BY <1>3 DEF Init, Sent, Meant, Cached, Backed, Current

LEMMA MeaningInvariant == Spec => [](Sent /\ Meaning)
<1>1. Typed /\ Drafts /\ Sent /\ Meaning /\ [Next]_vars => (Sent /\ Meaning)'
  BY SentSteps, MeaningSteps
<1>. QED
  BY <1>1, InitMeaning, TypedInvariant, DraftsInvariant, PTL DEF Spec

\* For any number of drafts, whatever failed and whatever the user drafted,
\* edited or linked during the Commit: the parent and the link ends Commit
\* sends are the issues made of the drafts chosen, unless a draft was discarded.
THEOREM WhatIsSentIsMeant == Spec => []MeantIsSent
<1>1. Typed /\ Sent /\ Meaning => MeantIsSent
  <2>. SUFFICES ASSUME Typed, Sent, Meaning, pc = "send", NotMet({"discard"})
                PROVE  /\ Whose(cur.after.to) = cur.after.meant
                       /\ cur.type # EntityIssueCreate => Whose(cur.key) = cur.after.of
    BY DEF MeantIsSent
  <2>1. RightCopy(cur) /\ ~isDraftKey(cur.after.to) /\ (cur.type # EntityIssueCreate => ~isDraftKey(cur.key))
    BY DEF Meaning, Meant, Current, Sent
  <2>2. None \notin DOMAIN jira
    BY TypedJira DEF JiraFacts, None
  <2>. QED
    BY <2>1, <2>2 DEF RightCopy, NamesTo, Names, There, DraftOf, Whose
<1>. QED
  BY <1>1, MeaningInvariant, TypedInvariant, PTL

\* The same for what is still pending: every draft a row is of, or names, is
\* cached, and either its create row is pending or Jira has its issue.
THEOREM NothingPendingDangles == Spec => []NoDanglingReference
<1>1. Typed /\ Meaning => NoDanglingReference
  <2>. SUFFICES ASSUME Typed, Meant, NEW r \in journal, NEW k \in {r.key, r.after.to}, isDraftKey(k)
                PROVE  /\ k \in DOMAIN issue
                       /\ CreateRows(k) # {} \/ \E l \in DOMAIN jira : jira[l].draft = issue[k].draft
    BY DEF Meaning, NoDanglingReference
  <2>1. Right(r) /\ k # None
    BY DEF Meant, isDraftKey, None
  <2>2. There(k)
    BY <2>1 DEF Right, NamesTo, Own, Names
  <2>. QED
    BY <2>2 DEF There, Meant, Backed
<1>. QED
  BY <1>1, MeaningInvariant, TypedInvariant, PTL
-----------------------------------------------------------------------------
\* The phase a row is of.
PhaseOf(r) ==
    IF r.type = EntityIssueCreate THEN r.after.level ELSE IF r.type = EntityIssue THEN 4 ELSE 5

\* A row this Commit has done with: it was answered with an error, or it
\* names a draft that was, or that nothing creates any more.
Settled(r) ==
    \/ r.id \in failed
    \/ \E k \in Waits(r) : k \in blocked \/ (isDraftKey(k) /\ CreateRows(k) = {})

\* The row the Commit is at, until it has gone from the journal.
Taken(r) == pc \in {"send", "rekey", "forget", "clear"} /\ r = cur

\* The rows a phase holds are the journal's, and of this phase.
Untouched ==
    /\ todo \subseteq journal
    /\ pc \in {"send", "rekey", "forget", "clear"} => cur \in journal
    /\ \A r \in todo \cup Current : PhaseOf(r) = phase
    /\ IF pc = "idle" THEN todo = {} ELSE phase \in Phases

\* A draft whose phase is over, and that is still one, blocks its key.
HeldBack ==
    \A q \in journal : q.type = EntityIssueCreate /\ isDraftKey(q.key) =>
        /\ q.after.level < phase => q.key \in blocked
        /\ q.after.level = phase => \/ q.key \in blocked \/ q \in todo
                                    \/ pc \in {"send", "rekey", "forget"} /\ q = cur

\* A draft that blocks its key is not sent.
Blocks ==
    /\ pc = "forget" => cur.key \in blocked
    /\ \A q \in journal : q.type = EntityIssueCreate /\ q.key \in blocked =>
          q.after.level <= phase /\ q \notin todo /\ ~(pc \in {"send", "rekey"} /\ q = cur)

\* Every row of the phases so far was settled, or its turn has not come.
Settling ==
    \A r \in journal : PhaseOf(r) <= phase =>
        Settled(r) \/ (PhaseOf(r) = phase /\ (r \in todo \/ Taken(r)))

Ordered == Untouched /\ (pc # "idle" => HeldBack /\ Blocks /\ Settling)

Order == NotMet({"overlap", "discard"}) => Ordered

-----------------------------------------------------------------------------
LEMMA RowPhase ==
    ASSUME Typed, NEW r \in journal \cup todo \cup Current
    PROVE  /\ PhaseOf(r) \in Phases /\ \A p \in Nat : InPhase(r, p) <=> PhaseOf(r) = p
           /\ IF r.type = EntityIssueCreate
              THEN r.after.level \in Levels /\ PhaseOf(r) = r.after.level /\ PhaseOf(r) \in 1..3
                   /\ Waits(r) = {r.after.to}
              ELSE PhaseOf(r) \in 4..5
           /\ r.after.to \in Waits(r)
<1>1. r.type \in {EntityIssueCreate, EntityIssue, EntityLink} /\ Fit(r)
  BY RowKeys DEF Typed, KnownKeys
<1>. QED
  BY <1>1 DEF PhaseOf, InPhase, levelOf, Phases, Fit, Levels, Epic, Issue, Subtask, Waits,
              EntityIssueCreate, EntityIssue, EntityLink

\* A draft has one create row.
LEMMA OneCreateRow ==
    ASSUME Typed, NEW q \in journal, NEW r \in journal,
           q.type = EntityIssueCreate, r.type = EntityIssueCreate, q.key = r.key
    PROVE  q = r
BY DEF Typed, TypeOK, KnownKeys, Known, WellKeyed

\* What a row of this phase waits for is blocked, or will not be created: the
\* phases of the drafts it may name are over.
LEMMA NothingToCome ==
    ASSUME Typed, Meant, Untouched, HeldBack, NEW r \in todo, NEW k \in Waits(r), isDraftKey(k), k \notin blocked
    PROVE  CreateRows(k) = {}
<1>. SUFFICES ASSUME NEW q \in CreateRows(k) PROVE FALSE
  OBVIOUS
<1>1. q \in journal /\ q.type = EntityIssueCreate /\ q.key = k /\ Hangs(k, q.after.level)
  BY DEF CreateRows, RowsAt, Meant, Right, Own
<1>2. PhaseOf(r) = phase /\ r \in journal /\ Right(r)
  BY DEF Untouched, Meant
<1>3. q.after.level \in 1..3
  BY <1>1, RowPhase
<1>4. q.after.level < phase
  <2>1. CASE r.type = EntityIssueCreate
    <3>1. k = r.after.to /\ k # None /\ r.after.level = phase /\ phase \in 1..3
      BY <1>2, <2>1, RowPhase DEF isDraftKey, None
    <3>2. Hangs(k, phase - 1)
      BY <1>2, <2>1, <3>1 DEF Right
    <3>. QED
      BY <1>1, <1>3, <3>1, <3>2 DEF Hangs
  <2>2. CASE r.type # EntityIssueCreate
    <3>1. phase \in 4..5
      BY <1>2, <2>2, RowPhase
    <3>. QED
      BY <1>3, <3>1
  <2>. QED
    BY <2>1, <2>2
<1>. QED
  BY <1>1, <1>4 DEF HeldBack

LEMMA SettledStays ==
    ASSUME journal' \subseteq journal, blocked \subseteq blocked', failed \subseteq failed', NEW r, Settled(r)
    PROVE  Settled(r)'
<1>1. \A k : CreateRows(k) = {} => CreateRows(k)' = {}
  BY DEF CreateRows, RowsAt
<1>2. Waits(r)' = Waits(r)
  BY DEF Waits
<1>. QED
  BY <1>1, <1>2 DEF Settled

-----------------------------------------------------------------------------
\* A phase starts with the rows that are its own.
LEMMA ReloadOrdered ==
    ASSUME Typed, Ordered, CommitStart \/ NextPhase
    PROVE  Ordered'
<1>1. PICK p \in Phases : /\ phase' = p /\ todo' = {r \in journal : InPhase(r, p)} /\ pc' = "next" /\ UNCHANGED journal
                          /\ \/ pc = "idle" /\ p = 1 /\ blocked' = {}
                             \/ pc = "next" /\ todo = {} /\ p = phase + 1 /\ UNCHANGED <<blocked, failed>>
  BY DEF CommitStart, NextPhase, Reload, store, Phases
<1>2. \A r \in journal : PhaseOf(r) \in Phases /\ (r \in todo' <=> PhaseOf(r) = p)
  BY <1>1, RowPhase DEF Phases
<1>3. Untouched'
  BY <1>1, <1>2 DEF Untouched, Current, PhaseOf
<1>4. \A q \in journal : q.type = EntityIssueCreate => PhaseOf(q) = q.after.level
  BY DEF PhaseOf
<1>5. CASE pc = "idle"
  <2>1. HeldBack'
    BY <1>1, <1>2, <1>4, <1>5 DEF HeldBack, Phases
  <2>2. Blocks'
    BY <1>1, <1>5 DEF Blocks
  <2>3. Settling'
    BY <1>1, <1>2, <1>5 DEF Settling, Phases, PhaseOf
  <2>. QED
    BY <1>3, <2>1, <2>2, <2>3 DEF Ordered
<1>6. CASE pc = "next"
  <2>1. phase \in Phases /\ p = phase + 1 /\ todo = {} /\ UNCHANGED <<blocked, failed>>
    BY <1>1, <1>6 DEF Ordered, Untouched
  <2>2. HeldBack'
    BY <1>1, <1>2, <1>4, <1>6, <2>1 DEF HeldBack, Phases, Ordered
  <2>3. Blocks'
    BY <1>1, <1>2, <1>4, <1>6, <2>1 DEF Blocks, Phases, Ordered
  <2>4. \A r \in journal : Settled(r) => Settled(r)'
    BY <1>1, <2>1, SettledStays
  <2>5. \A r \in journal : PhaseOf(r)' = PhaseOf(r)
    BY DEF PhaseOf
  <2>6. Settling'
    BY <1>1, <1>2, <1>6, <2>1, <2>4, <2>5 DEF Settling, Taken, Phases, Ordered
  <2>. QED
    BY <1>3, <2>2, <2>3, <2>6 DEF Ordered
<1>. QED
  BY <1>1, <1>5, <1>6

LEMMA TakeOrdered ==
    ASSUME Typed, Meant, Ordered, NEW r \in todo, Take(r)
    PROVE  Ordered'
<1>1. /\ pc = "next" /\ todo' = todo \ {r} /\ UNCHANGED <<journal, phase, failed>>
      /\ (Left(r) /\ UNCHANGED <<pc, cur, blocked>>) \/ Hold(r) \/ Fail(r) \/ Go(r)
  BY DEF Take, store
<1>2. Untouched /\ HeldBack /\ Blocks /\ Settling /\ phase \in Phases
  BY <1>1 DEF Ordered, Untouched
<1>3. r \in journal /\ PhaseOf(r) = phase
  BY <1>2 DEF Untouched
<1>4. \/ pc' = "next" /\ cur' = cur /\ Current' = {}
      \/ pc' = "send" /\ cur' = r /\ Current' = {r} /\ Go(r)
  BY <1>1 DEF Hold, Fail, Go, Current
<1>5. Untouched'
  BY <1>1, <1>2, <1>3, <1>4 DEF Untouched, PhaseOf
<1>6. /\ blocked \subseteq blocked' /\ blocked' \subseteq blocked \cup {r.key}
      /\ blocked' # blocked => pc' = "next" /\ (r.type = EntityIssueCreate \/ isDraftKey(r.key))
  BY <1>1 DEF Hold, Fail, Go
<1>7. r.type = EntityIssueCreate /\ isDraftKey(r.key) => r.key \in blocked' \/ (pc' = "send" /\ cur' = r)
  BY <1>1 DEF Hold, Fail, Go, Left, EntityLink, EntityIssueCreate
<1>8. HeldBack'
  BY <1>1, <1>2, <1>6, <1>7 DEF HeldBack
<1>9. Blocks'
  <2>. SUFFICES ASSUME NEW q \in journal, q.type = EntityIssueCreate, q.key \in blocked'
                PROVE  q.after.level <= phase /\ q \notin todo' /\ ~(pc' \in {"send", "rekey"} /\ q = cur')
    BY <1>1, <1>4 DEF Blocks
  <2>1. CASE q.key \in blocked
    BY <1>1, <1>2, <1>4, <2>1 DEF Blocks
  <2>2. CASE q.key \notin blocked /\ r.type = EntityIssueCreate
    <3>1. q = r /\ pc' = "next"
      BY <1>3, <1>6, <2>2, OneCreateRow
    <3>2. q.after.level = phase /\ phase \in Int
      BY <1>2, <1>3, <2>2, <3>1 DEF PhaseOf, Phases
    <3>. QED
      BY <1>1, <3>1, <3>2
  <2>3. CASE q.key \notin blocked /\ r.type # EntityIssueCreate
    <3>1. phase \in 4..5 /\ pc' = "next"
      BY <1>3, <1>6, <2>3, RowPhase
    <3>2. PhaseOf(q) = q.after.level /\ q.after.level \in 1..3
      BY RowPhase
    <3>3. q \notin todo
      BY <1>2, <3>1, <3>2 DEF Untouched
    <3>. QED
      BY <1>1, <3>1, <3>2, <3>3
  <2>. QED
    BY <2>1, <2>2, <2>3
<1>10. Settled(r)' \/ Taken(r)'
  <2>1. CASE Go(r)
    BY <2>1 DEF Go, Taken
  <2>2. CASE Hold(r)
    BY <1>6, <2>2 DEF Hold, Settled, Waits
  <2>3. ASSUME NEW k \in Waits(r), isDraftKey(k), k \notin blocked PROVE Settled(r)'
    <3>1. CreateRows(k) = {}
      BY <1>2, <2>3, NothingToCome
    <3>2. CreateRows(k)' = {} /\ k \in Waits(r)'
      BY <1>1, <2>3, <3>1 DEF CreateRows, Waits
    <3>. QED
      BY <2>3, <3>2 DEF Settled
  <2>4. CASE Fail(r)
    <3>1. r.after.to \in Waits(r) /\ isDraftKey(r.after.to) /\ r.after.to \notin blocked
      BY <2>4 DEF Fail, Waits
    <3>. QED
      BY <2>3, <3>1
  <2>5. CASE Left(r)
    <3>1. r.key \in Waits(r) /\ isDraftKey(r.key) /\ r.key \notin blocked
      BY <2>5 DEF Left, Waits
    <3>. QED
      BY <2>3, <3>1
  <2>. QED
    BY <1>1, <2>1, <2>2, <2>4, <2>5
<1>11. Settling'
  <2>1. \A q \in journal : Settled(q) => Settled(q)'
    BY <1>1, <1>6, SettledStays
  <2>2. \A q \in journal : ~Taken(q) /\ PhaseOf(q)' = PhaseOf(q)
    BY <1>1 DEF Taken, PhaseOf
  <2>. QED
    BY <1>1, <1>2, <1>3, <1>10, <2>1, <2>2 DEF Settling
<1>. QED
  BY <1>5, <1>8, <1>9, <1>11 DEF Ordered
-----------------------------------------------------------------------------
\* A step at the row the Commit is at: the row goes on, or it has gone from
\* the journal, or it is reported, and a draft not created blocks its key.
LEMMA RowOrdered ==
    ASSUME Typed, Drafts, Ordered, pc \notin {"idle", "next"}, pc' \notin {"idle", "send"},
           UNCHANGED <<phase, todo>>,
           \/ UNCHANGED journal
           \/ pc \in {"forget", "clear"} /\ journal' = Delete(journal, {cur.id}) /\ pc' \in {"next", "refresh"},
           failed \subseteq failed', blocked \subseteq blocked',
           blocked' # blocked =>
              pc' \in {"next", "forget"} /\ cur.type = EntityIssueCreate /\ blocked' = blocked \cup {cur.key}
                 /\ pc \in {"send", "rekey"},
           pc' # "next" => cur' = cur /\ (pc' # "refresh" => pc # "refresh"),
           pc' = "rekey" => pc = "send" /\ cur.type = EntityIssueCreate,
           pc' = "forget" => cur.key \in blocked',
           pc \in {"send", "rekey", "forget"} /\ cur.type = EntityIssueCreate /\ cur \in journal' =>
              pc' \in {"rekey", "forget"} \/ cur.key \in blocked',
           pc \in {"send", "rekey", "forget", "clear"} /\ cur \in journal' =>
              pc' \in {"rekey", "forget", "clear"} \/ cur.id \in failed'
    PROVE  Ordered'
<1>1. Untouched /\ HeldBack /\ Blocks /\ Settling /\ journal' \subseteq journal
  BY DEF Ordered, Delete
<1>2. Current = {cur} /\ PhaseOf(cur) = phase /\ phase \in Phases /\ todo \subseteq journal
  BY <1>1 DEF Current, Untouched
<1>3. \A r \in todo : r.id # cur.id
  BY <1>2 DEF Drafts, Held, Numbered
<1>4. pc # "refresh" => cur \in journal
  BY <1>1, RowKeys DEF Untouched, Typed, TypeOK
<1>5. todo \subseteq journal'
  BY <1>2, <1>3 DEF Delete
<1>6. Untouched'
  BY <1>1, <1>2, <1>4, <1>5 DEF Untouched, PhaseOf, Current
<1>7. HeldBack'
  BY <1>1, <1>4 DEF HeldBack
<1>8. Blocks'
  <2>. SUFFICES ASSUME NEW q \in journal, q.type = EntityIssueCreate, q.key \in blocked'
                PROVE  q.after.level <= phase /\ q \notin todo /\ ~(pc' \in {"send", "rekey"} /\ q = cur')
    BY <1>1 DEF Blocks
  <2>1. CASE q.key \in blocked
    BY <1>1, <2>1 DEF Blocks
  <2>2. CASE q.key \notin blocked
    <3>1. q = cur
      BY <1>4, <2>2, OneCreateRow
    <3>2. q.after.level = phase /\ phase \in Int
      BY <1>2, <3>1 DEF PhaseOf, Phases
    <3>. QED
      BY <1>3, <2>2, <3>1, <3>2
  <2>. QED
    BY <2>1, <2>2
<1>9. Settling'
  <2>1. \A q \in journal : (Settled(q) => Settled(q)') /\ PhaseOf(q)' = PhaseOf(q)
    BY <1>1, SettledStays DEF PhaseOf
  <2>2. \A q \in journal' : Taken(q) => Settled(q)' \/ Taken(q)'
    BY DEF Taken, Settled
  <2>. QED
    BY <1>1, <2>1, <2>2 DEF Settling
<1>. QED
  BY <1>6, <1>7, <1>8, <1>9 DEF Ordered

\* Rekey renames no row of the phase but the one it is at: the others of the
\* phase are of the same level, and name drafts of the level above.
LEMMA RekeyOrdered ==
    ASSUME Typed, Drafts, Sent, Meant, Ordered, Rekey
    PROVE  Ordered'
<1>0. PICK from \in Keys : from = cur.key
  BY DEF Rekey, Typed, TypeOK, Rows, PendingChange
<1>00. PICK real \in Keys : real = Len(jira)
  BY RealIsNew DEF Rekey
<1>1. /\ pc = "rekey" /\ pc' = "clear" /\ UNCHANGED <<phase, todo, blocked, failed>>
      /\ journal' = Renamed(journal, from, real)
      /\ Current = {cur} /\ Current' = {cur'} /\ cur' = [cur EXCEPT !.key = real]
  BY <1>0, <1>00 DEF Rekey, Current
<1>2. Untouched /\ HeldBack /\ Blocks /\ Settling /\ cur \in journal /\ cur.type = EntityIssueCreate
  BY <1>1 DEF Ordered, Untouched, Drafts, Landed
<1>3. cur.after.level = phase /\ phase \in 1..3 /\ Hangs(from, phase)
  <2>1. PhaseOf(cur) = phase /\ RightCopy(cur)
    BY <1>1, <1>2 DEF Untouched, Meant
  <2>. QED
    BY <1>0, <1>2, <2>1, RowPhase DEF RightCopy, Own
<1>4. \A r \in journal : r.type = EntityIssueCreate /\ r.key = from => r = cur
  BY <1>0, <1>2, OneCreateRow
<1>5. from # None
  BY <1>3, TypedJira DEF Hangs, There, None, isDraftKey, JiraFacts
<1>6. ASSUME NEW r \in journal, r.type = EntityIssueCreate, r.after.level = phase
      PROVE  r.after.to # from
  BY <1>3, <1>5, <1>6 DEF Meant, Right, Hangs
<1>7. \A r \in journal : r \in Rows /\ r.id \in Nat
  BY RowKeys
<1>8. \A r \in todo : r.id # cur.id /\ r # cur
  BY <1>1 DEF Drafts, Held, Numbered
<1>9. ASSUME NEW r \in todo PROVE r \in journal /\ Repointed(r, from, real) = r
  <2>1. r \in journal /\ PhaseOf(r) = phase
    BY <1>2 DEF Untouched
  <2>2. r.type = EntityIssueCreate /\ r.after.level = phase
    BY <1>3, <2>1, RowPhase
  <2>3. r.key # from /\ r.after.to # from
    BY <1>4, <1>6, <1>8, <2>1, <2>2
  <2>. QED
    BY <1>7, <2>1, <2>2, <2>3 DEF Repointed, Rows, PendingChange, Ask, EntityIssueCreate, EntityLink
<1>10. Repointed(cur, from, real) = cur'
  <2>1. cur.after.to # from /\ cur.key = from
    BY <1>0, <1>2, <1>3, <1>6
  <2>. QED
    BY <1>1, <1>2, <1>7, <2>1 DEF Repointed, Rows, PendingChange, Ask, EntityIssueCreate, EntityLink
<1>11. journal' = {Repointed(r, from, real) : r \in journal}
  <2>1. journal \in SUBSET Rows
    BY DEF Typed, TypeOK
  <2>. QED
    BY <1>1, <2>1, RenamedIs
<1>12. \A r : /\ Repointed(r, from, real).id = r.id /\ Repointed(r, from, real).type = r.type
              /\ Repointed(r, from, real).after.level = r.after.level
              /\ Repointed(r, from, real).key = (IF r.key = from THEN real ELSE r.key)
              /\ Repointed(r, from, real).after.to = (IF r.after.to = from THEN real ELSE r.after.to)
  BY DEF Repointed
<1>13. ~isDraftKey(real)
  BY <1>00, <1>1, RealIsNew
<1>14. todo \subseteq journal' /\ cur' \in journal' /\ cur'.id = cur.id /\ cur'.type = cur.type /\ cur'.after.level = cur.after.level
  BY <1>2, <1>9, <1>10, <1>11, <1>12
<1>15. ASSUME NEW r \in journal, Repointed(r, from, real) \in todo PROVE r \in todo
  <2>1. PICK t \in todo : t = Repointed(r, from, real)
    BY <1>15
  <2>2. t.id = r.id /\ t \in journal
    BY <1>9, <1>12, <2>1
  <2>. QED
    BY <2>1, <2>2 DEF Typed, TypeOK, WellKeyed
<1>16. Untouched'
  BY <1>1, <1>2, <1>14 DEF Untouched, PhaseOf
<1>17. HeldBack'
  <2>. SUFFICES ASSUME NEW q \in journal, NEW p, p = Repointed(q, from, real),
                       p.type = EntityIssueCreate, isDraftKey(p.key)
                PROVE  /\ p.after.level < phase => p.key \in blocked
                       /\ p.after.level = phase => p.key \in blocked \/ p \in todo
    BY <1>1, <1>11 DEF HeldBack
  <2>1. q.type = EntityIssueCreate /\ q.key # from /\ p.key = q.key /\ p.after.level = q.after.level
    BY <1>12, <1>13
  <2>2. q # cur /\ isDraftKey(q.key)
    BY <1>0, <2>1
  <2>. QED
    BY <1>2, <1>9, <2>1, <2>2 DEF HeldBack
<1>18. from \notin blocked
  BY <1>0, <1>1, <1>2 DEF Blocks
<1>19. Blocks'
  <2>. SUFFICES ASSUME NEW q \in journal, NEW p, p = Repointed(q, from, real),
                       p.type = EntityIssueCreate, p.key \in blocked
                PROVE  p.after.level <= phase /\ p \notin todo
    BY <1>1, <1>11 DEF Blocks
  <2>1. q.type = EntityIssueCreate /\ p.after.level = q.after.level /\ (p \in todo => q \in todo)
    BY <1>12, <1>15
  <2>2. CASE q.key = from
    BY <1>3, <1>4, <1>8, <2>1, <2>2
  <2>3. CASE q.key # from
    BY <1>2, <1>12, <2>1, <2>3 DEF Blocks
  <2>. QED
    BY <2>2, <2>3
<1>20. Settling'
  <2>. SUFFICES ASSUME NEW r \in journal, NEW p, p = Repointed(r, from, real), PhaseOf(p) <= phase
                PROVE  Settled(p)' \/ (PhaseOf(p) = phase /\ (p \in todo \/ p = cur'))
    BY <1>1, <1>11 DEF Settling, Taken, PhaseOf
  <2>1. PhaseOf(p) = PhaseOf(r)
    BY <1>12 DEF PhaseOf
  <2>2. CASE r \in todo \/ r = cur
    BY <1>2, <1>3, <1>9, <1>10, <2>1, <2>2, RowPhase DEF Untouched
  <2>3. CASE r.id \in failed
    BY <1>1, <1>12, <2>3 DEF Settled
  <2>4. ASSUME NEW k \in Waits(r), k \in blocked \/ (isDraftKey(k) /\ CreateRows(k) = {})
        PROVE  Settled(p)'
    <3>1. cur \in CreateRows(from)
      BY <1>0, <1>2 DEF CreateRows, RowsAt, Typed, KnownKeys, Known
    <3>2. k # from
      BY <1>18, <2>4, <3>1
    <3>3. k \in Waits(p)
      BY <1>12, <3>2 DEF Waits
    <3>4. ASSUME isDraftKey(k), CreateRows(k) = {} PROVE CreateRows(k)' = {}
      <4>. SUFFICES ASSUME NEW q \in journal, NEW n, n = Repointed(q, from, real),
                           n.type = EntityIssueCreate, n.key = k
                    PROVE  FALSE
        BY <1>11 DEF CreateRows, RowsAt
      <4>1. q.type = EntityIssueCreate /\ q.key = k
        BY <1>12, <1>13, <3>4
      <4>2. q.field = None
        BY <4>1 DEF Typed, KnownKeys, Known
      <4>. QED
        BY <3>4, <4>1, <4>2 DEF CreateRows, RowsAt
    <3>5. k \in Waits(p)'
      BY <3>3 DEF Waits
    <3>. QED
      BY <1>1, <2>4, <3>4, <3>5 DEF Settled
  <2>. QED
    BY <1>1, <1>2, <2>1, <2>2, <2>3, <2>4 DEF Settling, Settled, Taken
<1>. QED
  BY <1>1, <1>16, <1>17, <1>19, <1>20 DEF Ordered

LEMMA CommitOrdered ==
    ASSUME Typed, Drafts, Sent, Meant, Ordered, CommitStep
    PROVE  Ordered'
<1>. USE DEF store, Done
<1>1. CASE \E r \in todo : Take(r)
  BY <1>1, TakeOrdered
<1>2. CASE Send
  <2>1. cur.type = EntityIssueCreate <=> pc' = "rekey"
    BY <1>2 DEF Send
  <2>. QED
    BY <1>2, <2>1, RowOrdered DEF Send
<1>3. CASE Refused
  BY <1>3, RowOrdered DEF Refused
<1>4. CASE Rekey
  BY <1>4, RekeyOrdered
<1>5. CASE RekeyFails
  <2>1. cur.type = EntityIssueCreate
    BY <1>5 DEF RekeyFails, Drafts, Landed
  <2>. QED
    BY <1>5, <2>1, RowOrdered DEF RekeyFails
<1>6. CASE MarkCreatedWithoutRekey \/ MarkCommitted
  <2>1. cur \notin Delete(journal, {cur.id})
    BY DEF Delete
  <2>. QED
    BY <1>6, <2>1, RowOrdered DEF MarkCreatedWithoutRekey, MarkCommitted
<1>7. CASE ClearFails
  <2>1. pc = "forget" => cur.key \in blocked
    BY <1>7 DEF ClearFails, Ordered, Blocks
  <2>. QED
    BY <1>7, <2>1, RowOrdered DEF ClearFails
<1>8. CASE Refresh \/ RefreshFails
  BY <1>8, RowOrdered DEF Refresh, RefreshFails
<1>9. CASE NextPhase
  BY <1>9, ReloadOrdered
<1>10. CASE CommitEnds
  BY <1>10 DEF CommitEnds, Ordered, Untouched, Current
<1>. QED
  BY <1>1, <1>2, <1>3, <1>4, <1>5, <1>6, <1>7, <1>8, <1>9, <1>10 DEF CommitStep

LEMMA OrderSteps ==
    ASSUME Typed, Drafts, Sent, Meaning, Order, [Next]_vars
    PROVE  Order'
<1>. SUFFICES ASSUME NotMet({"overlap", "discard"})' PROVE Ordered'
  BY DEF Order
<1>1. Ordered /\ Meant
  BY MetGrows DEF Order, Meaning, NotMet
<1>2. ASSUME pc' = "idle", todo' = {} PROVE Ordered'
  BY <1>2 DEF Ordered, Untouched, Current
<1>3. CASE UserStep
  <2>1. pc = "idle" /\ UNCHANGED engine
    BY <1>3 DEF UserStep, CreateDraft, EditDraftParent, EditParent, AddLink, DiscardPendingChange, Unguarded, NotMet
  <2>. QED
    BY <1>1, <1>2, <2>1 DEF engine, Ordered, Untouched
<1>4. CASE FullSync \/ Crash
  BY <1>1, <1>2, <1>4 DEF FullSync, Crash, engine, Ordered, Untouched
<1>5. CASE CommitStart
  BY <1>1, <1>5, ReloadOrdered
<1>6. CASE CommitStep
  BY <1>1, <1>6, CommitOrdered
<1>7. CASE UNCHANGED vars
  <2>1. UNCHANGED <<journal, pc, phase, todo, cur, blocked, failed>>
    BY <1>7 DEF vars
  <2>. QED
    BY <1>1, <2>1 DEF Ordered, Untouched, HeldBack, Blocks, Settling, Settled, Taken, Waits, CreateRows, Current, PhaseOf
<1>. QED
  BY <1>3, <1>4, <1>5, <1>6, <1>7 DEF Next

LEMMA OrderInvariant == Spec => []Order
<1>1. Init => Order
  BY DEF Init, Order, Ordered, Untouched, Current
<1>2. Typed /\ Drafts /\ Sent /\ Meaning /\ Order /\ [Next]_vars => Order'
  BY OrderSteps
<1>. QED
  BY <1>1, <1>2, TypedInvariant, DraftsInvariant, MeaningInvariant, PTL DEF Spec

\* For any number of drafts, chains and links, in any order and whatever call
\* fails: a row Commit reports as hopeless names a draft nothing will create,
\* and a Commit that runs to its end leaves only rows answered with an error
\* or naming a draft that was, or that is no more to be created.
THEOREM OnlyWhatFailedIsLeft == Spec => CommitLeavesOnlyWhatFailed
<1>1. ASSUME Typed, Meaning, Order, NotMet({"overlap", "discard"})
      PROVE  HopelessIsHopeless /\ RestFailed
  <2>1. Ordered /\ Meant
    BY <1>1 DEF Order, Meaning, NotMet
  <2>2. ASSUME NEW r \in todo, Take(r), Fail(r) PROVE CreateRows(r.after.to) = {}
    <3>1. pc = "next" /\ isDraftKey(r.after.to) /\ r.after.to \in Waits(r) /\ r.after.to \notin blocked
      BY <2>2 DEF Take, Fail, Waits
    <3>. QED
      BY <1>1, <2>1, <2>2, <3>1, NothingToCome DEF Ordered
  <2>3. ASSUME phase = 5, pc = "next", todo = {}, NEW r \in journal PROVE Settled(r)
    BY <1>1, <2>1, <2>3, RowPhase DEF Ordered, Settling, Taken, Phases
  <2>. QED
    BY <2>2, <2>3 DEF HopelessIsHopeless, RestFailed, Settled
<1>2. Typed /\ Meaning /\ Order /\ [Next]_vars =>
         (NotMet({"overlap", "discard"}) => HopelessIsHopeless /\ RestFailed)
  BY <1>1
<1>. QED
  BY <1>2, TypedInvariant, MeaningInvariant, OrderInvariant, PTL DEF Spec, CommitLeavesOnlyWhatFailed
=============================================================================
