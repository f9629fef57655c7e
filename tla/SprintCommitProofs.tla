------------------------- MODULE SprintCommitProofs -------------------------
(***************************************************************************)
(* What SprintCommit promises for every set of cards and sprints: its      *)
(* types; that a completion moves the unfinished cards of its sprint and   *)
(* no others, but for what is touched while it runs, under every           *)
(* disturbance; that every placeholder is resolved,                        *)
(* unless a card is dropped on a draft that is gone; and that only an idle *)
(* sprint is deleted, unless it is started between TAM's reading of its    *)
(* state and the deletion.                                                 *)
(***************************************************************************)
EXTENDS SprintCommit, JournalProofs, FiniteSetTheorems

-----------------------------------------------------------------------------
\* The invariant, in parts.

\* A row names what its type is about, and no sprint Jira has yet to make.
RowOK(r) ==
    /\ r.field = r.type
    /\ r.type = EntitySprintCreate => r.key \in Drafts
    /\ r.type \in {EntitySprintStart, EntitySprintDelete} => r.key <= born
    /\ r.type = EntitySprintComplete => r.key \in Real /\ r.after # r.key
    /\ r.type = EntitySprintDelete => r.key \in Real
    /\ r.type \in MoveTypes => r.key \in Cards
    /\ r.type = EntitySprintMove => r.after <= born
RowsOK == \A r \in journal \cup todo \cup doing : RowOK(r)

\* What the phase under way is about.
PhaseOK ==
    /\ doing = {} \/ \E r \in doing : doing = {r}
    /\ pc \in {"idle", "creates", "changes", "moves"} => doing = {}
    /\ pc \in {"creates", "rekey", "forget"} => \A r \in todo \cup doing : r.type = EntitySprintCreate
    /\ pc = "moving" => \A r \in doing : r.type = EntitySprintComplete
    /\ pc = "delete" => \A r \in doing : r.type = EntitySprintDelete
    /\ pc = "rekey" => /\ made \in Real /\ made = born
                       /\ \A p \in journal : p.type = EntitySprintStart => p.key # made

\* Neither Jira nor the cache has a sprint that is yet to be made.
SprintsOK == \A i \in Real : i > born => cached[i] = "none" /\ sprint[i] = "none"

Shape == TypeOK /\ RowsOK /\ PhaseOK /\ SprintsOK

\* What a completion has still to move is what it would leave behind, is what
\* it may carry off, and is not finished on the board; but for what was
\* touched since it read the sprint.
Emptying ==
    pc = "moving" => \A r \in doing :
        /\ \A c \in Cards \ finished : place[c] = r.key => c \in unsent \cup disturbed
        /\ \A c \in unsent : MayCarry(c, r.key) \/ c \in disturbed
        /\ \A c \in unsent : column[c] = r.key /\ Queued(EntityTransition, c) => c \in disturbed

\* A dragged card is drawn where it was dropped, or its sprint is gone.
Shown ==
    \A p \in journal : p.type = EntitySprintMove =>
        \/ column[p.key] = p.after
        \/ p.after \in Real /\ sprint[p.after] = "none"

\* The sprint a delete is about to take is idle, unless it was started since
\* TAM read it; and a delete that is settled took its sprint.
Doomed ==
    /\ pc = "delete" => \A r \in doing :
          /\ "race" \notin Env => sprint[r.key] = "future"
          /\ \A p \in journal : p.type = EntitySprintMove /\ p.after = r.key => p.key \in disturbed
    /\ pc = "settle" => \A r \in doing : r.type = EntitySprintDelete => sprint[r.key] = "none"

\* Drafts are handed out downwards, and what was made was drafted before.
Ordered ==
    /\ \A r \in journal \cup todo : r.type = EntitySprintCreate => lowest <= r.key
    /\ \A m \in makes : lowest <= m[1]

\* An id a phase has read is not handed out again; what is settled is a change
\* of a sprint, and the board moves take moves.
RowsAreOld ==
    /\ \A r \in todo \cup doing :
          r.id < nextId /\ \A p \in journal : p.id = r.id => p.type = r.type
    /\ pc = "settle" => \A r \in doing : r.type \in WriteTypes
    /\ pc = "moves" => \A r \in todo : r.type \in MoveTypes

\* A draft that is drawn has its row.
DraftsDrawn == \A d \in Drafts : cached[d] # "none" => Queued(EntitySprintCreate, d)

\* NoneLingers, where only a create keeps a made draft's row.
Making ==
    \A m \in makes : Queued(EntitySprintCreate, m[1]) =>
        m[1] \in unknown \/ \E r \in doing : r.type = EntitySprintCreate /\ r.key = m[1]

-----------------------------------------------------------------------------
\* The numbers and the kinds of rows.

LEMMA Numbers ==
    /\ MaxSprints \in Nat /\ MaxDrafts \in Nat /\ MaxActs \in Nat /\ Held \in 0..MaxSprints
    /\ \A i \in Real : i \in Nat /\ 0 < i /\ i <= MaxSprints /\ i # Backlog
    /\ \A d \in Drafts : d \in Int /\ d < 0 /\ -MaxDrafts <= d /\ d \notin Real /\ d # Backlog
    /\ Real \subseteq Ids /\ Drafts \subseteq Ids /\ Backlog \in Ids /\ Ids \subseteq Int
    /\ 0 \in Ids /\ Backlog = 0 /\ Cards \subseteq Nat /\ Backlog \notin Real
    /\ \A i \in Int : i \in Drafts <=> -MaxDrafts <= i /\ i < 0
    /\ \A i \in Int : i \in Real <=> 0 < i /\ i <= MaxSprints
BY SprintCommitAssumption DEF Real, Drafts, Ids, Backlog

LEMMA Kinds ==
    /\ WriteTypes = {EntitySprintStart, EntitySprintComplete, EntitySprintDelete}
    /\ MoveTypes = {EntitySprintMove, EntityTransition}
    /\ Types = WriteTypes \cup MoveTypes \cup {EntitySprintCreate}
    /\ EntitySprintCreate \notin WriteTypes \cup MoveTypes
    /\ WriteTypes \cap MoveTypes = {}
    /\ EntitySprintStart \notin {EntitySprintComplete, EntitySprintDelete}
    /\ EntitySprintComplete # EntitySprintDelete /\ EntitySprintMove # EntityTransition
<1>1. DOMAIN SprintWrites = {1, 2, 3} /\ SprintWrites[1] = EntitySprintStart
      /\ SprintWrites[2] = EntitySprintComplete /\ SprintWrites[3] = EntitySprintDelete
  BY DEF SprintWrites
<1>2. WriteTypes = {EntitySprintStart, EntitySprintComplete, EntitySprintDelete}
  BY <1>1 DEF WriteTypes
<1>. QED
  BY <1>2 DEF MoveTypes, Types, EntitySprintCreate, EntitySprintStart, EntitySprintComplete,
              EntitySprintDelete, EntitySprintMove, EntityTransition

LEMMA RowFacts ==
    ASSUME NEW r \in Row
    PROVE  /\ r.id \in Nat /\ r.type \in Types /\ r.field \in Types /\ r.key \in Int
           /\ r.before \in Ids /\ r.after \in Ids /\ r.after \in Int /\ r.key \in Ids \cup Cards
<1>1. /\ r.id \in Nat /\ r.type \in Types /\ r.field \in Types /\ r.key \in Ids \cup Cards
      /\ r.before \in Ids /\ r.after \in Ids
  BY DEF Row, PendingChange
<1>2. r.after \in Int
  BY <1>1, Numbers
<1>3. Ids \subseteq Int /\ Cards \subseteq Int
  BY Numbers
<1>4. r.key \in Int
  BY <1>1, <1>3
<1>. QED
  BY <1>1, <1>2, <1>4

\* What is renamed of a row is a row at the same place.
Repointed(r, from, to) ==
    IF r.type = EntitySprintMove
    THEN [r EXCEPT !.before = Named(@, from, to), !.after = Named(@, from, to)] ELSE r

LEMMA RepointedFacts ==
    ASSUME NEW r \in Row, NEW from, NEW to \in Ids, NEW n, n = Repointed(r, from, to)
    PROVE  /\ n \in Row /\ n.id = r.id /\ n.type = r.type /\ n.key = r.key /\ n.field = r.field
           /\ r.type # EntitySprintMove => n = r
           /\ r.type = EntitySprintMove => n.before = Named(r.before, from, to)
                                         /\ n.after = Named(r.after, from, to)
<1>1. CASE r.type # EntitySprintMove
  BY <1>1 DEF Repointed
<1>2. CASE r.type = EntitySprintMove
  <2>1. n = [r EXCEPT !.before = Named(@, from, to), !.after = Named(@, from, to)]
    BY <1>2 DEF Repointed
  <2>2. Named(r.before, from, to) \in Ids /\ Named(r.after, from, to) \in Ids
    BY RowFacts DEF Named
  <2>. QED
    BY <1>2, <2>1, <2>2 DEF Row, PendingChange
<1>. QED
  BY <1>1, <1>2

LEMMA RewrittenFacts ==
    ASSUME NEW rows \in SUBSET Row, NEW from, NEW to \in Ids
    PROVE  /\ RewrittenRows(rows, from, to) \subseteq Row
           /\ \A n \in RewrittenRows(rows, from, to) : \E r \in rows : n = Repointed(r, from, to)
<1>1. RewrittenRows(rows, from, to) = {Repointed(r, from, to) : r \in rows}
  BY DEF RewrittenRows, Repointed
<1>2. \A r \in rows : Repointed(r, from, to) \in Row
  BY RepointedFacts
<1>. QED
  BY <1>1, <1>2

LEMMA RewrittenKeyed ==
    ASSUME NEW rows \in SUBSET Row, WellKeyed(rows), NEW from, NEW to \in Ids
    PROVE  WellKeyed(RewrittenRows(rows, from, to))
<1>. SUFFICES ASSUME NEW m \in RewrittenRows(rows, from, to), NEW n \in RewrittenRows(rows, from, to),
                     \/ m.id = n.id
                     \/ m.type = n.type /\ m.key = n.key /\ m.field = n.field
              PROVE  m = n
  BY DEF WellKeyed
<1>1. PICK r \in rows : m = Repointed(r, from, to)
  BY RewrittenFacts
<1>2. PICK s \in rows : n = Repointed(s, from, to)
  BY RewrittenFacts
<1>3. /\ m.id = r.id /\ m.type = r.type /\ m.key = r.key /\ m.field = r.field
      /\ n.id = s.id /\ n.type = s.type /\ n.key = s.key /\ n.field = s.field
  BY <1>1, <1>2, RepointedFacts
<1>4. r = s
  BY <1>3 DEF WellKeyed
<1>. QED
  BY <1>1, <1>2, <1>4

\* The start of a draft follows it.
Followed(r, d, id) == IF r.type = EntitySprintStart THEN [r EXCEPT !.key = Named(@, d, id)] ELSE r

LEMMA FollowedFacts ==
    ASSUME NEW r \in Row, NEW d, NEW id \in Ids, NEW n, n = Followed(r, d, id)
    PROVE  /\ n \in Row /\ n.id = r.id /\ n.type = r.type /\ n.field = r.field
           /\ n.before = r.before /\ n.after = r.after
           /\ r.type # EntitySprintStart => n = r
           /\ r.type = EntitySprintStart => n.key = Named(r.key, d, id)
<1>1. CASE r.type # EntitySprintStart
  BY <1>1 DEF Followed
<1>2. CASE r.type = EntitySprintStart
  <2>1. n = [r EXCEPT !.key = Named(@, d, id)]
    BY <1>2 DEF Followed
  <2>2. Named(r.key, d, id) \in Ids \cup Cards
    BY RowFacts DEF Named
  <2>. QED
    BY <1>2, <2>1, <2>2 DEF Row, PendingChange
<1>. QED
  BY <1>1, <1>2

\* A renamed journal: every row is a row of the old one that was not the
\* draft's, in its new names.
LEMMA RekeyedFacts ==
    ASSUME NEW rows \in SUBSET Row, NEW d, NEW id \in Ids
    PROVE  /\ Rekeyed(rows, d, id) \subseteq Row
           /\ \A n \in Rekeyed(rows, d, id) : \E r \in rows :
                 /\ ~(r.type = EntitySprintCreate /\ r.key = d)
                 /\ n = Followed(Repointed(r, d, id), d, id)
<1>. DEFINE kept == {r \in rows : ~(r.type = EntitySprintCreate /\ r.key = d)}
            moved == RewrittenRows(kept, d, id)
<1>1. Rekeyed(rows, d, id) = {Followed(r, d, id) : r \in moved}
  BY DEF Rekeyed, Followed
<1>2. kept \in SUBSET Row
  OBVIOUS
<1>. HIDE DEF kept
<1>3. /\ moved \subseteq Row
      /\ \A n \in moved : \E r \in kept : n = Repointed(r, d, id)
  BY <1>2, RewrittenFacts
<1>. HIDE DEF moved
<1>4. \A r \in moved : Followed(r, d, id) \in Row
  BY <1>3, FollowedFacts
<1>. QED
  BY <1>1, <1>3, <1>4 DEF kept

LEMMA RekeyedRow ==
    ASSUME NEW r \in Row, NEW d, NEW id \in Ids, NEW n, n = Followed(Repointed(r, d, id), d, id)
    PROVE  /\ n \in Row /\ n.id = r.id /\ n.type = r.type /\ n.field = r.field
           /\ n.key = IF r.type = EntitySprintStart THEN Named(r.key, d, id) ELSE r.key
           /\ n.after = IF r.type = EntitySprintMove THEN Named(r.after, d, id) ELSE r.after
           /\ n.before = IF r.type = EntitySprintMove THEN Named(r.before, d, id) ELSE r.before
<1>. DEFINE m == Repointed(r, d, id)
<1>1. /\ m \in Row /\ m.id = r.id /\ m.type = r.type /\ m.key = r.key /\ m.field = r.field
      /\ r.type # EntitySprintMove => m = r
      /\ r.type = EntitySprintMove => m.before = Named(r.before, d, id) /\ m.after = Named(r.after, d, id)
  BY RepointedFacts
<1>. HIDE DEF m
<1>2. n = Followed(m, d, id)
  BY DEF m
<1>3. /\ n \in Row /\ n.id = m.id /\ n.type = m.type /\ n.field = m.field
      /\ n.before = m.before /\ n.after = m.after
      /\ m.type # EntitySprintStart => n = m
      /\ m.type = EntitySprintStart => n.key = Named(m.key, d, id)
  BY <1>1, <1>2, FollowedFacts
<1>. QED
  BY <1>1, <1>3, Kinds

\* Where nothing is queued to start the sprint the draft becomes, no place
\* gets two rows.
LEMMA RekeyedKeyed ==
    ASSUME NEW rows \in SUBSET Row, WellKeyed(rows), NEW d, NEW id \in Ids,
           \A r \in rows : r.type = EntitySprintStart => r.key # id
    PROVE  WellKeyed(Rekeyed(rows, d, id))
<1>. SUFFICES ASSUME NEW m \in Rekeyed(rows, d, id), NEW n \in Rekeyed(rows, d, id),
                     \/ m.id = n.id
                     \/ m.type = n.type /\ m.key = n.key /\ m.field = n.field
              PROVE  m = n
  BY DEF WellKeyed
<1>0. \A p \in Rekeyed(rows, d, id) : \E r \in rows :
          /\ ~(r.type = EntitySprintCreate /\ r.key = d)
          /\ p = Followed(Repointed(r, d, id), d, id)
  BY RekeyedFacts
<1>1. PICK r \in rows : m = Followed(Repointed(r, d, id), d, id)
  BY <1>0
<1>2. PICK s \in rows : n = Followed(Repointed(s, d, id), d, id)
  BY <1>0
<1>3. /\ m.id = r.id /\ m.type = r.type /\ m.field = r.field
      /\ m.key = IF r.type = EntitySprintStart THEN Named(r.key, d, id) ELSE r.key
      /\ n.id = s.id /\ n.type = s.type /\ n.field = s.field
      /\ n.key = IF s.type = EntitySprintStart THEN Named(s.key, d, id) ELSE s.key
  BY <1>1, <1>2, RekeyedRow
<1>4. r.id = s.id \/ (r.type = s.type /\ r.key = s.key /\ r.field = s.field)
  BY <1>3 DEF Named
<1>5. r = s
  BY <1>4 DEF WellKeyed
<1>. QED
  BY <1>1, <1>2, <1>5

-----------------------------------------------------------------------------
\* The shape.

LEMMA ShapeAtFirst == ASSUME Init PROVE Shape
<1>1. TypeOK
  <2>1. /\ sprint \in [Real -> States] /\ \A i \in Real : i > Held => sprint[i] = "none"
    <3>1. /\ sprint \in [Real -> States]
          /\ \A i \in Real : sprint[i] \in IF i <= Held THEN {"future", "active"} ELSE {"none"}
      BY DEF Init
    <3>2. \A i \in Real : i > Held => ~(i <= Held)
      BY Numbers
    <3>. QED
      BY <3>1, <3>2
  <2>2. 0..Held \subseteq Real \cup {Backlog}
    BY Numbers DEF Real, Backlog
  <2>3. place \in [Cards -> Real \cup {Backlog}] /\ place \in [Cards -> Ids]
    BY <2>2 DEF Init, Ids
  <2>4. cached \in [Real \cup Drafts -> States]
    BY <2>1 DEF Init, States
  <2>5. Cardinality(doing) <= 1
    BY FS_EmptySet DEF Init
  <2>. QED
    BY <2>1, <2>3, <2>4, <2>5, Numbers DEF Init, TypeOK, WellKeyed
<1>2. RowsOK /\ PhaseOK
  BY DEF Init, RowsOK, PhaseOK
<1>3. SprintsOK
  BY Numbers DEF Init, SprintsOK, Real
<1>. QED
  BY <1>1, <1>2, <1>3 DEF Shape

\* The parts of the type invariant a step of TAM's user can disturb.
Tables ==
    /\ cached \in [Real \cup Drafts -> States] /\ column \in [Cards -> Ids]
    /\ journal \subseteq Row /\ WellKeyed(journal) /\ \A r \in journal : r.id < nextId
    /\ nextId \in Nat \ {0} /\ lowest \in (-MaxDrafts)..0 /\ acts \in 0..MaxActs
    /\ disturbed \subseteq Cards

LEMMA UserShape ==
    ASSUME Shape, UNCHANGED <<jira, commit, history>>, Tables',
           \A r \in journal' : RowOK(r),
           pc = "rekey" => \A p \in journal' : p.type = EntitySprintStart => p.key # made,
           \A i \in Real : i > born => cached'[i] = "none"
    PROVE  Shape'
<1>1. TypeOK'
  BY DEF Shape, Tables, TypeOK, jira, commit, history
<1>2. RowsOK'
  BY DEF Shape, RowsOK, RowOK, commit, jira
<1>3. PhaseOK'
  BY DEF Shape, PhaseOK, commit, jira
<1>4. SprintsOK'
  BY DEF Shape, SprintsOK, jira
<1>. QED
  BY <1>1, <1>2, <1>3, <1>4 DEF Shape

\* What a dialog or a drag puts in the journal.
LEMMA EnqueueShape ==
    ASSUME Shape, NEW type \in Types, NEW key \in Ids \cup Cards, NEW before \in Ids, NEW after \in Ids,
           Enqueue(type, key, before, after),
           RowOK([type |-> type, field |-> type, key |-> key, after |-> after]),
           pc = "rekey" => type # EntitySprintStart
    PROVE  /\ journal' \subseteq Row /\ WellKeyed(journal') /\ \A r \in journal' : r.id < nextId'
           /\ nextId' \in Nat \ {0}
           /\ \A r \in journal' : RowOK(r)
           /\ pc = "rekey" => \A p \in journal' : p.type = EntitySprintStart => p.key # made
<1>. DEFINE n == Put(journal, nextId, type, key, type, before, after, 0)
<1>1. /\ journal \in SUBSET Row /\ WellKeyed(journal) /\ \A r \in journal : r.id < nextId
      /\ nextId \in Nat /\ 0 \in Nat /\ journal' = n /\ nextId' = nextId + 1
  BY DEF Shape, TypeOK, Enqueue
<1>2. n \subseteq Row
  BY <1>1, PutType DEF Row
<1>3. WellKeyed(n)
  BY <1>1, PutWellKeyed DEF Row
<1>4. /\ \A r \in n : r.id < nextId + 1
      /\ \A r \in n : r \in journal \/ (r.type = type /\ r.field = type /\ r.key = key /\ r.after = after)
  BY <1>1, PutRows DEF Row
<1>. HIDE DEF n
<1>5. ASSUME NEW r \in n PROVE RowOK(r)
  <2>1. CASE r \in journal
    BY <2>1 DEF Shape, RowsOK
  <2>2. CASE r.type = type /\ r.field = type /\ r.key = key /\ r.after = after
    BY <2>2 DEF RowOK
  <2>. QED
    BY <1>4, <2>1, <2>2
<1>6. pc = "rekey" => \A p \in n : p.type = EntitySprintStart => p.key # made
  BY <1>4 DEF Shape, PhaseOK
<1>. QED
  BY <1>1, <1>2, <1>3, <1>4, <1>5, <1>6

LEMMA RewrittenIsIds ==
    ASSUME NEW columns \in [Cards -> Ids], NEW from, NEW to \in Ids
    PROVE  RewrittenColumn(columns, from, to) \in [Cards -> Ids]
BY DEF RewrittenColumn, Named

LEMMA FreshIsIds ==
    ASSUME NEW columns \in [Cards -> Ids], NEW rows \in SUBSET Row
    PROVE  Fresh(rows, columns) \in [Cards -> Ids]
<1>1. ASSUME NEW c \in Cards
      PROVE  AfterVal(rows, EntitySprintMove, c, EntitySprintMove, columns[c]) \in Ids
  <2>1. \A r \in RowsAt(rows, EntitySprintMove, c, EntitySprintMove) : r.after \in Ids
    BY RowFacts DEF RowsAt
  <2>. QED
    BY <2>1, AfterValIn
<1>. QED
  BY <1>1 DEF Fresh

LEMMA RevertedIsIds ==
    ASSUME Shape, NEW S \in SUBSET Row
    PROVE  Reverted(S) \in [Cards -> Ids]
<1>1. ASSUME NEW c \in Cards, NEW home \in SUBSET Row
      PROVE  BeforeVal(home, EntitySprintMove, c, EntitySprintMove, column[c]) \in Ids
  <2>1. \A r \in RowsAt(home, EntitySprintMove, c, EntitySprintMove) : r.before \in Ids
    BY RowFacts DEF RowsAt
  <2>2. column[c] \in Ids
    BY DEF Shape, TypeOK
  <2>. QED
    BY <2>1, <2>2, BeforeValIn
<1>. QED
  BY <1>1 DEF Reverted

LEMMA RepointedOK ==
    ASSUME NEW r \in Row, RowOK(r), NEW from, NEW to \in Ids, to <= born,
           NEW n, n = Repointed(r, from, to)
    PROVE  RowOK(n)
<1>1. CASE r.type # EntitySprintMove
  BY <1>1, RepointedFacts
<1>2. CASE r.type = EntitySprintMove
  <2>1. /\ n.type = EntitySprintMove /\ n.field = r.field /\ n.key = r.key
        /\ n.after = Named(r.after, from, to)
    BY <1>2, RepointedFacts
  <2>2. n.after <= born
    BY <1>2, <2>1 DEF RowOK, Named
  <2>3. EntitySprintMove \notin WriteTypes \cup {EntitySprintCreate} /\ EntitySprintMove \in MoveTypes
    BY Kinds
  <2>. QED
    BY <1>2, <2>1, <2>2, <2>3, Kinds DEF RowOK
<1>. QED
  BY <1>1, <1>2

\* What is left of the journal when rows go and what names a draft is renamed.
LEMMA RewrittenShape ==
    ASSUME Shape, NEW rows \in SUBSET journal, NEW from, NEW to \in Ids, to <= born,
           NEW n, n = RewrittenRows(rows, from, to)
    PROVE  /\ n \subseteq Row /\ WellKeyed(n) /\ \A r \in n : r.id < nextId
           /\ \A r \in n : RowOK(r)
           /\ pc = "rekey" => \A p \in n : p.type = EntitySprintStart => p.key # made
<1>1. rows \in SUBSET Row /\ WellKeyed(rows) /\ \A r \in rows : r.id < nextId /\ RowOK(r)
  BY SubsetWellKeyed DEF Shape, TypeOK, RowsOK
<1>2. n \subseteq Row /\ \A p \in n : \E r \in rows : p = Repointed(r, from, to)
  BY <1>1, RewrittenFacts
<1>3. WellKeyed(n)
  BY <1>1, RewrittenKeyed
<1>4. ASSUME NEW p \in n PROVE p.id < nextId /\ RowOK(p)
  BY <1>1, <1>2, RepointedFacts, RepointedOK
<1>5. pc = "rekey" => \A p \in n : p.type = EntitySprintStart => p.key # made
  <2>. SUFFICES ASSUME pc = "rekey", NEW p \in n, p.type = EntitySprintStart PROVE p.key # made
    OBVIOUS
  <2>1. PICK r \in rows : p = Repointed(r, from, to)
    BY <1>2
  <2>2. r \in Row /\ r \in journal
    BY <1>1
  <2>3. p.type = r.type /\ p.key = r.key
    BY <2>1, <2>2, RepointedFacts
  <2>. QED
    BY <2>2, <2>3 DEF Shape, PhaseOK
<1>. QED
  BY <1>2, <1>3, <1>4, <1>5

LEMMA Acting ==
    ASSUME Shape, Act \/ Goes \/ Fails
    PROVE  acts' \in 0..MaxActs
BY Numbers DEF Act, Goes, Fails, Shape, TypeOK

LEMMA UserKeepsShape == ASSUME Shape, UserStep PROVE Shape'
<1>. USE DEF Guarded, Unguarded
<1>0. /\ cached \in [Real \cup Drafts -> States] /\ column \in [Cards -> Ids]
      /\ journal \in SUBSET Row /\ WellKeyed(journal) /\ \A r \in journal : r.id < nextId
      /\ nextId \in Nat \ {0} /\ lowest \in (-MaxDrafts)..0 /\ disturbed \subseteq Cards
      /\ place \in [Cards -> Ids] /\ born \in Nat /\ sprint \in [Real -> States]
      /\ \A r \in journal : RowOK(r)
      /\ pc = "rekey" => \A p \in journal : p.type = EntitySprintStart => p.key # made
      /\ \A i \in Real : i > born => cached[i] = "none" /\ sprint[i] = "none"
  BY Numbers DEF Shape, TypeOK, RowsOK, PhaseOK, SprintsOK, Ids
<1>1. CASE CreateDraftSprint
  <2>. DEFINE d == lowest - 1
  <2>1. /\ d \in Drafts /\ d \notin Real /\ d \in (-MaxDrafts)..0 /\ lowest' = d
        /\ cached' = [cached EXCEPT ![d] = "future"]
        /\ Enqueue(EntitySprintCreate, d, 0, 0)
    BY <1>0, <1>1, Numbers DEF CreateDraftSprint
  <2>. HIDE DEF d
  <2>2. RowOK([type |-> EntitySprintCreate, field |-> EntitySprintCreate, key |-> d, after |-> 0])
    BY <2>1, Kinds DEF RowOK
  <2>3. EntitySprintCreate \in Types /\ d \in Ids \cup Cards /\ 0 \in Ids /\ EntitySprintCreate # EntitySprintStart
    BY <2>1, Kinds, Numbers
  <2>4. cached' \in [Real \cup Drafts -> States] /\ \A i \in Real : i > born => cached'[i] = "none"
    BY <1>0, <2>1 DEF States
  <2>5. acts' \in 0..MaxActs
    BY <1>1, Acting DEF CreateDraftSprint
  <2>. QED
    BY <1>0, <1>1, <2>1, <2>2, <2>3, <2>4, <2>5, EnqueueShape, UserShape
       DEF CreateDraftSprint, Tables, history
<1>2. ASSUME NEW s \in Real \cup Drafts, StartSprint(s) PROVE Shape'
  <2>1. s \in Ids /\ EntitySprintStart \in Types /\ 0 \in Ids
    BY Numbers, Kinds
  <2>2. s <= born
    BY <1>0, <1>2, Numbers DEF StartSprint
  <2>3. RowOK([type |-> EntitySprintStart, field |-> EntitySprintStart, key |-> s, after |-> 0])
    BY <2>2, Kinds DEF RowOK
  <2>4. acts' \in 0..MaxActs
    BY <1>2, Acting DEF StartSprint
  <2>. QED
    BY <1>0, <1>2, <2>1, <2>3, <2>4, EnqueueShape, UserShape DEF StartSprint, Tables, history
<1>3. ASSUME NEW s \in Real, NEW to \in Real \cup {Backlog}, CompleteSprint(s, to) PROVE Shape'
  <2>1. s \in Ids /\ to \in Ids /\ EntitySprintComplete \in Types /\ 0 \in Ids
    BY Numbers, Kinds
  <2>2. RowOK([type |-> EntitySprintComplete, field |-> EntitySprintComplete, key |-> s, after |-> to])
    BY <1>3, Kinds DEF RowOK, CompleteSprint, CheckComplete
  <2>3. acts' \in 0..MaxActs
    BY <1>3, Acting DEF CompleteSprint
  <2>. QED
    BY <1>0, <1>3, <2>1, <2>2, <2>3, EnqueueShape, UserShape DEF CompleteSprint, Tables, history
<1>4. ASSUME NEW s \in Real, DeleteSprint(s) PROVE Shape'
  <2>1. s \in Ids /\ EntitySprintDelete \in Types /\ 0 \in Ids
    BY Numbers, Kinds
  <2>2. RowOK([type |-> EntitySprintDelete, field |-> EntitySprintDelete, key |-> s, after |-> 0])
    <3>1. s <= born
      BY <1>0, <1>4, Numbers DEF DeleteSprint
    <3>. QED
      BY <3>1, Kinds DEF RowOK
  <2>3. acts' \in 0..MaxActs
    BY <1>4, Acting DEF DeleteSprint
  <2>. QED
    BY <1>0, <1>4, <2>1, <2>2, <2>3, EnqueueShape, UserShape DEF DeleteSprint, Tables, history
<1>5. ASSUME NEW c \in Cards, MoveToDone(c) PROVE Shape'
  <2>1. c \in Ids \cup Cards /\ EntityTransition \in Types /\ 0 \in Ids /\ EntityTransition # EntitySprintStart
    BY Numbers, Kinds
  <2>2. RowOK([type |-> EntityTransition, field |-> EntityTransition, key |-> c, after |-> 0])
    BY Kinds DEF RowOK
  <2>3. acts' \in 0..MaxActs /\ disturbed' \subseteq Cards
    BY <1>0, <1>5, Acting DEF MoveToDone, Touches
  <2>. QED
    BY <1>0, <1>5, <2>1, <2>2, <2>3, EnqueueShape, UserShape DEF MoveToDone, Tables, history
<1>6. ASSUME NEW c \in Cards, NEW s \in Ids, MoveToSprint(c, s) PROVE Shape'
  <2>. DEFINE pending == RowsAt(journal, EntitySprintMove, c, EntitySprintMove)
  <2>1. pending \in SUBSET journal /\ pending \in SUBSET Row
    BY <1>0 DEF RowsAt
  <2>. HIDE DEF pending
  <2>2. /\ Act /\ UNCHANGED <<jira, commit, history>> /\ UNCHANGED <<cached, lowest>>
        /\ \/ journal' = journal \ pending /\ column' = Reverted(pending) /\ UNCHANGED nextId
           \/ Enqueue(EntitySprintMove, c, column[c], s) /\ column' = [column EXCEPT ![c] = s]
        /\ Touches({c})
    BY <1>6 DEF MoveToSprint, pending
  <2>3. acts' \in 0..MaxActs /\ disturbed' \subseteq Cards
    BY <1>0, <2>2, Acting DEF Touches
  <2>4. CASE journal' = journal \ pending /\ column' = Reverted(pending) /\ UNCHANGED nextId
    <3>1. WellKeyed(journal') /\ journal' \subseteq journal
      BY <1>0, <2>4, SubsetWellKeyed
    <3>2. column' \in [Cards -> Ids]
      BY <2>1, <2>4, RevertedIsIds
    <3>. QED
      BY <1>0, <2>2, <2>3, <2>4, <3>1, <3>2, UserShape DEF Tables
  <2>5. CASE Enqueue(EntitySprintMove, c, column[c], s) /\ column' = [column EXCEPT ![c] = s]
    <3>1. /\ c \in Ids \cup Cards /\ EntitySprintMove \in Types /\ column[c] \in Ids
          /\ EntitySprintMove # EntitySprintStart
      BY <1>0, Kinds
    <3>2. RowOK([type |-> EntitySprintMove, field |-> EntitySprintMove, key |-> c, after |-> s])
      <4>1. s \in Offered
        BY <1>6 DEF MoveToSprint
      <4>2. s <= born
        BY <1>0, <4>1, Numbers DEF Offered, Open
      <4>. QED
        BY <4>2, Kinds DEF RowOK
    <3>3. column' \in [Cards -> Ids]
      BY <1>0, <2>5
    <3>. QED
      BY <1>0, <2>2, <2>3, <2>5, <3>1, <3>2, <3>3, EnqueueShape, UserShape DEF Tables
  <2>. QED
    BY <2>2, <2>4, <2>5
<1>7. ASSUME NEW r \in journal, DiscardPendingChange(r) PROVE Shape'
  <2>. DEFINE with == IF r.type # EntitySprintCreate THEN {r}
                      ELSE {p \in journal : \/ p = r
                                            \/ p.type = EntitySprintMove /\ p.after = r.key
                                            \/ p.type = EntitySprintStart /\ p.key = r.key}
  <2>1. with \in SUBSET journal /\ with \in SUBSET Row
    BY <1>0
  <2>2. /\ Act /\ UNCHANGED <<jira, commit, history>> /\ UNCHANGED <<nextId, lowest>>
        /\ IF r.type = EntitySprintCreate
           THEN /\ journal' = RewrittenRows(journal \ with, r.key, Backlog)
                /\ column' = RewrittenColumn(Reverted(with), r.key, Backlog)
                /\ cached' = [cached EXCEPT ![r.key] = "none"]
           ELSE journal' = journal \ with /\ column' = Reverted(with) /\ UNCHANGED cached
        /\ Touches({p.key : p \in {p \in with : p.type \in MoveTypes}})
    BY <1>7 DEF DiscardPendingChange
  <2>. HIDE DEF with
  <2>3. \A p \in with : p.type \in MoveTypes => p.key \in Cards
    BY <1>0, <2>1 DEF RowOK
  <2>4. acts' \in 0..MaxActs /\ disturbed' \subseteq Cards
    BY <1>0, <2>2, <2>3, Acting DEF Touches
  <2>5. Reverted(with) \in [Cards -> Ids]
    BY <2>1, RevertedIsIds
  <2>6. CASE r.type = EntitySprintCreate
    <3>1. /\ journal' \subseteq Row /\ WellKeyed(journal') /\ \A p \in journal' : p.id < nextId
          /\ \A p \in journal' : RowOK(p)
          /\ pc = "rekey" => \A p \in journal' : p.type = EntitySprintStart => p.key # made
      <4>1. journal \ with \in SUBSET journal /\ Backlog \in Ids /\ Backlog <= born
        BY <1>0, Numbers
      <4>2. journal' = RewrittenRows(journal \ with, r.key, Backlog)
        BY <2>2, <2>6
      <4>. QED
        BY <4>1, <4>2, RewrittenShape
    <3>2. column' \in [Cards -> Ids]
      BY <2>2, <2>5, <2>6, Numbers, RewrittenIsIds
    <3>3. cached' \in [Real \cup Drafts -> States] /\ \A i \in Real : i > born => cached'[i] = "none"
      BY <1>0, <2>2, <2>6 DEF States
    <3>. QED
      BY <1>0, <2>2, <2>4, <3>1, <3>2, <3>3, UserShape DEF Tables
  <2>7. CASE r.type # EntitySprintCreate
    <3>1. WellKeyed(journal') /\ journal' \subseteq journal
      BY <1>0, <2>2, <2>7, SubsetWellKeyed
    <3>. QED
      BY <1>0, <2>2, <2>4, <2>5, <2>7, <3>1, UserShape DEF Tables
  <2>. QED
    BY <2>6, <2>7
<1>8. CASE RefreshBoards
  <2>1. Refreshed \in [Real \cup Drafts -> States] /\ \A i \in Real : i > born => Refreshed[i] = "none"
    BY <1>0 DEF Refreshed
  <2>2. acts' \in 0..MaxActs
    BY <1>8, Acting DEF RefreshBoards
  <2>. QED
    BY <1>0, <1>8, <2>1, <2>2, UserShape DEF RefreshBoards, Tables, history
<1>9. CASE SyncIssues
  <2>1. Fresh(journal, place) \in [Cards -> Ids]
    BY <1>0, FreshIsIds
  <2>2. acts' \in 0..MaxActs
    BY <1>9, Acting DEF SyncIssues
  <2>. QED
    BY <1>0, <1>9, <2>1, <2>2, UserShape DEF SyncIssues, Tables, history
<1>. QED
  BY <1>1, <1>2, <1>3, <1>4, <1>5, <1>6, <1>7, <1>8, <1>9 DEF UserStep

\* What goes on in Jira.
LEMMA JiraKeepsShape ==
    ASSUME Shape, \/ \E s \in Real : RemoteState(s)
                  \/ \E c \in Cards : RemoteCard(c)
    PROVE  Shape'
<1>0. /\ sprint \in [Real -> States] /\ place \in [Cards -> Real \cup {Backlog}]
      /\ finished \subseteq Cards /\ disturbed \subseteq Cards
      /\ \A i \in Real : i > born => sprint[i] = "none"
  BY DEF Shape, TypeOK, SprintsOK
<1>1. SUFFICES ASSUME /\ UNCHANGED <<born, store, commit, history>> /\ acts' \in 0..MaxActs
                      /\ sprint' \in [Real -> States] /\ place' \in [Cards -> Real \cup {Backlog}]
                      /\ finished' \subseteq Cards /\ disturbed' \subseteq Cards
                      /\ \A i \in Real : i > born => sprint'[i] = "none"
               PROVE  Shape'
  <2>1. ASSUME NEW s \in Real, RemoteState(s)
        PROVE  /\ UNCHANGED <<born, store, commit, history>> /\ acts' \in 0..MaxActs
               /\ sprint' \in [Real -> States] /\ place' \in [Cards -> Real \cup {Backlog}]
               /\ finished' \subseteq Cards /\ disturbed' \subseteq Cards
               /\ \A i \in Real : i > born => sprint'[i] = "none"
    <3>1. acts' \in 0..MaxActs
      BY <2>1, Acting DEF RemoteState, Outside
    <3>. QED
      BY <1>0, <2>1, <3>1 DEF RemoteState, Outside, Close, Destroy, RewrittenColumn, Named, States
  <2>2. ASSUME NEW c \in Cards, RemoteCard(c)
        PROVE  /\ UNCHANGED <<born, store, commit, history>> /\ acts' \in 0..MaxActs
               /\ sprint' \in [Real -> States] /\ place' \in [Cards -> Real \cup {Backlog}]
               /\ finished' \subseteq Cards /\ disturbed' \subseteq Cards
               /\ \A i \in Real : i > born => sprint'[i] = "none"
    <3>1. acts' \in 0..MaxActs
      BY <2>2, Acting DEF RemoteCard, Outside
    <3>2. \A s \in Ids : Open(sprint, s) => s \in Real \cup {Backlog}
      BY <1>0 DEF Open
    <3>. QED
      BY <1>0, <2>2, <3>1, <3>2 DEF RemoteCard, Outside, Touches
  <2>. QED
    BY <2>1, <2>2
<1>2. TypeOK'
  BY <1>1 DEF Shape, TypeOK, store, commit, history
<1>3. RowsOK' /\ PhaseOK'
  BY <1>1 DEF Shape, RowsOK, RowOK, PhaseOK, store, commit
<1>4. SprintsOK'
  BY <1>1 DEF Shape, SprintsOK, store
<1>. QED
  BY <1>2, <1>3, <1>4 DEF Shape

\* Commit.
LEMMA AtMostOne ==
    ASSUME NEW S, NEW e, S = {} \/ S = {e}
    PROVE  Cardinality(S) <= 1
<1>1. Cardinality({}) = 0
  BY FS_EmptySet
<1>2. Cardinality({e}) = 1
  BY FS_Singleton
<1>3. 0 <= 1 /\ 1 <= 1
  OBVIOUS
<1>4. Cardinality(S) = 0 \/ Cardinality(S) = 1
  BY <1>1, <1>2
<1>. QED
  BY <1>3, <1>4

LEMMA CreatesKeepShape ==
    ASSUME Shape, \/ CommitStart \/ StartChanges \/ RekeyFails
                  \/ \E r \in todo : RemoteCreate(r) \/ RemoteCreateFails(r)
                  \/ \E r \in doing : ForgetSprint(r)
    PROVE  Shape'
<1>0. /\ journal \in SUBSET Row /\ todo \in SUBSET Row /\ doing \in SUBSET Row
      /\ \A r \in journal \cup todo \cup doing : RowOK(r)
      /\ cached \in [Real \cup Drafts -> States] /\ sprint \in [Real -> States]
      /\ born \in 0..MaxSprints
  BY DEF Shape, TypeOK, RowsOK
<1>1. CASE CommitStart
  <2>1. TypeOK'
    BY <1>0, <1>1 DEF Shape, TypeOK, CommitStart, jira, store, history
  <2>2. RowsOK'
    BY <1>0, <1>1 DEF RowsOK, RowOK, CommitStart, jira, store
  <2>3. PhaseOK'
    BY <1>1 DEF Shape, PhaseOK, CommitStart, jira, store
  <2>. QED
    BY <1>1, <2>1, <2>2, <2>3 DEF Shape, SprintsOK, CommitStart, jira, store
<1>2. CASE StartChanges
  <2>1. TypeOK'
    BY <1>0, <1>2 DEF Shape, TypeOK, StartChanges, jira, store, history
  <2>2. RowsOK'
    BY <1>0, <1>2 DEF RowsOK, RowOK, StartChanges, jira, store
  <2>3. PhaseOK'
    BY <1>2 DEF Shape, PhaseOK, StartChanges, jira, store
  <2>. QED
    BY <1>2, <2>1, <2>2, <2>3 DEF Shape, SprintsOK, StartChanges, jira, store
<1>3. CASE RekeyFails
  <2>0. acts' \in 0..MaxActs
    BY <1>3, Acting DEF RekeyFails
  <2>1. TypeOK'
    BY <1>0, <1>3, <2>0 DEF Shape, TypeOK, RekeyFails, jira, store, history
  <2>2. RowsOK'
    BY <1>0, <1>3 DEF RowsOK, RowOK, RekeyFails, jira, store
  <2>3. PhaseOK'
    BY <1>3 DEF Shape, PhaseOK, RekeyFails, jira, store
  <2>. QED
    BY <1>3, <2>1, <2>2, <2>3 DEF Shape, SprintsOK, RekeyFails, jira, store
<1>4. ASSUME NEW r \in todo, RemoteCreate(r) PROVE Shape'
  <2>1. /\ pc = "creates" /\ pc' \in {"rekey", "forget"}
        /\ pc' = "rekey" => made' = born + 1
        /\ made' \in {0, born + 1}
        /\ doing' = {r} /\ todo' = todo \ {r} /\ born' = born + 1 /\ born + 1 \in Real
        /\ sprint' = [sprint EXCEPT ![born + 1] = "future"]
        /\ makes' = makes \cup {<<r.key, born + 1>>}
        /\ acts' \in 0..MaxActs
        /\ UNCHANGED <<place, finished, store, unsent, forgotten, unknown, disturbed>>
    BY <1>0, <1>4, Acting, Numbers DEF RemoteCreate, Lands, Took
  <2>2. r.type = EntitySprintCreate /\ r.key \in Drafts
    BY <1>0, <2>1 DEF Shape, PhaseOK, RowOK
  <2>3. TypeOK'
    <3>1. sprint' \in [Real -> States] /\ born' \in 0..MaxSprints /\ made' \in 0..MaxSprints
      BY <1>0, <2>1, Numbers DEF States
    <3>2. makes' \subseteq Drafts \X Real /\ todo' \subseteq Row /\ doing' \subseteq Row
      BY <1>0, <2>1, <2>2 DEF Shape, TypeOK
    <3>3. Cardinality(doing') <= 1
      BY <2>1, AtMostOne
    <3>. QED
      BY <2>1, <3>1, <3>2, <3>3 DEF Shape, TypeOK, store
  <2>4. RowsOK'
    <3>. SUFFICES ASSUME NEW p \in journal \cup todo \cup doing PROVE RowOK(p)'
      BY <2>1 DEF RowsOK, store
    <3>1. RowOK(p) /\ p \in Row
      BY <1>0
    <3>. QED
      BY <1>0, <2>1, <3>1, RowFacts DEF RowOK
  <2>5. PhaseOK'
    <3>1. \A p \in journal : p.type = EntitySprintStart => p.key # born + 1
      BY <1>0, RowFacts DEF RowOK
    <3>. QED
      BY <2>1, <2>2, <3>1 DEF Shape, PhaseOK, store
  <2>6. SprintsOK'
    BY <1>0, <2>1, Numbers DEF Shape, SprintsOK, store
  <2>. QED
    BY <2>3, <2>4, <2>5, <2>6 DEF Shape
<1>5. ASSUME NEW r \in todo, RemoteCreateFails(r) PROVE Shape'
  <2>1. /\ pc = "creates" /\ todo' = todo \ {r}
        /\ \/ /\ born' = born + 1 /\ born + 1 \in Real
              /\ sprint' = [sprint EXCEPT ![born + 1] = "future"]
              /\ makes' = makes \cup {<<r.key, born + 1>>}
              /\ unknown' = unknown \cup {r.key}
           \/ UNCHANGED <<sprint, born, makes, unknown>>
        /\ acts' \in 0..MaxActs
        /\ UNCHANGED <<place, finished, store, pc, doing, made, unsent, forgotten, disturbed>>
    BY <1>0, <1>5, Acting, Numbers DEF RemoteCreateFails, Lands, Took
  <2>2. r.type = EntitySprintCreate /\ r.key \in Drafts
    BY <1>0, <2>1 DEF Shape, PhaseOK, RowOK
  <2>3. TypeOK'
    <3>1. sprint' \in [Real -> States] /\ born' \in 0..MaxSprints
      BY <1>0, <2>1, Numbers DEF States
    <3>2. makes' \subseteq Drafts \X Real /\ todo' \subseteq Row /\ unknown' \subseteq Drafts
      BY <1>0, <2>1, <2>2 DEF Shape, TypeOK
    <3>. QED
      BY <2>1, <3>1, <3>2 DEF Shape, TypeOK, store
  <2>4. RowsOK'
    <3>. SUFFICES ASSUME NEW p \in journal \cup todo \cup doing PROVE RowOK(p)'
      BY <2>1 DEF RowsOK, store
    <3>1. RowOK(p) /\ p \in Row
      BY <1>0
    <3>. QED
      BY <1>0, <2>1, <3>1, RowFacts DEF RowOK
  <2>5. PhaseOK'
    BY <2>1 DEF Shape, PhaseOK, store
  <2>6. SprintsOK'
    BY <1>0, <2>1, Numbers DEF Shape, SprintsOK, store
  <2>. QED
    BY <2>3, <2>4, <2>5, <2>6 DEF Shape
<1>6. ASSUME NEW r \in doing, ForgetSprint(r) PROVE Shape'
  <2>1. /\ pc = "forget" /\ pc' = "creates" /\ doing' = {} /\ made' = 0
        /\ \/ /\ journal' = {p \in journal : ~(p.type = EntitySprintCreate /\ p.key = r.key)}
              /\ cached' = [cached EXCEPT ![r.key] = "none"]
              /\ forgotten' = forgotten \cup {r.key} /\ UNCHANGED unknown
           \/ unknown' = unknown \cup {r.key} /\ UNCHANGED <<journal, cached, forgotten>>
        /\ acts' \in 0..MaxActs
        /\ UNCHANGED <<jira, column, nextId, lowest, todo, unsent, makes, disturbed>>
    BY <1>6, Acting DEF ForgetSprint
  <2>2. r.type = EntitySprintCreate /\ r.key \in Drafts
    BY <1>0, <2>1 DEF Shape, PhaseOK, RowOK
  <2>3. journal' \subseteq journal /\ WellKeyed(journal')
    BY <2>1, SubsetWellKeyed DEF Shape, TypeOK
  <2>4. TypeOK'
    <3>1. cached' \in [Real \cup Drafts -> States] /\ journal' \subseteq Row
      BY <1>0, <2>1, <2>3 DEF States
    <3>2. Cardinality(doing') <= 1
      BY <2>1, AtMostOne
    <3>3. forgotten' \subseteq Drafts /\ unknown' \subseteq Drafts
      BY <2>1, <2>2 DEF Shape, TypeOK
    <3>4. made' \in 0..MaxSprints
      BY <2>1, Numbers
    <3>. QED
      BY <2>1, <2>3, <3>1, <3>2, <3>3, <3>4 DEF Shape, TypeOK, jira
  <2>5. RowsOK'
    BY <1>0, <2>1, <2>3 DEF RowsOK, RowOK, jira
  <2>6. PhaseOK'
    BY <2>1 DEF Shape, PhaseOK
  <2>7. SprintsOK'
    BY <1>0, <2>1 DEF Shape, SprintsOK, jira
  <2>. QED
    BY <2>4, <2>5, <2>6, <2>7 DEF Shape
<1>. QED
  BY <1>1, <1>2, <1>3, <1>4, <1>5, <1>6

LEMMA RekeyKeepsShape == ASSUME Shape, NEW r \in doing, RekeySprint(r) PROVE Shape'
<1>0. /\ journal \in SUBSET Row /\ WellKeyed(journal) /\ doing \in SUBSET Row
      /\ \A p \in journal : p.id < nextId /\ RowOK(p)
      /\ cached \in [Real \cup Drafts -> States] /\ column \in [Cards -> Ids]
  BY DEF Shape, TypeOK, RowsOK
<1>1. /\ pc = "rekey" /\ pc' = "creates" /\ doing' = {} /\ made' = 0
      /\ UNCHANGED <<jira, nextId, lowest, acts, todo, unsent, history, disturbed>>
      /\ \/ /\ journal' = Rekeyed(journal, r.key, made)
            /\ column' = RewrittenColumn(column, r.key, made)
            /\ cached' = [cached EXCEPT ![r.key] = "none", ![made] = "future"]
         \/ UNCHANGED <<cached, column, journal>>
  BY DEF RekeySprint
<1>2. /\ r.type = EntitySprintCreate /\ r.key \in Drafts
      /\ made \in Real /\ made = born /\ made \in Ids
      /\ \A p \in journal : p.type = EntitySprintStart => p.key # made
  BY <1>1, Numbers DEF Shape, PhaseOK, RowsOK, RowOK
<1>3. /\ journal' \subseteq Row /\ WellKeyed(journal')
      /\ \A p \in journal' : p.id < nextId /\ RowOK(p)
  <2>1. CASE journal' = journal
    BY <1>0, <2>1
  <2>2. CASE journal' = Rekeyed(journal, r.key, made)
    <3>1. /\ journal' \subseteq Row
          /\ \A n \in journal' : \E p \in journal :
                /\ ~(p.type = EntitySprintCreate /\ p.key = r.key)
                /\ n = Followed(Repointed(p, r.key, made), r.key, made)
      BY <1>0, <1>2, <2>2, RekeyedFacts
    <3>2. WellKeyed(journal')
      BY <1>0, <1>2, <2>2, RekeyedKeyed
    <3>3. ASSUME NEW n \in journal' PROVE n.id < nextId /\ RowOK(n)
      <4>1. PICK p \in journal : n = Followed(Repointed(p, r.key, made), r.key, made)
        BY <3>1
      <4>2. /\ p \in Row /\ p.id < nextId /\ RowOK(p)
        BY <1>0
      <4>3. /\ n.id = p.id /\ n.type = p.type
            /\ n.key = IF p.type = EntitySprintStart THEN Named(p.key, r.key, made) ELSE p.key
            /\ n.after = IF p.type = EntitySprintMove THEN Named(p.after, r.key, made) ELSE p.after
        BY <1>2, <4>1, <4>2, RekeyedRow
      <4>4. RowOK(n)
        <5>1. made <= born
          BY <1>2, Numbers
        <5>2. EntitySprintStart \notin {EntitySprintCreate, EntitySprintComplete, EntitySprintDelete} \cup MoveTypes
              /\ EntitySprintMove \notin WriteTypes \cup {EntitySprintCreate}
              /\ WriteTypes = {EntitySprintStart, EntitySprintComplete, EntitySprintDelete}
          BY Kinds
        <5>3. n.field = p.field
          BY <1>2, <4>1, <4>2, RekeyedRow
        <5>4. CASE p.type \notin {EntitySprintStart, EntitySprintMove}
          BY <4>2, <4>3, <5>3, <5>4 DEF RowOK
        <5>5. CASE p.type = EntitySprintStart
          BY <4>2, <4>3, <5>1, <5>2, <5>3, <5>5 DEF RowOK, Named
        <5>6. CASE p.type = EntitySprintMove
          BY <4>2, <4>3, <5>1, <5>2, <5>3, <5>6 DEF RowOK, Named
        <5>. QED
          BY <5>4, <5>5, <5>6
      <4>. QED
        BY <4>2, <4>3, <4>4
    <3>. QED
      BY <3>1, <3>2, <3>3
  <2>. QED
    BY <1>1, <2>1, <2>2
<1>4. column' \in [Cards -> Ids]
  BY <1>0, <1>1, <1>2, RewrittenIsIds
<1>5. cached' \in [Real \cup Drafts -> States] /\ \A i \in Real : i > born => cached'[i] = "none"
  BY <1>0, <1>1, <1>2, Numbers DEF Shape, SprintsOK, States
<1>6. TypeOK'
  <2>1. Cardinality(doing') <= 1
    BY <1>1, AtMostOne
  <2>2. made' \in 0..MaxSprints
    BY <1>1, Numbers
  <2>. QED
    BY <1>1, <1>3, <1>4, <1>5, <2>1, <2>2 DEF Shape, TypeOK, jira, history
<1>7. RowsOK'
  BY <1>1, <1>3 DEF Shape, RowsOK, RowOK, jira
<1>8. PhaseOK'
  BY <1>1 DEF Shape, PhaseOK
<1>9. SprintsOK'
  BY <1>1, <1>5 DEF Shape, SprintsOK, jira
<1>. QED
  BY <1>6, <1>7, <1>8, <1>9 DEF Shape

\* A step after the creates: rows go, and no row or sprint is new.
LEMMA LaterShape ==
    ASSUME Shape, UNCHANGED <<born, nextId, lowest, made, history>>, acts' \in 0..MaxActs,
           sprint' \in [Real -> States], place' \in [Cards -> Real \cup {Backlog}],
           finished' \subseteq Cards, unsent' \subseteq Cards, disturbed' \subseteq Cards,
           cached' \in [Real \cup Drafts -> States], column' \in [Cards -> Ids],
           \A i \in Real : i > born => cached'[i] = "none" /\ sprint'[i] = "none",
           journal' \subseteq journal, todo' \subseteq todo \cup journal,
           doing' = {} \/ \E r \in todo \cup doing : doing' = {r},
           pc' \in {"idle", "changes", "moving", "delete", "settle", "moves"},
           pc' \in {"idle", "changes", "moves"} => doing' = {},
           pc' = "moving" => \A r \in doing' : r.type = EntitySprintComplete,
           pc' = "delete" => \A r \in doing' : r.type = EntitySprintDelete
    PROVE  Shape'
<1>1. /\ journal \in SUBSET Row /\ todo \in SUBSET Row /\ doing \in SUBSET Row
      /\ \A r \in journal \cup todo \cup doing : RowOK(r)
  BY DEF Shape, TypeOK, RowsOK
<1>2. doing' \subseteq todo \cup doing
  OBVIOUS
<1>3. Cardinality(doing') <= 1
  <2>1. CASE doing' = {}
    BY <2>1, AtMostOne
  <2>2. ASSUME NEW r \in todo \cup doing, doing' = {r} PROVE Cardinality(doing') <= 1
    BY <2>2, AtMostOne
  <2>. QED
    BY <2>1, <2>2
<1>4. WellKeyed(journal')
  BY SubsetWellKeyed DEF Shape, TypeOK
<1>5. TypeOK'
  BY <1>1, <1>2, <1>3, <1>4 DEF Shape, TypeOK, history
<1>6. RowsOK'
  BY <1>1, <1>2 DEF RowsOK, RowOK
<1>7. PhaseOK'
  BY <1>2 DEF PhaseOK
<1>8. SprintsOK'
  BY DEF SprintsOK
<1>. QED
  BY <1>5, <1>6, <1>7, <1>8 DEF Shape

LEMMA JiraTypes ==
    ASSUME Shape
    PROVE  /\ sprint \in [Real -> States] /\ place \in [Cards -> Real \cup {Backlog}]
           /\ finished \subseteq Cards /\ unsent \subseteq Cards /\ disturbed \subseteq Cards
           /\ cached \in [Real \cup Drafts -> States] /\ column \in [Cards -> Ids]
           /\ \A i \in Real : i > born => cached[i] = "none" /\ sprint[i] = "none"
           /\ doing = {} \/ \E r \in todo \cup doing : doing = {r}
           /\ pc \in {"idle", "creates", "changes", "moves"} => doing = {}
BY DEF Shape, TypeOK, SprintsOK, PhaseOK

\* What a close and a deletion make of Jira.
LEMMA CloseTypes ==
    ASSUME Shape, NEW s, Close(s) \/ Destroy(s), s \in Real => sprint[s] # "none"
    PROVE  /\ sprint' \in [Real -> States] /\ place' \in [Cards -> Real \cup {Backlog}]
           /\ \A i \in Real : i > born => sprint'[i] = "none"
BY JiraTypes DEF Close, Destroy, RewrittenColumn, Named, States

LEMMA ChangesKeepShape ==
    ASSUME Shape, \/ \E r \in todo : PushStart(r) \/ ReadSprint(r) \/ ReadDoomed(r)
                  \/ \E r \in doing : MoveBatch(r) \/ MoveBatchFails(r) \/ CloseSprint(r)
    PROVE  Shape'
<1>1. ASSUME NEW r \in todo, PushStart(r) PROVE Shape'
  <2>1. /\ pc = "changes" /\ todo' = todo \ {r} /\ acts' \in 0..MaxActs
        /\ \/ pc' = "changes" /\ UNCHANGED doing
           \/ pc' = "settle" /\ doing' = {r}
        /\ \/ UNCHANGED sprint
           \/ r.key \in Real /\ sprint[r.key] = "future" /\ sprint' = [sprint EXCEPT ![r.key] = "active"]
        /\ UNCHANGED <<born, place, finished, store, unsent, disturbed, made, history>>
    BY <1>1, Acting DEF PushStart, Leave, Sent, Took, jira
  <2>2. sprint' \in [Real -> States] /\ \A i \in Real : i > born => sprint'[i] = "none"
    BY <2>1, JiraTypes DEF States
  <2>. QED
    BY <2>1, <2>2, JiraTypes, LaterShape DEF store
<1>2. ASSUME NEW r \in todo, ReadSprint(r) PROVE Shape'
  <2>1. /\ pc = "changes" /\ todo' = todo \ {r} /\ acts' \in 0..MaxActs
        /\ \/ pc' = "changes" /\ UNCHANGED <<doing, unsent, disturbed>>
           \/ /\ pc' = "moving" /\ doing' = {r} /\ unsent' \subseteq Cards /\ disturbed' = {}
              /\ r.type = EntitySprintComplete
        /\ journal' \subseteq journal
        /\ UNCHANGED <<jira, cached, column, nextId, lowest, made, history>>
    BY <1>2, Acting DEF ReadSprint, Took, NextChange, Oldest, Delete, Unfinished
  <2>. QED
    BY <2>1, JiraTypes, LaterShape DEF jira
<1>3. ASSUME NEW r \in todo, ReadDoomed(r) PROVE Shape'
  <2>1. /\ pc = "changes" /\ todo' = todo \ {r} /\ acts' \in 0..MaxActs
        /\ \/ pc' = "changes" /\ UNCHANGED <<doing, disturbed>>
           \/ pc' \in {"delete", "settle"} /\ doing' = {r} /\ disturbed' = {}
        /\ r.type = EntitySprintDelete
        /\ UNCHANGED <<jira, store, unsent, made, history>>
    BY <1>3, Acting DEF ReadDoomed, Leave, Took, NextChange, Oldest
  <2>. QED
    BY <2>1, JiraTypes, LaterShape DEF jira, store
<1>4. ASSUME NEW r \in doing, MoveBatch(r) PROVE Shape'
  <2>1. r.after \in Real \cup {Backlog}
    BY <1>4, JiraTypes DEF MoveBatch, Open
  <2>2. place' \in [Cards -> Real \cup {Backlog}] /\ unsent' \subseteq Cards
    BY <1>4, <2>1, JiraTypes DEF MoveBatch
  <2>3. pc = "moving" /\ \A p \in doing : p.type = EntitySprintComplete
    BY <1>4 DEF MoveBatch, Shape, PhaseOK
  <2>4. acts' \in 0..MaxActs
    BY <1>4 DEF MoveBatch, Shape, TypeOK
  <2>. QED
    BY <1>4, <2>2, <2>3, <2>4, JiraTypes, LaterShape DEF MoveBatch, store
<1>5. ASSUME NEW r \in doing, MoveBatchFails(r) PROVE Shape'
  <2>1. PICK S \in SUBSET Batch :
           /\ S # {} => Open(sprint, r.after)
           /\ place' = [c \in Cards |-> IF c \in S THEN r.after ELSE place[c]]
    BY <1>5 DEF MoveBatchFails
  <2>2. S # {} => r.after \in Real \cup {Backlog}
    BY <2>1, JiraTypes DEF Open
  <2>3. place' \in [Cards -> Real \cup {Backlog}]
    BY <2>1, <2>2, JiraTypes
  <2>4. acts' \in 0..MaxActs
    BY <1>5, Acting DEF MoveBatchFails
  <2>. QED
    BY <1>5, <2>3, <2>4, JiraTypes, LaterShape DEF MoveBatchFails, store
<1>6. ASSUME NEW r \in doing, CloseSprint(r) PROVE Shape'
  <2>1. /\ acts' \in 0..MaxActs
        /\ UNCHANGED <<sprint, place>> \/ (sprint[r.key] = "active" /\ Close(r.key))
        /\ \/ pc' = "settle" /\ UNCHANGED doing
           \/ pc' = "changes" /\ doing' = {}
        /\ UNCHANGED <<born, finished, store, todo, made, unsent, history, disturbed>>
    BY <1>6, Acting DEF CloseSprint
  <2>2. /\ sprint' \in [Real -> States] /\ place' \in [Cards -> Real \cup {Backlog}]
        /\ \A i \in Real : i > born => sprint'[i] = "none"
    BY <2>1, JiraTypes, CloseTypes
  <2>. QED
    BY <2>1, <2>2, JiraTypes, LaterShape DEF store
<1>. QED
  BY <1>1, <1>2, <1>3, <1>4, <1>5, <1>6

LEMMA EndsKeepShape ==
    ASSUME Shape, \/ \E r \in doing : RemoteDelete(r) \/ Settle(r)
                  \/ StartMoves \/ CommitEnds \/ Crash
                  \/ \E c \in Cards : PushCard(c)
    PROVE  Shape'
<1>1. ASSUME NEW r \in doing, RemoteDelete(r) PROVE Shape'
  <2>1. /\ acts' \in 0..MaxActs
        /\ UNCHANGED <<sprint, place>> \/ Destroy(r.key)
        /\ \/ pc' = "settle" /\ UNCHANGED doing
           \/ pc' = "changes" /\ doing' = {}
        /\ UNCHANGED <<born, finished, store, todo, made, unsent, history, disturbed>>
    BY <1>1, Acting DEF RemoteDelete
  <2>2. /\ sprint' \in [Real -> States] /\ place' \in [Cards -> Real \cup {Backlog}]
        /\ \A i \in Real : i > born => sprint'[i] = "none"
    BY <2>1, JiraTypes DEF Destroy, RewrittenColumn, Named, States
  <2>. QED
    BY <2>1, <2>2, JiraTypes, LaterShape DEF store
<1>2. ASSUME NEW r \in doing, Settle(r) PROVE Shape'
  <2>. DEFINE dropped == IF r.type = EntitySprintDelete THEN [cached EXCEPT ![r.key] = "none"] ELSE cached
              blanked == IF r.type = EntitySprintDelete THEN RewrittenColumn(column, r.key, Backlog)
                         ELSE column
  <2>1. \A S \in {Refreshed, dropped, cached} :
           S \in [Real \cup Drafts -> States] /\ \A i \in Real : i > born => S[i] = "none"
    BY JiraTypes DEF Refreshed, States
  <2>2. blanked \in [Cards -> Ids]
    BY JiraTypes, RewrittenIsIds, Numbers
  <2>3. /\ acts' \in 0..MaxActs /\ cached' \in {Refreshed, dropped, cached}
        /\ column' \in {blanked, column} /\ journal' \subseteq journal
        /\ pc' = "changes" /\ doing' = {}
        /\ UNCHANGED <<jira, nextId, lowest, todo, made, unsent, history, disturbed>>
    BY <1>2, Acting DEF Settle, Delete
  <2>. HIDE DEF dropped, blanked
  <2>4. /\ cached' \in [Real \cup Drafts -> States] /\ \A i \in Real : i > born => cached'[i] = "none"
        /\ column' \in [Cards -> Ids]
    BY <2>1, <2>2, <2>3, JiraTypes
  <2>. QED
    BY <2>3, <2>4, JiraTypes, LaterShape DEF jira
<1>3. CASE StartMoves
  <2>1. acts' \in 0..MaxActs
    BY <1>3 DEF StartMoves, Shape, TypeOK
  <2>. QED
    BY <1>3, <2>1, JiraTypes, LaterShape DEF StartMoves, jira, store
<1>4. CASE CommitEnds
  <2>1. acts' \in 0..MaxActs
    BY <1>4 DEF CommitEnds, Shape, TypeOK
  <2>. QED
    BY <1>4, <2>1, JiraTypes, LaterShape DEF CommitEnds, jira, store
<1>5. CASE Crash
  <2>1. acts' \in 0..MaxActs /\ made' \in 0..MaxSprints /\ Cardinality(doing') <= 1
    BY <1>5, Acting, AtMostOne, Numbers DEF Crash
  <2>2. unknown' \subseteq Drafts
    BY <1>5 DEF Crash, Shape, TypeOK, RowsOK, RowOK
  <2>3. TypeOK'
    BY <1>5, <2>1, <2>2 DEF Crash, Shape, TypeOK, jira, store
  <2>4. RowsOK' /\ PhaseOK' /\ SprintsOK'
    BY <1>5 DEF Crash, Shape, RowsOK, RowOK, PhaseOK, SprintsOK, jira, store
  <2>. QED
    BY <2>3, <2>4 DEF Shape
<1>6. ASSUME NEW c \in Cards, PushCard(c) PROVE Shape'
  <2>. DEFINE mine  == {r \in todo : r.key = c}
              met   == {r \in mine : Satisfied(r)}
              ready == IF \E r \in mine : Conflict(r) THEN {} ELSE mine \ met
              may   == {r \in ready : r.type = EntityTransition \/ Open(sprint, r.after)}
  <2>0. PICK landed \in SUBSET may : \E cleared \in SUBSET (met \cup landed) :
           LET fine == cleared = met \cup may
           IN  /\ IF fine THEN Goes ELSE Fails
               /\ place' = [place EXCEPT ![c] = AfterVal(landed, EntitySprintMove, c, EntitySprintMove, @)]
               /\ finished' = IF \E r \in landed : r.type = EntityTransition
                              THEN finished \cup {c} ELSE finished
               /\ journal' = {p \in journal : ~\E r \in cleared : p.id = r.id /\ p.after = r.after}
               /\ \/ column' = [column EXCEPT ![c] = Fresh(journal', place')[c]] /\ landed # {}
                  \/ UNCHANGED column /\ (landed # {} => ~fine)
    BY <1>6, Zenon DEF PushCard
  <2>1. PICK cleared \in SUBSET (met \cup landed) :
           LET fine == cleared = met \cup may
           IN  /\ IF fine THEN Goes ELSE Fails
               /\ place' = [place EXCEPT ![c] = AfterVal(landed, EntitySprintMove, c, EntitySprintMove, @)]
               /\ finished' = IF \E r \in landed : r.type = EntityTransition
                              THEN finished \cup {c} ELSE finished
               /\ journal' = {p \in journal : ~\E r \in cleared : p.id = r.id /\ p.after = r.after}
               /\ \/ column' = [column EXCEPT ![c] = Fresh(journal', place')[c]] /\ landed # {}
                  \/ UNCHANGED column /\ (landed # {} => ~fine)
    BY <2>0, Zenon
  <2>2. AfterVal(landed, EntitySprintMove, c, EntitySprintMove, place[c]) \in Real \cup {Backlog}
    <3>1. \A r \in RowsAt(landed, EntitySprintMove, c, EntitySprintMove) : r.after \in Real \cup {Backlog}
      <4>1. \A r \in landed : r.type = EntityTransition \/ r.after \in Real \cup {Backlog}
        BY JiraTypes DEF Open
      <4>. QED
        BY <4>1, Kinds DEF RowsAt, EntityTransition, EntitySprintMove
    <3>2. place[c] \in Real \cup {Backlog}
      BY JiraTypes
    <3>. QED
      BY <3>1, <3>2, AfterValIn
  <2>3. place' \in [Cards -> Real \cup {Backlog}] /\ place' \in [Cards -> Ids] /\ finished' \subseteq Cards
    BY <2>1, <2>2, JiraTypes DEF Ids
  <2>4. journal' \subseteq journal /\ journal' \in SUBSET Row
    BY <2>1 DEF Shape, TypeOK
  <2>5. column' \in [Cards -> Ids]
    <3>1. Fresh(journal', place') \in [Cards -> Ids]
      BY <2>3, <2>4, FreshIsIds
    <3>2. column' = column \/ column' = [column EXCEPT ![c] = Fresh(journal', place')[c]]
      BY <2>1, Zenon
    <3>. QED
      BY <3>1, <3>2, JiraTypes
  <2>6. /\ acts' \in 0..MaxActs /\ pc = "moves" /\ todo' \subseteq todo
        /\ UNCHANGED <<sprint, born, cached, nextId, lowest, pc, doing, made, unsent, history, disturbed>>
    BY <1>6, Acting DEF PushCard
  <2>. QED
    BY <2>3, <2>4, <2>5, <2>6, JiraTypes, LaterShape
<1>. QED
  BY <1>1, <1>2, <1>3, <1>4, <1>5, <1>6

LEMMA ShapeKept == ASSUME Shape, [Next]_vars PROVE Shape'
<1>1. CASE UserStep
  BY <1>1, UserKeepsShape
<1>2. CASE (\E s \in Real : RemoteState(s)) \/ (\E c \in Cards : RemoteCard(c))
  BY <1>2, JiraKeepsShape
<1>3. CASE CommitStart \/ Crash
  BY <1>3, CreatesKeepShape, EndsKeepShape
<1>4. CASE CommitStep
  BY <1>4, CreatesKeepShape, RekeyKeepsShape, ChangesKeepShape, EndsKeepShape DEF CommitStep
<1>5. CASE UNCHANGED vars
  BY <1>5 DEF vars, jira, store, commit, history, Shape, TypeOK, RowsOK, RowOK, PhaseOK, SprintsOK, Queued
<1>. QED
  BY <1>1, <1>2, <1>3, <1>4, <1>5 DEF Next

\* Every state has the types the model gives it: rows are well keyed, ids are
\* not reused, and a phase never holds more than one row.
THEOREM TypeCorrect == Spec => []TypeOK
<1>1. Init => Shape
  BY ShapeAtFirst
<1>2. Shape /\ [Next]_vars => Shape'
  BY ShapeKept
<1>3. Shape => TypeOK
  BY DEF Shape
<1>. QED
  BY <1>1, <1>2, <1>3, PTL DEF Spec

-----------------------------------------------------------------------------
\* What a completion has still to move.

\* A card the user does not touch is drawn where it was, and nothing is
\* queued to finish it that was not before.
LEMMA UntouchedColumn ==
    ASSUME NEW rows, NEW c \in Cards, \A p \in rows : p.type = EntitySprintMove => p.key # c
    PROVE  Reverted(rows)[c] = column[c]
<1>. DEFINE home == {r \in rows : r.key = c /\ HoldsMove(r)}
<1>1. home = {}
  BY Kinds DEF HoldsMove
<1>2. RowsAt(home, EntitySprintMove, c, EntitySprintMove) = {}
  BY <1>1 DEF RowsAt
<1>3. BeforeVal(home, EntitySprintMove, c, EntitySprintMove, column[c]) = column[c]
  BY <1>2 DEF BeforeVal
<1>. QED
  BY <1>3 DEF Reverted

LEMMA Untouched ==
    ASSUME Shape, pc = "moving", UserStep, NEW c \in Cards, c \notin disturbed',
           NEW s \in Real, column'[c] = s, Queued(EntityTransition, c)'
    PROVE  column[c] = s /\ Queued(EntityTransition, c)
<1>0. journal \in SUBSET Row /\ nextId \in Nat /\ column \in [Cards -> Ids] /\ s # Backlog
      /\ \A r \in journal : r.id < nextId
  BY Numbers DEF Shape, TypeOK
<1>1. ASSUME NEW d \in Cards, MoveToDone(d) PROVE column[c] = s /\ Queued(EntityTransition, c)
  <2>1. c # d /\ UNCHANGED column
    BY <1>1 DEF MoveToDone, Touches
  <2>2. \A r \in journal' : r \in journal \/ r.key = d
    BY <1>0, <1>1, PutRows DEF MoveToDone, Enqueue, Row
  <2>. QED
    BY <2>1, <2>2 DEF Queued, RowsAt
<1>2. ASSUME NEW d \in Cards, NEW to \in Ids, MoveToSprint(d, to)
      PROVE  column[c] = s /\ Queued(EntityTransition, c)
  <2>. DEFINE pending == RowsAt(journal, EntitySprintMove, d, EntitySprintMove)
  <2>1. c # d
    BY <1>2 DEF MoveToSprint, Touches
  <2>2. \A p \in pending : p.key = d
    BY DEF RowsAt
  <2>. HIDE DEF pending
  <2>3. \/ journal' = journal \ pending /\ column' = Reverted(pending)
        \/ Enqueue(EntitySprintMove, d, column[d], to) /\ column' = [column EXCEPT ![d] = to]
    BY <1>2 DEF MoveToSprint, pending
  <2>4. CASE journal' = journal \ pending /\ column' = Reverted(pending)
    <3>1. column'[c] = column[c]
      BY <2>1, <2>2, <2>4, UntouchedColumn
    <3>. QED
      BY <2>4, <3>1 DEF Queued, RowsAt
  <2>5. CASE Enqueue(EntitySprintMove, d, column[d], to) /\ column' = [column EXCEPT ![d] = to]
    <3>1. \A r \in journal' : r \in journal \/ r.key = d
      BY <1>0, <2>5, PutRows DEF Enqueue, Row
    <3>. QED
      BY <1>0, <2>1, <2>5, <3>1 DEF Queued, RowsAt
  <2>. QED
    BY <2>3, <2>4, <2>5
<1>3. ASSUME NEW r \in journal, DiscardPendingChange(r)
      PROVE  column[c] = s /\ Queued(EntityTransition, c)
  <2>. DEFINE with == IF r.type # EntitySprintCreate THEN {r}
                      ELSE {p \in journal : \/ p = r
                                            \/ p.type = EntitySprintMove /\ p.after = r.key
                                            \/ p.type = EntitySprintStart /\ p.key = r.key}
  <2>1. with \in SUBSET journal
    OBVIOUS
  <2>2. /\ \/ /\ journal' = RewrittenRows(journal \ with, r.key, Backlog)
              /\ column' = RewrittenColumn(Reverted(with), r.key, Backlog)
           \/ journal' = journal \ with /\ column' = Reverted(with)
        /\ Touches({p.key : p \in {p \in with : p.type \in MoveTypes}})
    BY <1>3 DEF DiscardPendingChange
  <2>. HIDE DEF with
  <2>3. \A p \in with : p.type \in MoveTypes => p.key # c
    BY <2>2 DEF Touches
  <2>4. Reverted(with)[c] = column[c]
    BY <2>3, Kinds, UntouchedColumn
  <2>5. CASE journal' = journal \ with /\ column' = Reverted(with)
    BY <2>4, <2>5 DEF Queued, RowsAt
  <2>6. CASE /\ journal' = RewrittenRows(journal \ with, r.key, Backlog)
             /\ column' = RewrittenColumn(Reverted(with), r.key, Backlog)
    <3>1. column[c] = s
      BY <1>0, <2>4, <2>6 DEF RewrittenColumn, Named
    <3>2. journal \ with \in SUBSET Row /\ Backlog \in Ids
      BY <1>0, Numbers
    <3>3. \A n \in journal' : \E p \in journal \ with : n = Repointed(p, r.key, Backlog)
      BY <2>6, <3>2, RewrittenFacts
    <3>4. PICK n \in journal' : n.type = EntityTransition /\ n.key = c /\ n.field = EntityTransition
      BY DEF Queued, RowsAt
    <3>5. PICK p \in journal \ with : n = Repointed(p, r.key, Backlog)
      BY <3>3
    <3>6. p.type = EntityTransition /\ p.key = c /\ p.field = EntityTransition
      BY <3>2, <3>4, <3>5, RepointedFacts
    <3>. QED
      BY <3>1, <3>6 DEF Queued, RowsAt
  <2>. QED
    BY <2>2, <2>5, <2>6
<1>. QED
  BY <1>1, <1>2, <1>3 DEF UserStep, CreateDraftSprint, StartSprint, CompleteSprint, DeleteSprint,
                          RefreshBoards, SyncIssues, Guarded

\* Only a completion that starts, or goes on, is emptying a sprint.
LEMMA StillMoving ==
    ASSUME Shape, [Next]_vars, pc' = "moving"
    PROVE  \/ \E r \in todo : ReadSprint(r)
           \/ /\ pc = "moving" /\ doing' = doing
              /\ \/ UserStep \/ UNCHANGED vars
                 \/ \E s \in Real : RemoteState(s)
                 \/ \E c \in Cards : RemoteCard(c)
                 \/ \E r \in doing : MoveBatch(r)
<1>1. CASE UserStep
  <2>1. UNCHANGED commit
    BY <1>1 DEF UserStep, CreateDraftSprint, StartSprint, CompleteSprint, DeleteSprint, MoveToSprint,
                MoveToDone, DiscardPendingChange, RefreshBoards, SyncIssues, Guarded, Unguarded
  <2>. QED
    BY <1>1, <2>1 DEF commit
<1>2. CASE (\E s \in Real : RemoteState(s)) \/ (\E c \in Cards : RemoteCard(c))
  BY <1>2 DEF RemoteState, RemoteCard, Outside, commit
<1>3. CASE CommitStart \/ Crash
  BY <1>3 DEF CommitStart, Crash
<1>4. CASE CommitStep
  <2>1. CASE \E r \in todo : RemoteCreate(r) \/ RemoteCreateFails(r)
    BY <2>1 DEF RemoteCreate, RemoteCreateFails
  <2>2. CASE \E r \in doing : RekeySprint(r) \/ ForgetSprint(r) \/ MoveBatchFails(r) \/ CloseSprint(r)
    BY <2>2 DEF RekeySprint, ForgetSprint, MoveBatchFails, CloseSprint
  <2>3. CASE \E r \in doing : RemoteDelete(r) \/ Settle(r)
    BY <2>3 DEF RemoteDelete, Settle
  <2>4. CASE \E r \in todo : PushStart(r) \/ ReadDoomed(r)
    BY <2>4 DEF PushStart, ReadDoomed, Leave, Sent
  <2>5. CASE RekeyFails \/ StartChanges \/ StartMoves \/ CommitEnds \/ \E c \in Cards : PushCard(c)
    BY <2>5 DEF RekeyFails, StartChanges, StartMoves, CommitEnds, PushCard
  <2>6. CASE \E r \in doing : MoveBatch(r)
    BY <2>6 DEF MoveBatch
  <2>. QED
    BY <1>4, <2>1, <2>2, <2>3, <2>4, <2>5, <2>6 DEF CommitStep
<1>5. CASE UNCHANGED vars
  BY <1>5 DEF vars, commit
<1>. QED
  BY <1>1, <1>2, <1>3, <1>4, <1>5 DEF Next

LEMMA EmptyingKept == ASSUME Shape, Emptying, [Next]_vars PROVE Emptying'
<1>. SUFFICES ASSUME pc' = "moving", NEW r \in doing'
              PROVE  /\ \A c \in Cards \ finished' : place'[c] = r.key => c \in unsent' \cup disturbed'
                     /\ \A c \in unsent' : MayCarry(c, r.key)' \/ c \in disturbed'
                     /\ \A c \in unsent' : column'[c] = r.key /\ Queued(EntityTransition, c)'
                                               => c \in disturbed'
  BY DEF Emptying
<1>0. \/ \E p \in todo : ReadSprint(p)
      \/ /\ pc = "moving" /\ doing' = doing
         /\ \/ UserStep \/ UNCHANGED vars
            \/ \E s \in Real : RemoteState(s)
            \/ \E c \in Cards : RemoteCard(c)
            \/ \E p \in doing : MoveBatch(p)
  BY StillMoving
<1>1. ASSUME NEW p \in todo, ReadSprint(p)
      PROVE  /\ \A c \in Cards \ finished' : place'[c] = r.key => c \in unsent' \cup disturbed'
             /\ \A c \in unsent' : MayCarry(c, r.key)' \/ c \in disturbed'
             /\ \A c \in unsent' : column'[c] = r.key /\ Queued(EntityTransition, c)' => c \in disturbed'
  <2>1. /\ pc = "changes" /\ UNCHANGED <<jira, column>>
        /\ doing' = {p} /\ unsent' = Unfinished(p.key) /\ UNCHANGED journal
        /\ PendingInSprint(p.key) = {}
    BY <1>1 DEF ReadSprint, CheckComplete
  <2>2. r = p
    BY <2>1
  <2>3. \A c \in Cards : ~(column[c] = r.key /\ Queued(EntityTransition, c))
    BY <2>1, <2>2, Kinds DEF PendingInSprint, Queued, RowsAt
  <2>. QED
    BY <2>1, <2>2, <2>3 DEF Unfinished, MayCarry, jira, Queued
<1>. SUFFICES ASSUME pc = "moving", doing' = doing,
                     \/ UserStep \/ UNCHANGED vars
                     \/ \E s \in Real : RemoteState(s)
                     \/ \E c \in Cards : RemoteCard(c)
                     \/ \E p \in doing : MoveBatch(p)
              PROVE  /\ \A c \in Cards \ finished' : place'[c] = r.key => c \in unsent' \cup disturbed'
                     /\ \A c \in unsent' : MayCarry(c, r.key)' \/ c \in disturbed'
                     /\ \A c \in unsent' : column'[c] = r.key /\ Queued(EntityTransition, c)'
                                               => c \in disturbed'
  BY <1>0, <1>1
<1>2. /\ r \in doing /\ r.key \in Real /\ r.key # Backlog /\ r.after # r.key /\ doing = {r}
      /\ \A c \in Cards \ finished : place[c] = r.key => c \in unsent \cup disturbed
      /\ \A c \in unsent : MayCarry(c, r.key) \/ c \in disturbed
      /\ \A c \in unsent : column[c] = r.key /\ Queued(EntityTransition, c) => c \in disturbed
      /\ unsent \subseteq Cards /\ place \in [Cards -> Real \cup {Backlog}]
      /\ sprint \in [Real -> States]
  BY Numbers DEF Shape, TypeOK, PhaseOK, RowsOK, RowOK, Emptying
<1>3. CASE UserStep
  <2>1. /\ UNCHANGED <<jira, commit>> /\ disturbed \subseteq disturbed'
    BY <1>3 DEF UserStep, CreateDraftSprint, StartSprint, CompleteSprint, DeleteSprint, MoveToSprint,
                MoveToDone, DiscardPendingChange, RefreshBoards, SyncIssues, Guarded, Unguarded, Touches
  <2>2. \A c \in unsent : column'[c] = r.key /\ Queued(EntityTransition, c)' => c \in disturbed'
    <3>. SUFFICES ASSUME NEW c \in unsent, column'[c] = r.key, Queued(EntityTransition, c)', c \notin disturbed'
                  PROVE  FALSE
      OBVIOUS
    <3>1. column[c] = r.key /\ Queued(EntityTransition, c)
      BY <1>2, <1>3, Untouched
    <3>. QED
      BY <1>2, <2>1, <3>1
  <2>. QED
    BY <1>2, <2>1, <2>2 DEF MayCarry, Open, jira, commit
<1>4. CASE UNCHANGED vars
  BY <1>2, <1>4 DEF MayCarry, Open, vars, jira, store, commit, Queued
<1>5. ASSUME NEW s \in Real, RemoteState(s)
      PROVE  /\ \A c \in Cards \ finished' : place'[c] = r.key => c \in unsent' \cup disturbed'
             /\ \A c \in unsent' : MayCarry(c, r.key)' \/ c \in disturbed'
             /\ \A c \in unsent' : column'[c] = r.key /\ Queued(EntityTransition, c)' => c \in disturbed'
  <2>1. /\ UNCHANGED <<finished, disturbed, store, commit>>
        /\ UNCHANGED place \/ Close(s) \/ Destroy(s)
    BY <1>5 DEF RemoteState, Outside
  <2>2. \A c \in Cards : place'[c] = r.key => place[c] = r.key
    BY <1>2, <2>1 DEF Close, Destroy, RewrittenColumn, Named
  <2>3. \A c \in unsent : MayCarry(c, r.key) => MayCarry(c, r.key)'
    <3>. SUFFICES ASSUME NEW c \in unsent, MayCarry(c, r.key) PROVE MayCarry(c, r.key)'
      OBVIOUS
    <3>1. c \in Cards /\ c \notin finished'
      BY <1>2, <2>1 DEF MayCarry
    <3>2. CASE s = r.key
      <4>1. \/ UNCHANGED place /\ sprint[s] = "future" /\ sprint' = [sprint EXCEPT ![s] = "active"]
            \/ sprint[s] = "active" /\ Close(s)
            \/ sprint[s] = "future" /\ Destroy(s)
        BY <1>5 DEF RemoteState
      <4>2. Open(sprint, s) /\ place[c] = r.key
        BY <1>2, <3>2, <4>1 DEF Open, MayCarry
      <4>3. CASE UNCHANGED place
        BY <3>1, <4>2, <4>3 DEF MayCarry
      <4>4. CASE Close(s)
        <5>1. sprint'[s] = "closed" /\ place'[c] = Backlog /\ s # Backlog
          BY <1>2, <3>1, <3>2, <4>2, <4>4, <2>1 DEF Close
        <5>. QED
          BY <3>1, <3>2, <5>1 DEF MayCarry, Open
      <4>5. CASE Destroy(s)
        <5>1. sprint'[s] = "none" /\ place'[c] = Backlog /\ s # Backlog
          BY <1>2, <3>1, <3>2, <4>2, <4>5 DEF Destroy, RewrittenColumn, Named
        <5>. QED
          BY <3>1, <3>2, <5>1 DEF MayCarry, Open
      <4>. QED
        BY <4>1, <4>3, <4>4, <4>5
    <3>3. CASE s # r.key
      <4>1. /\ sprint'[r.key] = sprint[r.key] /\ DOMAIN sprint' = DOMAIN sprint
            /\ place[c] \in {r.key, Backlog} => place'[c] = place[c]
        BY <1>2, <1>5, <3>1, <3>3, Numbers DEF RemoteState, Close, Destroy, RewrittenColumn, Named
      <4>. QED
        BY <3>1, <4>1 DEF MayCarry, Open
    <3>. QED
      BY <3>2, <3>3
  <2>. QED
    BY <1>2, <2>1, <2>2, <2>3 DEF store, commit, Queued
<1>6. ASSUME NEW d \in Cards, RemoteCard(d)
      PROVE  /\ \A c \in Cards \ finished' : place'[c] = r.key => c \in unsent' \cup disturbed'
             /\ \A c \in unsent' : MayCarry(c, r.key)' \/ c \in disturbed'
             /\ \A c \in unsent' : column'[c] = r.key /\ Queued(EntityTransition, c)' => c \in disturbed'
  <2>1. /\ UNCHANGED <<store, commit>> /\ disturbed' = disturbed \cup {d}
        /\ \A c \in Cards : c # d => place'[c] = place[c] /\ (c \in finished' <=> c \in finished)
        /\ UNCHANGED sprint
    BY <1>2, <1>6 DEF RemoteCard, Outside, Touches
  <2>2. \A c \in unsent : c # d => (MayCarry(c, r.key)' <=> MayCarry(c, r.key))
    BY <1>2, <2>1 DEF MayCarry, Open
  <2>. QED
    BY <1>2, <2>1, <2>2 DEF store, commit, Queued
<1>7. ASSUME NEW p \in doing, MoveBatch(p)
      PROVE  /\ \A c \in Cards \ finished' : place'[c] = r.key => c \in unsent' \cup disturbed'
             /\ \A c \in unsent' : MayCarry(c, r.key)' \/ c \in disturbed'
             /\ \A c \in unsent' : column'[c] = r.key /\ Queued(EntityTransition, c)' => c \in disturbed'
  <2>1. p = r /\ UNCHANGED <<finished, store, disturbed>> /\ unsent' = unsent \ Batch
        /\ place' = [c \in Cards |-> IF c \in Batch THEN r.after ELSE place[c]]
        /\ UNCHANGED sprint
    BY <1>2, <1>7 DEF MoveBatch
  <2>2. \A c \in unsent' : MayCarry(c, r.key)' <=> MayCarry(c, r.key)
    BY <1>2, <2>1 DEF MayCarry, Open
  <2>. QED
    BY <1>2, <2>1, <2>2 DEF store, Queued
<1>. QED
  BY <1>3, <1>4, <1>5, <1>6, <1>7

\* Where a step of a Commit closes a sprint, or shortens what is to be moved.
LEMMA Closing ==
    ASSUME Shape, [Next]_vars, NEW s \in Real, sprint[s] # "closed", sprint'[s] = "closed", pc' # pc
    PROVE  \E r \in doing : CloseSprint(r) /\ s = r.key
<1>0. sprint \in [Real -> States]
  BY DEF Shape, TypeOK
<1>1. CASE UserStep \/ CommitStart \/ Crash \/ UNCHANGED vars
  <2>1. UNCHANGED sprint
    BY <1>1 DEF UserStep, CreateDraftSprint, StartSprint, CompleteSprint, DeleteSprint, MoveToSprint,
                MoveToDone, DiscardPendingChange, RefreshBoards, SyncIssues, Guarded, Unguarded,
                CommitStart, Crash, vars, jira
  <2>. QED
    BY <2>1
<1>2. CASE (\E i \in Real : RemoteState(i)) \/ (\E c \in Cards : RemoteCard(c))
  BY <1>2 DEF RemoteState, RemoteCard, Outside, commit
<1>3. CASE CommitStep
  <2>1. CASE \E r \in todo : RemoteCreate(r) \/ RemoteCreateFails(r)
    BY <1>0, <2>1 DEF RemoteCreate, RemoteCreateFails, Lands
  <2>2. CASE \E r \in todo : PushStart(r) \/ ReadSprint(r) \/ ReadDoomed(r)
    BY <1>0, <2>2 DEF PushStart, ReadSprint, ReadDoomed, Leave, jira
  <2>3. CASE \E r \in doing : RekeySprint(r) \/ ForgetSprint(r) \/ Settle(r) \/ MoveBatch(r) \/ MoveBatchFails(r)
    BY <2>3 DEF RekeySprint, ForgetSprint, Settle, MoveBatch, MoveBatchFails, jira
  <2>4. CASE RekeyFails \/ StartChanges \/ StartMoves \/ CommitEnds \/ \E c \in Cards : PushCard(c)
    BY <2>4 DEF RekeyFails, StartChanges, StartMoves, CommitEnds, PushCard, jira
  <2>5. CASE \E r \in doing : RemoteDelete(r)
    BY <1>0, <2>5 DEF RemoteDelete, Destroy
  <2>6. CASE \E r \in doing : CloseSprint(r)
    BY <1>0, <2>6 DEF CloseSprint, Close
  <2>. QED
    BY <1>3, <2>1, <2>2, <2>3, <2>4, <2>5, <2>6 DEF CommitStep
<1>. QED
  BY <1>1, <1>2, <1>3 DEF Next

LEMMA Carrying ==
    ASSUME Shape, [Next]_vars, pc = "moving", unsent' # unsent, NEW c \in Cards, place'[c] # place[c]
    PROVE  c \in unsent
<1>0. place \in [Cards -> Real \cup {Backlog}] /\ Batch \subseteq unsent
  BY DEF Shape, TypeOK, Batch
<1>1. CASE UserStep \/ CommitStart \/ Crash \/ UNCHANGED vars
  <2>1. UNCHANGED place
    BY <1>1 DEF UserStep, CreateDraftSprint, StartSprint, CompleteSprint, DeleteSprint, MoveToSprint,
                MoveToDone, DiscardPendingChange, RefreshBoards, SyncIssues, Guarded, Unguarded,
                CommitStart, Crash, vars, jira
  <2>. QED
    BY <2>1
<1>2. CASE (\E i \in Real : RemoteState(i)) \/ (\E d \in Cards : RemoteCard(d))
  BY <1>2 DEF RemoteState, RemoteCard, Outside, commit
<1>3. CASE CommitStep
  <2>1. CASE (\E r \in todo : RemoteCreate(r) \/ RemoteCreateFails(r))
              \/ RekeyFails \/ StartChanges \/ StartMoves \/ CommitEnds \/ \E d \in Cards : PushCard(d)
    BY <2>1 DEF RemoteCreate, RemoteCreateFails, RekeyFails, StartChanges, StartMoves, CommitEnds, PushCard
  <2>2. CASE \E r \in todo : PushStart(r) \/ ReadSprint(r) \/ ReadDoomed(r)
    BY <2>2 DEF PushStart, ReadSprint, ReadDoomed
  <2>3. CASE \E r \in doing : RekeySprint(r) \/ ForgetSprint(r) \/ Settle(r) \/ CloseSprint(r) \/ RemoteDelete(r)
    BY <2>3 DEF RekeySprint, ForgetSprint, Settle, CloseSprint, RemoteDelete
  <2>4. ASSUME NEW r \in doing, MoveBatch(r) PROVE c \in unsent
    BY <1>0, <2>4 DEF MoveBatch
  <2>5. ASSUME NEW r \in doing, MoveBatchFails(r) PROVE c \in unsent
    <3>1. PICK S \in SUBSET Batch : place' = [d \in Cards |-> IF d \in S THEN r.after ELSE place[d]]
      BY <2>5 DEF MoveBatchFails
    <3>. QED
      BY <1>0, <3>1
  <2>. QED
    BY <1>3, <2>1, <2>2, <2>3, <2>4, <2>5 DEF CommitStep
<1>. QED
  BY <1>1, <1>2, <1>3 DEF Next

\* A completion leaves no unfinished card behind and carries off no other
\* card than the unfinished ones of its sprint, whatever fails, is killed or
\* changes in Jira meanwhile; cards touched while it runs are not judged.
THEOREM CompletionIsExact == Spec => CompletionMovesUnfinished
<1>. DEFINE Stage == Shape /\ Emptying
<1>1. Init => Stage
  BY ShapeAtFirst DEF Emptying, Init
<1>2. Stage /\ [Next]_vars => Stage'
  BY ShapeKept, EmptyingKept
<1>3. Stage /\ [Next]_vars => [NoneLeftBehind /\ NoneCarriedOff /\ FinishedStays]_vars
  <2>. SUFFICES ASSUME Shape, Emptying, [Next]_vars PROVE NoneLeftBehind /\ NoneCarriedOff /\ FinishedStays
    OBVIOUS
  <2>1. ASSUME NEW s \in Real, sprint[s] # "closed", sprint'[s] = "closed", pc' # pc,
               NEW c \in Cards \ finished, place[c] = s
        PROVE  c \in disturbed
    <3>1. PICK r \in doing : CloseSprint(r) /\ s = r.key
      BY <2>1, Closing
    <3>2. pc = "moving" /\ unsent = {}
      BY <3>1 DEF CloseSprint
    <3>. QED
      BY <2>1, <3>1, <3>2 DEF Emptying
  <2>2. ASSUME NEW r \in doing, pc = "moving", unsent' # unsent,
               NEW c \in Cards, place'[c] # place[c], column[c] = r.key, Queued(EntityTransition, c)
        PROVE  c \in disturbed
    <3>1. c \in unsent
      BY <2>2, Carrying
    <3>. QED
      BY <2>2, <3>1 DEF Emptying
  <2>3. ASSUME NEW r \in doing, pc = "moving", unsent' # unsent, NEW c \in Cards, place'[c] # place[c]
        PROVE  MayCarry(c, r.key) \/ c \in disturbed
    <3>1. c \in unsent
      BY <2>3, Carrying
    <3>. QED
      BY <2>3, <3>1 DEF Emptying
  <2>. QED
    BY <2>1, <2>2, <2>3 DEF NoneLeftBehind, NoneCarriedOff, FinishedStays
<1>. QED
  BY <1>1, <1>2, <1>3, PTL DEF Spec, CompletionMovesUnfinished

-----------------------------------------------------------------------------
\* The sprints that are deleted.

\* A sprint that is gone does not come back.
LEMMA GoneStays ==
    ASSUME Shape, [Next]_vars, NEW i \in Real, i <= born, sprint[i] = "none"
    PROVE  sprint'[i] = "none"
<1>0. sprint \in [Real -> States] /\ born \in Nat /\ i \in Nat
  BY Numbers DEF Shape, TypeOK
<1>1. CASE UserStep \/ CommitStart \/ Crash \/ UNCHANGED vars
  <2>1. UNCHANGED sprint
    BY <1>1 DEF UserStep, CreateDraftSprint, StartSprint, CompleteSprint, DeleteSprint, MoveToSprint,
                MoveToDone, DiscardPendingChange, RefreshBoards, SyncIssues, Guarded, Unguarded,
                CommitStart, Crash, vars, jira
  <2>. QED
    BY <2>1
<1>2. CASE (\E s \in Real : RemoteState(s)) \/ (\E c \in Cards : RemoteCard(c))
  BY <1>0, <1>2 DEF RemoteState, RemoteCard, Close, Destroy
<1>3. CASE CommitStep
  <2>1. CASE \E r \in todo : RemoteCreate(r) \/ RemoteCreateFails(r)
    BY <1>0, <2>1 DEF RemoteCreate, RemoteCreateFails, Lands
  <2>2. CASE \E r \in todo : PushStart(r) \/ ReadSprint(r) \/ ReadDoomed(r)
    BY <1>0, <2>2 DEF PushStart, ReadSprint, ReadDoomed, Leave, jira
  <2>3. CASE \E r \in doing : RekeySprint(r) \/ ForgetSprint(r) \/ Settle(r) \/ MoveBatch(r) \/ MoveBatchFails(r)
    BY <2>3 DEF RekeySprint, ForgetSprint, Settle, MoveBatch, MoveBatchFails, jira
  <2>4. CASE RekeyFails \/ StartChanges \/ StartMoves \/ CommitEnds \/ \E c \in Cards : PushCard(c)
    BY <2>4 DEF RekeyFails, StartChanges, StartMoves, CommitEnds, PushCard, jira
  <2>5. CASE \E r \in doing : RemoteDelete(r) \/ CloseSprint(r)
    BY <1>0, <2>5 DEF RemoteDelete, CloseSprint, Close, Destroy
  <2>. QED
    BY <1>3, <2>1, <2>2, <2>3, <2>4, <2>5 DEF CommitStep
<1>. QED
  BY <1>1, <1>2, <1>3 DEF Next

LEMMA ShownStays ==
    ASSUME Shape, Shown, [Next]_vars, UNCHANGED column,
           \A p \in journal' : p.type = EntitySprintMove => p \in journal
    PROVE  Shown'
<1>. SUFFICES ASSUME NEW p \in journal', p.type = EntitySprintMove
              PROVE  \/ column'[p.key] = p.after
                     \/ p.after \in Real /\ sprint'[p.after] = "none"
  BY DEF Shown
<1>1. p \in journal /\ (column[p.key] = p.after \/ (p.after \in Real /\ sprint[p.after] = "none"))
  BY DEF Shown
<1>2. p.after <= born
  BY <1>1 DEF Shape, RowsOK, RowOK
<1>. QED
  BY <1>1, <1>2, GoneStays

LEMMA EnqueuedOther ==
    ASSUME Shape, NEW type, type # EntitySprintMove, NEW key, NEW before, NEW after,
           Enqueue(type, key, before, after)
    PROVE  \A p \in journal' : p.type = EntitySprintMove => p \in journal
<1>1. journal \in SUBSET Row /\ nextId \in Nat /\ \A r \in journal : r.id < nextId
  BY DEF Shape, TypeOK
<1>. QED
  BY <1>1, PutRows DEF Enqueue, Row

\* Two moves of one card are one.
LEMMA OneMove ==
    ASSUME Shape, NEW p \in journal, NEW q \in journal,
           p.type = EntitySprintMove, q.type = EntitySprintMove, p.key = q.key
    PROVE  p = q
BY DEF Shape, TypeOK, RowsOK, RowOK, WellKeyed

\* A card with a pending move reads as dropped.
LEMMA FreshRow ==
    ASSUME NEW rows, WellKeyed(rows), NEW places, NEW p \in rows, p.key \in Cards,
           p.type = EntitySprintMove, p.field = EntitySprintMove
    PROVE  Fresh(rows, places)[p.key] = p.after
<1>1. /\ RowsAt(rows, EntitySprintMove, p.key, EntitySprintMove) = {p}
      /\ RowAt(rows, EntitySprintMove, p.key, EntitySprintMove) = p
  BY RowAtIsUnique
<1>2. AfterVal(rows, EntitySprintMove, p.key, EntitySprintMove, places[p.key]) = p.after
  BY <1>1 DEF AfterVal
<1>. QED
  BY <1>2 DEF Fresh

LEMMA UserKeepsShown == ASSUME Shape, Shown, UserStep, [Next]_vars PROVE Shown'
<1>0. /\ journal \in SUBSET Row /\ nextId \in Nat /\ column \in [Cards -> Ids]
      /\ WellKeyed(journal) /\ \A r \in journal : r.id < nextId
      /\ \A p \in journal : p.type = EntitySprintMove => p.key \in Cards /\ p.field = EntitySprintMove
  BY Kinds DEF Shape, TypeOK, RowsOK, RowOK
<1>1. CASE CreateDraftSprint
  BY <1>1, Kinds, EnqueuedOther, ShownStays DEF CreateDraftSprint
<1>2. ASSUME NEW s \in Real \cup Drafts, StartSprint(s) PROVE Shown'
  BY <1>2, Kinds, EnqueuedOther, ShownStays DEF StartSprint
<1>3. ASSUME NEW s \in Real, NEW to \in Real \cup {Backlog}, CompleteSprint(s, to) PROVE Shown'
  BY <1>3, Kinds, EnqueuedOther, ShownStays DEF CompleteSprint
<1>4. ASSUME NEW s \in Real, DeleteSprint(s) PROVE Shown'
  BY <1>4, Kinds, EnqueuedOther, ShownStays DEF DeleteSprint
<1>5. ASSUME NEW c \in Cards, MoveToDone(c) PROVE Shown'
  BY <1>5, EnqueuedOther, ShownStays DEF MoveToDone, EntityTransition, EntitySprintMove
<1>6. ASSUME NEW c \in Cards, NEW s \in Ids, MoveToSprint(c, s) PROVE Shown'
  <2>. DEFINE pending == RowsAt(journal, EntitySprintMove, c, EntitySprintMove)
  <2>1. /\ UNCHANGED sprint
        /\ \/ journal' = journal \ pending /\ column' = Reverted(pending)
           \/ Enqueue(EntitySprintMove, c, column[c], s) /\ column' = [column EXCEPT ![c] = s]
    BY <1>6 DEF MoveToSprint, Unguarded, jira
  <2>2. \A p \in pending : p.key = c
    BY DEF RowsAt
  <2>3. \A p \in journal : p.type = EntitySprintMove /\ p \notin pending => p.key # c
    BY <1>0 DEF RowsAt
  <2>. HIDE DEF pending
  <2>4. CASE journal' = journal \ pending /\ column' = Reverted(pending)
    <3>. SUFFICES ASSUME NEW p \in journal', p.type = EntitySprintMove
                  PROVE  \/ column'[p.key] = p.after
                         \/ p.after \in Real /\ sprint'[p.after] = "none"
      BY DEF Shown
    <3>1. p \in journal /\ p.key # c /\ p.key \in Cards
      BY <1>0, <2>3, <2>4
    <3>2. column'[p.key] = column[p.key]
      BY <2>2, <2>4, <3>1, UntouchedColumn
    <3>. QED
      BY <2>1, <3>1, <3>2 DEF Shown
  <2>5. CASE Enqueue(EntitySprintMove, c, column[c], s) /\ column' = [column EXCEPT ![c] = s]
    <3>. SUFFICES ASSUME NEW p \in journal', p.type = EntitySprintMove
                  PROVE  \/ column'[p.key] = p.after
                         \/ p.after \in Real /\ sprint'[p.after] = "none"
      BY DEF Shown
    <3>1. \/ p \in journal /\ ~(p.key = c /\ p.field = EntitySprintMove)
          \/ p.key = c /\ p.after = s
      BY <1>0, <2>5, PutRows DEF Enqueue, Row
    <3>. QED
      BY <1>0, <2>1, <2>5, <3>1 DEF Shown
  <2>. QED
    BY <2>1, <2>4, <2>5
<1>7. ASSUME NEW r \in journal, DiscardPendingChange(r) PROVE Shown'
  <2>. DEFINE with == IF r.type # EntitySprintCreate THEN {r}
                      ELSE {p \in journal : \/ p = r
                                            \/ p.type = EntitySprintMove /\ p.after = r.key
                                            \/ p.type = EntitySprintStart /\ p.key = r.key}
  <2>1. with \in SUBSET journal
    OBVIOUS
  <2>2. /\ UNCHANGED sprint
        /\ \/ /\ r.type = EntitySprintCreate
              /\ journal' = RewrittenRows(journal \ with, r.key, Backlog)
              /\ column' = RewrittenColumn(Reverted(with), r.key, Backlog)
           \/ journal' = journal \ with /\ column' = Reverted(with)
    BY <1>7 DEF DiscardPendingChange, Unguarded, jira
  <2>3. \A p \in journal \ with : r.type = EntitySprintCreate /\ p.type = EntitySprintMove => p.after # r.key
    OBVIOUS
  <2>. HIDE DEF with
  <2>4. ASSUME NEW p \in journal \ with, p.type = EntitySprintMove
        PROVE  p.key \in Cards /\ Reverted(with)[p.key] = column[p.key]
    <3>1. \A q \in with : q.type = EntitySprintMove => q.key # p.key
      BY <2>1, <2>4, OneMove
    <3>. QED
      BY <1>0, <2>4, <3>1, UntouchedColumn
  <2>5. CASE journal' = journal \ with /\ column' = Reverted(with)
    BY <2>2, <2>4, <2>5 DEF Shown
  <2>6. CASE /\ r.type = EntitySprintCreate
             /\ journal' = RewrittenRows(journal \ with, r.key, Backlog)
             /\ column' = RewrittenColumn(Reverted(with), r.key, Backlog)
    <3>. SUFFICES ASSUME NEW n \in journal', n.type = EntitySprintMove
                  PROVE  \/ column'[n.key] = n.after
                         \/ n.after \in Real /\ sprint'[n.after] = "none"
      BY DEF Shown
    <3>1. journal \ with \in SUBSET Row /\ Backlog \in Ids
      BY <1>0, Numbers
    <3>2. PICK p \in journal \ with : n = Repointed(p, r.key, Backlog)
      BY <2>6, <3>1, RewrittenFacts
    <3>3. /\ p.type = EntitySprintMove /\ n.key = p.key
          /\ n.after = Named(p.after, r.key, Backlog)
      BY <3>1, <3>2, RepointedFacts
    <3>4. p.after # r.key /\ n.after = p.after
      BY <2>3, <2>6, <3>3 DEF Named
    <3>5. p.key \in Cards /\ column'[p.key] = Named(column[p.key], r.key, Backlog)
      BY <2>4, <2>6, <3>3 DEF RewrittenColumn
    <3>. QED
      BY <2>2, <3>3, <3>4, <3>5 DEF Shown, Named
  <2>. QED
    BY <2>2, <2>5, <2>6
<1>8. CASE RefreshBoards
  BY <1>8, ShownStays DEF RefreshBoards
<1>9. CASE SyncIssues
  <2>1. column' = Fresh(journal, place) /\ UNCHANGED <<journal, sprint>>
    BY <1>9 DEF SyncIssues, Guarded, jira
  <2>. QED
    BY <1>0, <2>1, FreshRow DEF Shown
<1>. QED
  BY <1>1, <1>2, <1>3, <1>4, <1>5, <1>6, <1>7, <1>8, <1>9 DEF UserStep

LEMMA CommitKeepsShown ==
    ASSUME Shape, Shown, [Next]_vars,
           \/ \E r \in doing : RekeySprint(r)
           \/ Doomed /\ \E r \in doing : Settle(r)
           \/ \E c \in Cards : PushCard(c)
    PROVE  Shown'
<1>0. /\ journal \in SUBSET Row /\ column \in [Cards -> Ids] /\ doing \in SUBSET Row
      /\ WellKeyed(journal)
      /\ \A p \in journal : p.type = EntitySprintMove => p.key \in Cards /\ p.field = EntitySprintMove
  BY Kinds DEF Shape, TypeOK, RowsOK, RowOK
<1>. SUFFICES ASSUME NEW n \in journal', n.type = EntitySprintMove
              PROVE  \/ column'[n.key] = n.after
                     \/ n.after \in Real /\ sprint'[n.after] = "none"
  BY DEF Shown
<1>1. ASSUME NEW r \in doing, RekeySprint(r)
      PROVE  column'[n.key] = n.after \/ (n.after \in Real /\ sprint'[n.after] = "none")
  <2>1. /\ pc = "rekey" /\ UNCHANGED sprint
        /\ \/ journal' = Rekeyed(journal, r.key, made) /\ column' = RewrittenColumn(column, r.key, made)
           \/ UNCHANGED <<column, journal>>
    BY <1>1 DEF RekeySprint, jira
  <2>2. r.key \in Drafts /\ made \in Ids
    BY <2>1, Numbers DEF Shape, PhaseOK, RowsOK, RowOK
  <2>3. CASE UNCHANGED <<column, journal>>
    BY <2>1, <2>3 DEF Shown
  <2>4. CASE journal' = Rekeyed(journal, r.key, made) /\ column' = RewrittenColumn(column, r.key, made)
    <3>1. PICK p \in journal : /\ ~(p.type = EntitySprintCreate /\ p.key = r.key)
                               /\ n = Followed(Repointed(p, r.key, made), r.key, made)
      BY <1>0, <2>2, <2>4, RekeyedFacts
    <3>2. p \in Row
      BY <1>0
    <3>3. /\ p.type = EntitySprintMove /\ n.key = p.key /\ n.after = Named(p.after, r.key, made)
      <4>1. /\ n.type = p.type
            /\ n.key = IF p.type = EntitySprintStart THEN Named(p.key, r.key, made) ELSE p.key
            /\ n.after = IF p.type = EntitySprintMove THEN Named(p.after, r.key, made) ELSE p.after
        BY <2>2, <3>1, <3>2, RekeyedRow
      <4>. QED
        BY <4>1 DEF EntitySprintMove, EntitySprintStart
    <3>4. p.key \in Cards /\ column'[p.key] = Named(column[p.key], r.key, made)
      BY <1>0, <2>4, <3>3 DEF RewrittenColumn
    <3>. QED
      BY <2>1, <2>2, <3>3, <3>4, Numbers DEF Shown, Named
  <2>. QED
    BY <2>1, <2>3, <2>4
<1>2. ASSUME Doomed, NEW r \in doing, Settle(r)
      PROVE  column'[n.key] = n.after \/ (n.after \in Real /\ sprint'[n.after] = "none")
  <2>1. /\ pc = "settle" /\ UNCHANGED sprint /\ journal' \subseteq journal
        /\ \/ column' = column
           \/ r.type = EntitySprintDelete /\ column' = RewrittenColumn(column, r.key, Backlog)
    BY <1>2 DEF Settle, Delete, jira
  <2>2. r.type = EntitySprintDelete => r.key \in Real /\ sprint[r.key] = "none"
    BY <1>2, <2>1 DEF Doomed, Shape, RowsOK, RowOK
  <2>3. /\ n \in journal /\ n.key \in Cards
        /\ column[n.key] = n.after \/ (n.after \in Real /\ sprint[n.after] = "none")
    BY <1>0, <2>1 DEF Shown
  <2>. QED
    BY <2>1, <2>2, <2>3 DEF RewrittenColumn, Named
<1>3. ASSUME NEW c \in Cards, PushCard(c)
      PROVE  column'[n.key] = n.after \/ (n.after \in Real /\ sprint'[n.after] = "none")
  <2>1. /\ UNCHANGED sprint /\ journal' \subseteq journal
        /\ column' = column \/ column' = [column EXCEPT ![c] = Fresh(journal', place')[c]]
    BY <1>3 DEF PushCard
  <2>2. WellKeyed(journal')
    BY <1>0, <2>1, SubsetWellKeyed
  <2>3. /\ n \in journal /\ n.key \in Cards /\ n.field = EntitySprintMove
        /\ column[n.key] = n.after \/ (n.after \in Real /\ sprint[n.after] = "none")
    BY <1>0, <2>1 DEF Shown
  <2>4. Fresh(journal', place')[n.key] = n.after
    BY <2>2, <2>3, FreshRow
  <2>. QED
    BY <1>0, <2>1, <2>3, <2>4
<1>. QED
  BY <1>1, <1>2, <1>3

LEMMA ShownKept == ASSUME Shape, Shown, Doomed, [Next]_vars PROVE Shown'
<1>1. CASE UserStep
  BY <1>1, UserKeepsShown
<1>2. CASE \/ \E r \in doing : RekeySprint(r) \/ Settle(r)
           \/ \E c \in Cards : PushCard(c)
  BY <1>2, CommitKeepsShown
<1>3. CASE UNCHANGED column /\ journal' \subseteq journal
  BY <1>3, ShownStays
<1>4. CASE (\E s \in Real : RemoteState(s)) \/ (\E c \in Cards : RemoteCard(c)) \/ CommitStart \/ Crash
  BY <1>3, <1>4 DEF RemoteState, RemoteCard, Outside, CommitStart, Crash, store
<1>5. CASE UNCHANGED vars
  BY <1>3, <1>5 DEF vars, store
<1>6. CASE CommitStep
  <2>1. CASE \E r \in todo : RemoteCreate(r) \/ RemoteCreateFails(r)
    BY <1>3, <2>1 DEF RemoteCreate, RemoteCreateFails, store
  <2>2. CASE \E r \in todo : PushStart(r) \/ ReadSprint(r) \/ ReadDoomed(r)
    BY <1>3, <2>2 DEF PushStart, ReadSprint, ReadDoomed, Leave, Delete, store
  <2>3. CASE \E r \in doing : ForgetSprint(r) \/ MoveBatch(r) \/ MoveBatchFails(r) \/ CloseSprint(r) \/ RemoteDelete(r)
    BY <1>3, <2>3 DEF ForgetSprint, MoveBatch, MoveBatchFails, CloseSprint, RemoteDelete, store
  <2>4. CASE RekeyFails \/ StartChanges \/ StartMoves \/ CommitEnds
    BY <1>3, <2>4 DEF RekeyFails, StartChanges, StartMoves, CommitEnds, store
  <2>. QED
    BY <1>2, <1>6, <2>1, <2>2, <2>3, <2>4 DEF CommitStep
<1>. QED
  BY <1>1, <1>4, <1>5, <1>6 DEF Next

\* How a deletion comes to be under way, and how a change is settled.
LEMMA Deleting ==
    ASSUME Shape, [Next]_vars, pc' \in {"delete", "settle"}
    PROVE  \/ /\ pc' = pc /\ doing' = doing
              /\ \/ UserStep \/ UNCHANGED vars
                 \/ \E s \in Real : RemoteState(s)
                 \/ \E c \in Cards : RemoteCard(c)
           \/ \E r \in todo : ReadDoomed(r) /\ doing' = {r}
           \/ /\ pc' = "settle"
              /\ \A r \in doing' : r.type = EntitySprintDelete => pc = "delete" /\ RemoteDelete(r)
<1>1. CASE UserStep
  <2>1. UNCHANGED commit
    BY <1>1 DEF UserStep, CreateDraftSprint, StartSprint, CompleteSprint, DeleteSprint, MoveToSprint,
                MoveToDone, DiscardPendingChange, RefreshBoards, SyncIssues, Guarded, Unguarded
  <2>. QED
    BY <1>1, <2>1 DEF commit
<1>2. CASE (\E s \in Real : RemoteState(s)) \/ (\E c \in Cards : RemoteCard(c))
  BY <1>2 DEF RemoteState, RemoteCard, Outside, commit
<1>3. CASE CommitStart \/ Crash
  BY <1>3 DEF CommitStart, Crash
<1>4. CASE CommitStep
  <2>1. CASE \E r \in todo : RemoteCreate(r) \/ RemoteCreateFails(r)
    BY <2>1 DEF RemoteCreate, RemoteCreateFails
  <2>2. CASE \E r \in doing : RekeySprint(r) \/ ForgetSprint(r) \/ MoveBatch(r) \/ MoveBatchFails(r) \/ Settle(r)
    BY <2>2 DEF RekeySprint, ForgetSprint, MoveBatch, MoveBatchFails, Settle
  <2>3. ASSUME NEW r \in doing, RemoteDelete(r)
        PROVE  pc' = "settle" /\ \A p \in doing' : p.type = EntitySprintDelete => pc = "delete" /\ RemoteDelete(p)
    <3>1. pc' = "settle" /\ doing' = doing /\ pc = "delete"
      BY <2>3 DEF RemoteDelete
    <3>2. \A p \in doing : p = r
      BY DEF Shape, PhaseOK
    <3>. QED
      BY <2>3, <3>1, <3>2
  <2>4. ASSUME NEW r \in doing, CloseSprint(r)
        PROVE  pc' = "settle" /\ \A p \in doing' : p.type # EntitySprintDelete
    <3>1. pc = "moving" /\ doing' = doing /\ pc' = "settle"
      BY <2>4 DEF CloseSprint
    <3>. QED
      BY <3>1, Kinds DEF Shape, PhaseOK
  <2>5. ASSUME NEW r \in todo, PushStart(r)
        PROVE  pc' = "settle" /\ \A p \in doing' : p.type # EntitySprintDelete
    <3>1. pc = "changes" /\ r.type = EntitySprintStart
      BY <2>5 DEF PushStart, NextChange, Oldest
    <3>2. pc' = "settle" /\ doing' = {r}
      BY <2>5, <3>1 DEF PushStart, Leave, Sent
    <3>. QED
      BY <3>1, <3>2, Kinds
  <2>6. ASSUME NEW r \in todo, ReadDoomed(r) PROVE doing' = {r}
    BY <2>6 DEF ReadDoomed, Leave
  <2>7. CASE \E r \in todo : ReadSprint(r)
    BY <2>7 DEF ReadSprint
  <2>8. CASE RekeyFails \/ StartChanges \/ StartMoves \/ CommitEnds \/ \E c \in Cards : PushCard(c)
    BY <2>8 DEF RekeyFails, StartChanges, StartMoves, CommitEnds, PushCard
  <2>. QED
    BY <1>4, <2>1, <2>2, <2>3, <2>4, <2>5, <2>6, <2>7, <2>8 DEF CommitStep
<1>5. CASE UNCHANGED vars
  BY <1>5 DEF vars, commit
<1>. QED
  BY <1>1, <1>2, <1>3, <1>4, <1>5 DEF Next

\* While a sprint is being deleted, a card dropped on it is a touched one.
LEMMA DropsTouch ==
    ASSUME Shape, pc = "delete", UserStep, NEW s \in Real,
           NEW n \in journal', n.type = EntitySprintMove, n.after = s
    PROVE  n.key \in disturbed' \/ \E p \in journal : p.type = EntitySprintMove /\ p.after = s /\ p.key = n.key
<1>0. /\ journal \in SUBSET Row /\ nextId \in Nat /\ s # Backlog
      /\ \A r \in journal : r.id < nextId
  BY Numbers DEF Shape, TypeOK
<1>1. ASSUME NEW d \in Cards, MoveToDone(d) PROVE n \in journal
  BY <1>1, EnqueuedOther DEF MoveToDone, EntityTransition, EntitySprintMove
<1>2. ASSUME NEW d \in Cards, NEW to \in Ids, MoveToSprint(d, to) PROVE n \in journal \/ n.key \in disturbed'
  <2>1. d \in disturbed'
    BY <1>2 DEF MoveToSprint, Touches
  <2>2. \/ journal' \subseteq journal
        \/ Enqueue(EntitySprintMove, d, column[d], to)
    BY <1>2 DEF MoveToSprint
  <2>. QED
    BY <1>0, <2>1, <2>2, PutRows DEF Enqueue, Row
<1>3. ASSUME NEW r \in journal, DiscardPendingChange(r)
      PROVE  \E p \in journal : p.type = EntitySprintMove /\ p.after = s /\ p.key = n.key
  <2>1. PICK with \in SUBSET journal :
           \/ journal' = RewrittenRows(journal \ with, r.key, Backlog)
           \/ journal' = journal \ with
    <3>. DEFINE W == IF r.type # EntitySprintCreate THEN {r}
                     ELSE {p \in journal : \/ p = r
                                           \/ p.type = EntitySprintMove /\ p.after = r.key
                                           \/ p.type = EntitySprintStart /\ p.key = r.key}
    <3>1. W \in SUBSET journal
      OBVIOUS
    <3>2. \/ journal' = RewrittenRows(journal \ W, r.key, Backlog)
          \/ journal' = journal \ W
      BY <1>3 DEF DiscardPendingChange
    <3>. QED
      BY <3>1, <3>2
  <2>2. CASE journal' = journal \ with
    BY <2>2
  <2>3. CASE journal' = RewrittenRows(journal \ with, r.key, Backlog)
    <3>1. journal \ with \in SUBSET Row /\ Backlog \in Ids
      BY <1>0, Numbers
    <3>2. PICK p \in journal \ with : n = Repointed(p, r.key, Backlog)
      BY <2>3, <3>1, RewrittenFacts
    <3>3. /\ p.type = EntitySprintMove /\ n.key = p.key
          /\ n.after = Named(p.after, r.key, Backlog)
      BY <3>1, <3>2, RepointedFacts
    <3>. QED
      BY <1>0, <3>3 DEF Named
  <2>. QED
    BY <2>1, <2>2, <2>3
<1>. QED
  BY <1>1, <1>2, <1>3 DEF UserStep, CreateDraftSprint, StartSprint, CompleteSprint, DeleteSprint,
                          RefreshBoards, SyncIssues, Guarded

LEMMA DoomedKept == ASSUME Shape, Shown, Doomed, [Next]_vars PROVE Doomed'
<1>. SUFFICES ASSUME pc' \in {"delete", "settle"}, NEW r \in doing'
              PROVE  /\ pc' = "delete" =>
                           /\ "race" \notin Env => sprint'[r.key] = "future"
                           /\ \A p \in journal' : p.type = EntitySprintMove /\ p.after = r.key
                                                      => p.key \in disturbed'
                     /\ pc' = "settle" /\ r.type = EntitySprintDelete => sprint'[r.key] = "none"
  BY DEF Doomed
<1>0. sprint \in [Real -> States]
  BY DEF Shape, TypeOK
<1>1. CASE /\ pc' = pc /\ doing' = doing
           /\ \/ UserStep \/ UNCHANGED vars
              \/ \E s \in Real : RemoteState(s)
              \/ \E c \in Cards : RemoteCard(c)
  <2>1. ASSUME pc = "settle", r.type = EntitySprintDelete PROVE sprint'[r.key] = "none"
    <3>1. r \in doing /\ sprint[r.key] = "none"
      BY <1>1, <2>1 DEF Doomed
    <3>2. r.key \in Real /\ r.key <= born
      BY <2>1, <3>1 DEF Shape, RowsOK, RowOK
    <3>. QED
      BY <3>1, <3>2, GoneStays
  <2>2. ASSUME pc = "delete"
        PROVE  /\ "race" \notin Env => sprint'[r.key] = "future"
               /\ \A p \in journal' : p.type = EntitySprintMove /\ p.after = r.key => p.key \in disturbed'
    <3>1. /\ r \in doing
          /\ "race" \notin Env => sprint[r.key] = "future"
          /\ \A p \in journal : p.type = EntitySprintMove /\ p.after = r.key => p.key \in disturbed
      BY <1>1, <2>2 DEF Doomed
    <3>2. r.key \in Real
      <4>1. r.type = EntitySprintDelete
        BY <2>2, <3>1 DEF Shape, PhaseOK
      <4>. QED
        BY <3>1, <4>1 DEF Shape, RowsOK, RowOK
    <3>3. CASE UserStep
      <4>1. UNCHANGED sprint /\ disturbed \subseteq disturbed'
        BY <3>3 DEF UserStep, CreateDraftSprint, StartSprint, CompleteSprint, DeleteSprint, MoveToSprint,
                    MoveToDone, DiscardPendingChange, RefreshBoards, SyncIssues, Guarded, Unguarded,
                    Touches, jira
      <4>. QED
        BY <2>2, <3>1, <3>2, <3>3, <4>1, DropsTouch
    <3>4. CASE UNCHANGED vars
      BY <3>1, <3>4 DEF vars, jira, store
    <3>5. CASE \E s \in Real : RemoteState(s)
      BY <2>2, <3>1, <3>5 DEF RemoteState, Outside, store
    <3>6. CASE \E c \in Cards : RemoteCard(c)
      BY <3>1, <3>6 DEF RemoteCard, Outside, Touches, store
    <3>. QED
      BY <1>1, <3>3, <3>4, <3>5, <3>6
  <2>. QED
    BY <1>1, <2>1, <2>2
<1>2. ASSUME NEW q \in todo, ReadDoomed(q), doing' = {q}
      PROVE  /\ pc' = "delete" =>
                   /\ "race" \notin Env => sprint'[r.key] = "future"
                   /\ \A p \in journal' : p.type = EntitySprintMove /\ p.after = r.key
                                              => p.key \in disturbed'
             /\ pc' = "settle" /\ r.type = EntitySprintDelete => sprint'[r.key] = "none"
  <2>1. r = q
    BY <1>2
  <2>2. /\ UNCHANGED <<sprint, journal>>
        /\ PendingInSprint(r.key) = {}
        /\ pc' = IF Deletable(r.key) THEN "delete" ELSE "settle"
        /\ Deletable(r.key) \/ sprint[r.key] = "none"
    BY <1>2, <2>1 DEF ReadDoomed, Leave, jira, store
  <2>3. ASSUME Deletable(r.key), NEW p \in journal, p.type = EntitySprintMove, p.after = r.key PROVE FALSE
    <3>1. column[p.key] # r.key
      BY <2>2, <2>3, Kinds DEF PendingInSprint
    <3>2. sprint[r.key] = "none"
      BY <2>3, <3>1 DEF Shown
    <3>. QED
      BY <2>3, <3>2 DEF Deletable
  <2>. QED
    BY <2>2, <2>3 DEF Deletable
<1>3. ASSUME pc' = "settle", r.type = EntitySprintDelete, pc = "delete", RemoteDelete(r)
      PROVE  sprint'[r.key] = "none"
  <2>1. r.key \in Real
    BY <1>3 DEF RemoteDelete, Shape, RowsOK, RowOK
  <2>. QED
    BY <1>0, <1>3, <2>1 DEF RemoteDelete, Destroy
<1>. QED
  BY <1>1, <1>2, <1>3, Deleting

\* Where a step of a Commit deletes a sprint.
LEMMA Destroying ==
    ASSUME Shape, [Next]_vars, NEW s \in Real, sprint[s] # "none", sprint'[s] = "none", pc' # pc
    PROVE  pc = "delete" /\ \E r \in doing : s = r.key
<1>0. sprint \in [Real -> States]
  BY DEF Shape, TypeOK
<1>1. CASE UserStep \/ CommitStart \/ Crash \/ UNCHANGED vars
  <2>1. UNCHANGED sprint
    BY <1>1 DEF UserStep, CreateDraftSprint, StartSprint, CompleteSprint, DeleteSprint, MoveToSprint,
                MoveToDone, DiscardPendingChange, RefreshBoards, SyncIssues, Guarded, Unguarded,
                CommitStart, Crash, vars, jira
  <2>. QED
    BY <2>1
<1>2. CASE (\E i \in Real : RemoteState(i)) \/ (\E c \in Cards : RemoteCard(c))
  BY <1>2 DEF RemoteState, RemoteCard, Outside, commit
<1>3. CASE CommitStep
  <2>1. CASE \E r \in todo : RemoteCreate(r) \/ RemoteCreateFails(r)
    BY <1>0, <2>1 DEF RemoteCreate, RemoteCreateFails, Lands
  <2>2. CASE \E r \in todo : PushStart(r) \/ ReadSprint(r) \/ ReadDoomed(r)
    BY <1>0, <2>2 DEF PushStart, ReadSprint, ReadDoomed, Leave, jira
  <2>3. CASE \E r \in doing : RekeySprint(r) \/ ForgetSprint(r) \/ Settle(r) \/ MoveBatch(r) \/ MoveBatchFails(r)
    BY <2>3 DEF RekeySprint, ForgetSprint, Settle, MoveBatch, MoveBatchFails, jira
  <2>4. CASE RekeyFails \/ StartChanges \/ StartMoves \/ CommitEnds \/ \E c \in Cards : PushCard(c)
    BY <2>4 DEF RekeyFails, StartChanges, StartMoves, CommitEnds, PushCard, jira
  <2>5. CASE \E r \in doing : CloseSprint(r)
    BY <1>0, <2>5 DEF CloseSprint, Close
  <2>6. CASE \E r \in doing : RemoteDelete(r)
    BY <1>0, <2>6 DEF RemoteDelete, Destroy
  <2>. QED
    BY <1>3, <2>1, <2>2, <2>3, <2>4, <2>5, <2>6 DEF CommitStep
<1>. QED
  BY <1>1, <1>2, <1>3 DEF Next

\* Unless somebody starts a sprint between TAM's reading of it and the call,
\* TAM deletes no sprint that was ever started, and none a drag is bound for
\* but one made while it was being deleted.
THEOREM DeletionIsIdle == ASSUME "race" \notin Env PROVE Spec => DeletesOnlyIdle
<1>. DEFINE Stage == Shape /\ Shown /\ Doomed
            Idle == \A s \in Real : sprint[s] # "none" /\ sprint'[s] = "none" /\ pc' # pc =>
                       /\ sprint[s] = "future"
                       /\ \A r \in journal : r.type = EntitySprintMove /\ r.after = s => r.key \in disturbed
<1>1. Init => Stage
  BY ShapeAtFirst DEF Shown, Doomed, Init
<1>2. Stage /\ [Next]_vars => Stage'
  BY ShapeKept, ShownKept, DoomedKept
<1>3. Stage /\ [Next]_vars => [Idle]_vars
  <2>. SUFFICES ASSUME Shape, Doomed, [Next]_vars,
                       NEW s \in Real, sprint[s] # "none", sprint'[s] = "none", pc' # pc
                PROVE  /\ sprint[s] = "future"
                       /\ \A r \in journal : r.type = EntitySprintMove /\ r.after = s => r.key \in disturbed
    OBVIOUS
  <2>1. pc = "delete" /\ \E r \in doing : s = r.key
    BY Destroying
  <2>. QED
    BY <2>1 DEF Doomed
<1>. QED
  BY <1>1, <1>2, <1>3, PTL DEF Spec, DeletesOnlyIdle

-----------------------------------------------------------------------------
\* Drafts.

LEMMA EnqueuedRows ==
    ASSUME Shape, NEW type, NEW key, NEW before, NEW after, Enqueue(type, key, before, after)
    PROVE  /\ nextId' = nextId + 1 /\ nextId \in Nat
           /\ \A n \in journal' :
                 \/ n \in journal
                 \/ /\ n.type = type /\ n.key = key /\ n.after = after
                    /\ \/ n.id = nextId /\ n.before = before
                       \/ \E s \in journal : n.id = s.id /\ s.type = type /\ s.key = key /\ n.before = s.before
           /\ \A s \in journal : \E n \in journal' : n.id = s.id /\ n.type = s.type /\ n.key = s.key /\ n.field = s.field
           /\ RowsAt(journal', type, key, type) # {}
<1>1. /\ journal \in SUBSET Row /\ nextId \in Nat /\ \A r \in journal : r.id < nextId
  BY DEF Shape, TypeOK
<1>2. /\ nextId' = nextId + 1
      /\ journal' = Put(journal, nextId, type, key, type, before, after, 0)
  BY DEF Enqueue
<1>3. /\ \A n \in journal' : n.id < nextId + 1
      /\ \A n \in journal' :
            \/ n \in journal /\ ~(n.type = type /\ n.key = key /\ n.field = type)
            \/ /\ n.type = type /\ n.key = key /\ n.field = type /\ n.after = after
               /\ \/ n.id = nextId /\ n.before = before
                  \/ \E s \in RowsAt(journal, type, key, type) : n.id = s.id /\ n.before = s.before
      /\ \A s \in journal : \E n \in journal' : n.id = s.id /\ n.type = s.type /\ n.key = s.key /\ n.field = s.field
      /\ RowsAt(journal', type, key, type) # {}
  BY <1>1, <1>2, PutRows DEF Row
<1>. QED
  BY <1>1, <1>2, <1>3 DEF RowsAt

\* What a step makes of the journal: a row keeps its id and its kind, and a
\* new one is the latest, and of a draft handed out with it.
RowKept(p) ==
    \/ \E q \in journal : /\ q.id = p.id /\ q.type = p.type
                          /\ p.type = EntitySprintCreate => q.key = p.key
    \/ p.id = nextId /\ (p.type = EntitySprintCreate => p.key = lowest - 1 /\ lowest' = lowest - 1)

LEMMA UserKeepsRows ==
    ASSUME Shape, UserStep
    PROVE  nextId <= nextId' /\ lowest' \in {lowest, lowest - 1} /\ \A p \in journal' : RowKept(p)
<1>0. journal \in SUBSET Row /\ nextId \in Nat
  BY DEF Shape, TypeOK
<1>1. CASE CreateDraftSprint
  BY <1>1, EnqueuedRows DEF CreateDraftSprint, RowKept
<1>2. ASSUME NEW s \in Real \cup Drafts, StartSprint(s)
      PROVE  nextId <= nextId' /\ lowest' = lowest /\ \A p \in journal' : RowKept(p)
  BY <1>2, EnqueuedRows DEF StartSprint, RowKept, EntitySprintStart, EntitySprintCreate
<1>3. ASSUME NEW s \in Real, NEW to \in Real \cup {Backlog}, CompleteSprint(s, to)
      PROVE  nextId <= nextId' /\ lowest' = lowest /\ \A p \in journal' : RowKept(p)
  BY <1>3, EnqueuedRows DEF CompleteSprint, RowKept, EntitySprintComplete, EntitySprintCreate
<1>4. ASSUME NEW s \in Real, DeleteSprint(s)
      PROVE  nextId <= nextId' /\ lowest' = lowest /\ \A p \in journal' : RowKept(p)
  BY <1>4, EnqueuedRows DEF DeleteSprint, RowKept, EntitySprintDelete, EntitySprintCreate
<1>5. ASSUME NEW c \in Cards, MoveToDone(c)
      PROVE  nextId <= nextId' /\ lowest' = lowest /\ \A p \in journal' : RowKept(p)
  BY <1>5, EnqueuedRows DEF MoveToDone, RowKept, EntityTransition, EntitySprintCreate
<1>6. ASSUME NEW c \in Cards, NEW s \in Ids, MoveToSprint(c, s)
      PROVE  nextId <= nextId' /\ lowest' = lowest /\ \A p \in journal' : RowKept(p)
  <2>1. /\ lowest' = lowest
        /\ \/ journal' \subseteq journal /\ UNCHANGED nextId
           \/ Enqueue(EntitySprintMove, c, column[c], s)
    BY <1>6 DEF MoveToSprint
  <2>. QED
    BY <1>0, <2>1, EnqueuedRows DEF RowKept, EntitySprintMove, EntitySprintCreate
<1>7. ASSUME NEW r \in journal, DiscardPendingChange(r)
      PROVE  nextId <= nextId' /\ lowest' = lowest /\ \A p \in journal' : RowKept(p)
  <2>. DEFINE W == IF r.type # EntitySprintCreate THEN {r}
                   ELSE {p \in journal : \/ p = r
                                         \/ p.type = EntitySprintMove /\ p.after = r.key
                                         \/ p.type = EntitySprintStart /\ p.key = r.key}
  <2>1. /\ UNCHANGED <<nextId, lowest>>
        /\ \/ journal' = RewrittenRows(journal \ W, r.key, Backlog)
           \/ journal' = journal \ W
    BY <1>7 DEF DiscardPendingChange
  <2>. HIDE DEF W
  <2>2. CASE journal' = journal \ W
    BY <1>0, <2>1, <2>2 DEF RowKept
  <2>3. CASE journal' = RewrittenRows(journal \ W, r.key, Backlog)
    <3>. SUFFICES ASSUME NEW n \in journal' PROVE RowKept(n)
      BY <1>0, <2>1
    <3>1. journal \ W \in SUBSET Row /\ Backlog \in Ids
      BY <1>0, Numbers
    <3>2. PICK p \in journal \ W : n = Repointed(p, r.key, Backlog)
      BY <2>3, <3>1, RewrittenFacts
    <3>3. n.id = p.id /\ n.type = p.type /\ n.key = p.key
      BY <3>1, <3>2, RepointedFacts
    <3>. QED
      BY <3>3 DEF RowKept
  <2>. QED
    BY <2>1, <2>2, <2>3
<1>8. CASE RefreshBoards \/ SyncIssues
  BY <1>0, <1>8 DEF RefreshBoards, SyncIssues, RowKept
<1>. QED
  BY <1>1, <1>2, <1>3, <1>4, <1>5, <1>6, <1>7, <1>8 DEF UserStep

LEMMA StepKeepsRows ==
    ASSUME Shape, [Next]_vars
    PROVE  nextId <= nextId' /\ lowest' \in {lowest, lowest - 1} /\ \A p \in journal' : RowKept(p)
<1>0. journal \in SUBSET Row /\ nextId \in Nat /\ doing \in SUBSET Row
  BY DEF Shape, TypeOK
<1>1. CASE UserStep
  BY <1>1, UserKeepsRows
<1>2. CASE UNCHANGED <<nextId, lowest>> /\ journal' \subseteq journal
  BY <1>0, <1>2 DEF RowKept
<1>3. CASE (\E s \in Real : RemoteState(s)) \/ (\E c \in Cards : RemoteCard(c)) \/ CommitStart \/ Crash
  BY <1>2, <1>3 DEF RemoteState, RemoteCard, Outside, CommitStart, Crash, store
<1>4. CASE UNCHANGED vars
  BY <1>2, <1>4 DEF vars, store
<1>5. ASSUME NEW r \in doing, RekeySprint(r)
      PROVE  UNCHANGED <<nextId, lowest>> /\ \A p \in journal' : RowKept(p)
  <2>1. /\ pc = "rekey" /\ UNCHANGED <<nextId, lowest>>
        /\ journal' = Rekeyed(journal, r.key, made) \/ UNCHANGED journal
    BY <1>5 DEF RekeySprint
  <2>2. CASE UNCHANGED journal
    BY <1>0, <2>1, <2>2 DEF RowKept
  <2>3. CASE journal' = Rekeyed(journal, r.key, made)
    <3>. SUFFICES ASSUME NEW n \in journal' PROVE RowKept(n)
      BY <2>1
    <3>1. made \in Ids
      BY <2>1, Numbers DEF Shape, PhaseOK
    <3>2. PICK p \in journal : /\ ~(p.type = EntitySprintCreate /\ p.key = r.key)
                               /\ n = Followed(Repointed(p, r.key, made), r.key, made)
      BY <1>0, <2>3, <3>1, RekeyedFacts
    <3>3. p \in Row
      BY <1>0
    <3>4. /\ n.id = p.id /\ n.type = p.type
          /\ n.key = IF p.type = EntitySprintStart THEN Named(p.key, r.key, made) ELSE p.key
      BY <3>1, <3>2, <3>3, RekeyedRow
    <3>. QED
      BY <3>4 DEF RowKept, EntitySprintStart, EntitySprintCreate
  <2>. QED
    BY <2>1, <2>2, <2>3
<1>6. CASE CommitStep
  <2>1. CASE \E r \in todo : RemoteCreate(r) \/ RemoteCreateFails(r)
    BY <1>2, <2>1 DEF RemoteCreate, RemoteCreateFails, store
  <2>2. CASE \E r \in todo : PushStart(r) \/ ReadSprint(r) \/ ReadDoomed(r)
    BY <1>2, <2>2 DEF PushStart, ReadSprint, ReadDoomed, Leave, Delete, store
  <2>3. CASE \E r \in doing : ForgetSprint(r) \/ MoveBatch(r) \/ MoveBatchFails(r) \/ CloseSprint(r) \/ RemoteDelete(r)
    BY <1>2, <2>3 DEF ForgetSprint, MoveBatch, MoveBatchFails, CloseSprint, RemoteDelete, store
  <2>4. CASE RekeyFails \/ StartChanges \/ StartMoves \/ CommitEnds \/ \E c \in Cards : PushCard(c)
    BY <1>2, <2>4 DEF RekeyFails, StartChanges, StartMoves, CommitEnds, PushCard, store
  <2>5. CASE \E r \in doing : Settle(r)
    BY <1>2, <2>5 DEF Settle, Delete
  <2>. QED
    BY <1>0, <1>5, <1>6, <2>1, <2>2, <2>3, <2>4, <2>5 DEF CommitStep
<1>. QED
  BY <1>1, <1>3, <1>4, <1>6 DEF Next

\* The rows a phase has in hand come from what it had, or from the journal.
LEMMA InHand ==
    ASSUME [Next]_vars
    PROVE  /\ todo' \cup doing' \subseteq todo \cup doing \cup journal
           /\ todo' \subseteq todo \cup journal
<1>1. CASE UserStep \/ UNCHANGED vars
  <2>1. UNCHANGED commit
    BY <1>1 DEF UserStep, CreateDraftSprint, StartSprint, CompleteSprint, DeleteSprint, MoveToSprint,
                MoveToDone, DiscardPendingChange, RefreshBoards, SyncIssues, Guarded, Unguarded, vars
  <2>. QED
    BY <2>1 DEF commit
<1>2. CASE (\E s \in Real : RemoteState(s)) \/ (\E c \in Cards : RemoteCard(c)) \/ CommitStart \/ Crash
  BY <1>2 DEF RemoteState, RemoteCard, Outside, CommitStart, Crash, commit
<1>3. CASE CommitStep
  <2>1. CASE \E r \in todo : RemoteCreate(r) \/ RemoteCreateFails(r)
    BY <2>1 DEF RemoteCreate, RemoteCreateFails, Took
  <2>2. CASE \E r \in todo : PushStart(r) \/ ReadSprint(r) \/ ReadDoomed(r)
    BY <2>2 DEF PushStart, ReadSprint, ReadDoomed, Leave, Sent, Took
  <2>3. CASE \E r \in doing : RekeySprint(r) \/ ForgetSprint(r) \/ Settle(r) \/ MoveBatch(r) \/ MoveBatchFails(r)
    BY <2>3 DEF RekeySprint, ForgetSprint, Settle, MoveBatch, MoveBatchFails
  <2>4. CASE RekeyFails \/ StartChanges \/ StartMoves \/ CommitEnds \/ \E c \in Cards : PushCard(c)
    BY <2>4 DEF RekeyFails, StartChanges, StartMoves, CommitEnds, PushCard
  <2>5. CASE \E r \in doing : RemoteDelete(r) \/ CloseSprint(r)
    BY <2>5 DEF RemoteDelete, CloseSprint
  <2>. QED
    BY <1>3, <2>1, <2>2, <2>3, <2>4, <2>5 DEF CommitStep
<1>. QED
  BY <1>1, <1>2, <1>3 DEF Next

LEMMA OldKept == ASSUME Shape, RowsAreOld, [Next]_vars PROVE RowsAreOld'
<1>0. /\ journal \in SUBSET Row /\ todo \in SUBSET Row /\ doing \in SUBSET Row
      /\ nextId \in Nat /\ WellKeyed(journal) /\ \A r \in journal : r.id < nextId
      /\ \A p \in journal' : p.id = nextId \/ \E q \in journal : q.id = p.id /\ q.type = p.type
      /\ nextId <= nextId' /\ nextId' \in Nat
  BY StepKeepsRows, ShapeKept DEF Shape, TypeOK, RowKept
<1>1. ASSUME NEW r \in todo' \cup doing'
      PROVE  r.id < nextId' /\ \A p \in journal' : p.id = r.id => p.type = r.type
  <2>1. r \in todo \cup doing \cup journal /\ r \in Row
    BY <1>0, InHand
  <2>2. r.id < nextId /\ r.id \in Nat
    BY <1>0, <2>1, RowFacts DEF RowsAreOld
  <2>3. \A q \in journal : q.id = r.id => q.type = r.type
    BY <1>0, <2>1 DEF RowsAreOld, WellKeyed
  <2>. QED
    BY <1>0, <2>2, <2>3
<1>2. ASSUME pc' = "settle", NEW r \in doing' PROVE r.type \in WriteTypes
  <2>1. \/ pc' = pc /\ doing' = doing
        \/ \E q \in todo : ReadDoomed(q) /\ doing' = {q}
        \/ \E q \in todo : PushStart(q) /\ doing' = {q}
        \/ pc \in {"moving", "delete"} /\ doing' = doing
    <3>1. CASE UserStep \/ UNCHANGED vars
      <4>1. UNCHANGED commit
        BY <3>1 DEF UserStep, CreateDraftSprint, StartSprint, CompleteSprint, DeleteSprint, MoveToSprint,
                    MoveToDone, DiscardPendingChange, RefreshBoards, SyncIssues, Guarded, Unguarded, vars
      <4>. QED
        BY <4>1 DEF commit
    <3>2. CASE (\E s \in Real : RemoteState(s)) \/ (\E c \in Cards : RemoteCard(c)) \/ CommitStart \/ Crash
      BY <1>2, <3>2 DEF RemoteState, RemoteCard, Outside, CommitStart, Crash, commit
    <3>3. CASE \E q \in todo : RemoteCreate(q) \/ RemoteCreateFails(q) \/ ReadSprint(q)
      BY <1>2, <3>3 DEF RemoteCreate, RemoteCreateFails, ReadSprint
    <3>4. ASSUME NEW q \in todo, PushStart(q) PROVE doing' = {q}
      BY <1>2, <3>4 DEF PushStart, Leave, Sent
    <3>5. ASSUME NEW q \in todo, ReadDoomed(q) PROVE doing' = {q}
      BY <1>2, <3>5 DEF ReadDoomed, Leave
    <3>6. CASE \E q \in doing : RekeySprint(q) \/ ForgetSprint(q) \/ Settle(q) \/ MoveBatch(q) \/ MoveBatchFails(q)
      BY <1>2, <3>6 DEF RekeySprint, ForgetSprint, Settle, MoveBatch, MoveBatchFails
    <3>7. CASE RekeyFails \/ StartChanges \/ StartMoves \/ CommitEnds \/ \E c \in Cards : PushCard(c)
      BY <1>2, <3>7 DEF RekeyFails, StartChanges, StartMoves, CommitEnds, PushCard
    <3>8. CASE \E q \in doing : RemoteDelete(q) \/ CloseSprint(q)
      BY <1>2, <3>8 DEF RemoteDelete, CloseSprint
    <3>. QED
      BY <3>1, <3>2, <3>3, <3>4, <3>5, <3>6, <3>7, <3>8 DEF Next, CommitStep
  <2>2. \A q \in todo : ReadDoomed(q) \/ PushStart(q) => q.type \in WriteTypes
    BY Kinds DEF ReadDoomed, PushStart, NextChange, Oldest
  <2>. QED
    BY <1>2, <2>1, <2>2, Kinds DEF RowsAreOld, Shape, PhaseOK
<1>3. ASSUME pc' = "moves", NEW r \in todo' PROVE r.type \in MoveTypes
  <2>1. (pc = "moves" /\ todo' \subseteq todo) \/ StartMoves
    <3>1. CASE UserStep \/ UNCHANGED vars
      <4>1. UNCHANGED commit
        BY <3>1 DEF UserStep, CreateDraftSprint, StartSprint, CompleteSprint, DeleteSprint, MoveToSprint,
                    MoveToDone, DiscardPendingChange, RefreshBoards, SyncIssues, Guarded, Unguarded, vars
      <4>. QED
        BY <1>3, <4>1 DEF commit
    <3>2. CASE (\E s \in Real : RemoteState(s)) \/ (\E c \in Cards : RemoteCard(c)) \/ CommitStart \/ Crash
      BY <1>3, <3>2 DEF RemoteState, RemoteCard, Outside, CommitStart, Crash, commit
    <3>3. CASE \E q \in todo : RemoteCreate(q) \/ RemoteCreateFails(q)
      BY <1>3, <3>3 DEF RemoteCreate, RemoteCreateFails
    <3>4. CASE \E q \in todo : PushStart(q) \/ ReadDoomed(q) \/ ReadSprint(q)
      BY <1>3, <3>4 DEF PushStart, ReadDoomed, ReadSprint, Leave, Sent
    <3>5. CASE \E q \in doing : RekeySprint(q) \/ ForgetSprint(q) \/ Settle(q) \/ MoveBatch(q) \/ MoveBatchFails(q)
      BY <1>3, <3>5 DEF RekeySprint, ForgetSprint, Settle, MoveBatch, MoveBatchFails
    <3>6. CASE RekeyFails \/ StartChanges \/ CommitEnds \/ \E c \in Cards : PushCard(c)
      BY <1>3, <3>6 DEF RekeyFails, StartChanges, CommitEnds, PushCard
    <3>7. CASE \E q \in doing : RemoteDelete(q) \/ CloseSprint(q)
      BY <1>3, <3>7 DEF RemoteDelete, CloseSprint
    <3>. QED
      BY <3>1, <3>2, <3>3, <3>4, <3>5, <3>6, <3>7 DEF Next, CommitStep
  <2>2. StartMoves => \A q \in todo' : q.type \in MoveTypes
    BY DEF StartMoves
  <2>. QED
    BY <1>3, <2>1, <2>2 DEF RowsAreOld
<1>. QED
  BY <1>1, <1>2, <1>3 DEF RowsAreOld

LEMMA OrderedKept == ASSUME Shape, Ordered, [Next]_vars PROVE Ordered'
<1>0. /\ lowest \in Int /\ lowest' \in {lowest, lowest - 1} /\ \A p \in journal' : RowKept(p)
      /\ journal \in SUBSET Row /\ todo \in SUBSET Row
      /\ makes \subseteq Drafts \X Real
  BY StepKeepsRows DEF Shape, TypeOK
<1>1. ASSUME NEW p \in journal' \cup todo', p.type = EntitySprintCreate PROVE lowest' <= p.key
  <2>1. CASE \E q \in journal \cup todo : q.type = EntitySprintCreate /\ q.key = p.key
    <3>1. PICK q \in journal \cup todo : q.type = EntitySprintCreate /\ q.key = p.key
      BY <2>1
    <3>2. lowest <= p.key /\ p.key \in Int
      BY <1>0, <3>1, RowFacts DEF Ordered
    <3>. QED
      BY <1>0, <3>2
  <2>2. CASE p.key = lowest - 1 /\ lowest' = lowest - 1
    BY <1>0, <2>2
  <2>. QED
    BY <1>0, <1>1, <2>1, <2>2, InHand DEF RowKept
<1>2. ASSUME NEW m \in makes' PROVE lowest' <= m[1]
  <2>1. m \in makes \/ \E r \in todo : pc = "creates" /\ m[1] = r.key
    <3>1. CASE UserStep \/ UNCHANGED vars
      <4>1. UNCHANGED makes
        BY <3>1 DEF UserStep, CreateDraftSprint, StartSprint, CompleteSprint, DeleteSprint, MoveToSprint,
                    MoveToDone, DiscardPendingChange, RefreshBoards, SyncIssues, Guarded, Unguarded,
                    vars, history
      <4>. QED
        BY <4>1
    <3>2. CASE (\E s \in Real : RemoteState(s)) \/ (\E c \in Cards : RemoteCard(c)) \/ CommitStart \/ Crash
      BY <3>2 DEF RemoteState, RemoteCard, Outside, CommitStart, Crash, history
    <3>3. CASE \E q \in todo : RemoteCreate(q) \/ RemoteCreateFails(q)
      BY <3>3 DEF RemoteCreate, RemoteCreateFails, Lands
    <3>4. CASE \E q \in todo : PushStart(q) \/ ReadDoomed(q) \/ ReadSprint(q)
      BY <3>4 DEF PushStart, ReadDoomed, ReadSprint, history
    <3>5. CASE \E q \in doing : RekeySprint(q) \/ ForgetSprint(q) \/ Settle(q) \/ MoveBatch(q) \/ MoveBatchFails(q)
      BY <3>5 DEF RekeySprint, ForgetSprint, Settle, MoveBatch, MoveBatchFails, history
    <3>6. CASE RekeyFails \/ StartChanges \/ StartMoves \/ CommitEnds \/ \E c \in Cards : PushCard(c)
      BY <3>6 DEF RekeyFails, StartChanges, StartMoves, CommitEnds, PushCard, history
    <3>7. CASE \E q \in doing : RemoteDelete(q) \/ CloseSprint(q)
      BY <3>7 DEF RemoteDelete, CloseSprint, history
    <3>. QED
      BY <3>1, <3>2, <3>3, <3>4, <3>5, <3>6, <3>7 DEF Next, CommitStep
  <2>2. CASE m \in makes
    <3>1. lowest <= m[1] /\ m[1] \in Int
      BY <1>0, <2>2, Numbers DEF Ordered
    <3>. QED
      BY <1>0, <3>1
  <2>3. CASE \E r \in todo : pc = "creates" /\ m[1] = r.key
    <3>1. PICK r \in todo : pc = "creates" /\ m[1] = r.key
      BY <2>3
    <3>2. lowest <= m[1] /\ m[1] \in Int
      BY <1>0, <3>1, RowFacts DEF Ordered, Shape, PhaseOK
    <3>. QED
      BY <1>0, <3>2
  <2>. QED
    BY <2>1, <2>2, <2>3
<1>. QED
  BY <1>1, <1>2 DEF Ordered

\* What a renaming keeps.
LEMMA RewrittenHas ==
    ASSUME NEW rows, NEW q \in rows, q.type # EntitySprintMove, NEW from, NEW to
    PROVE  q \in RewrittenRows(rows, from, to)
BY DEF RewrittenRows

LEMMA RekeyedHas ==
    ASSUME NEW rows, NEW q \in rows, q.type = EntitySprintCreate, NEW d, q.key # d, NEW id
    PROVE  q \in Rekeyed(rows, d, id)
<1>. DEFINE kept == {r \in rows : ~(r.type = EntitySprintCreate /\ r.key = d)}
<1>1. q \in kept /\ q.type # EntitySprintMove /\ q.type # EntitySprintStart
  BY DEF EntitySprintMove, EntitySprintStart, EntitySprintCreate
<1>2. q \in RewrittenRows(kept, d, id)
  BY <1>1, RewrittenHas
<1>. QED
  BY <1>1, <1>2 DEF Rekeyed

\* Where the tables name a draft.
NamesIt(d) ==
    \/ \E c \in Cards : column[c] = d
    \/ \E r \in journal : r.type = EntitySprintStart /\ r.key = d
    \/ \E r \in journal : r.type = EntitySprintMove /\ (r.before = d \/ r.after = d)

\* A draft whose row goes is drawn no longer, and is named nowhere or was lost
\* sight of.
Resolved(d) == cached'[d] = "none" /\ (d \in forgotten' \/ ~NamesIt(d)')

LEMMA DiscardResolves ==
    ASSUME Shape, NEW d \in Drafts, Queued(EntitySprintCreate, d),
           NEW r \in journal, DiscardPendingChange(r)
    PROVE  Queued(EntitySprintCreate, d)' \/ Resolved(d)
<1>. DEFINE W == IF r.type # EntitySprintCreate THEN {r}
                 ELSE {p \in journal : \/ p = r
                                       \/ p.type = EntitySprintMove /\ p.after = r.key
                                       \/ p.type = EntitySprintStart /\ p.key = r.key}
<1>0. /\ journal \in SUBSET Row /\ cached \in [Real \cup Drafts -> States]
      /\ Backlog \in Ids /\ d # Backlog
  BY Numbers DEF Shape, TypeOK
<1>1. PICK q \in journal : q.type = EntitySprintCreate /\ q.key = d /\ q.field = EntitySprintCreate
  BY DEF Queued, RowsAt
<1>2. IF r.type = EntitySprintCreate
      THEN /\ journal' = RewrittenRows(journal \ W, r.key, Backlog)
           /\ column' = RewrittenColumn(Reverted(W), r.key, Backlog)
           /\ cached' = [cached EXCEPT ![r.key] = "none"]
      ELSE journal' = journal \ W
  BY DEF DiscardPendingChange
<1>3. CASE r.type # EntitySprintCreate
  <2>1. q \in journal'
    BY <1>1, <1>2, <1>3
  <2>. QED
    BY <1>1, <2>1 DEF Queued, RowsAt
<1>4. CASE r.type = EntitySprintCreate /\ r.key # d
  <2>1. q \in journal \ W /\ q.type # EntitySprintMove
    BY <1>1, <1>4 DEF EntitySprintMove, EntitySprintStart, EntitySprintCreate
  <2>2. q \in journal'
    <3>1. q \in RewrittenRows(journal \ W, r.key, Backlog)
      BY <2>1, RewrittenHas
    <3>. QED
      BY <1>2, <1>4, <3>1
  <2>. QED
    BY <1>1, <2>2 DEF Queued, RowsAt
<1>5. CASE r.type = EntitySprintCreate /\ r.key = d
  <2>1. cached'[d] = "none"
    BY <1>0, <1>2, <1>5
  <2>2. \A c \in Cards : column'[c] # d
    BY <1>0, <1>2, <1>5 DEF RewrittenColumn, Named
  <2>3. \A p \in journal \ W : p.type = EntitySprintStart => p.key # d
    BY <1>5
  <2>4. journal \ W \in SUBSET Row
    BY <1>0
  <2>. HIDE DEF W
  <2>5. ASSUME NEW n \in journal'
        PROVE  /\ n.type = EntitySprintStart => n.key # d
               /\ n.type = EntitySprintMove => n.before # d /\ n.after # d
    <3>1. PICK p \in journal \ W : n = Repointed(p, d, Backlog)
      BY <1>0, <1>2, <1>5, <2>4, RewrittenFacts
    <3>2. p \in Row
      BY <2>4
    <3>3. /\ n.type = p.type /\ n.key = p.key
          /\ p.type = EntitySprintMove => n.before = Named(p.before, d, Backlog)
                                         /\ n.after = Named(p.after, d, Backlog)
      BY <1>0, <3>1, <3>2, RepointedFacts
    <3>. QED
      BY <1>0, <2>3, <3>1, <3>3 DEF Named
  <2>. QED
    BY <2>1, <2>2, <2>5 DEF Resolved, NamesIt
<1>. QED
  BY <1>3, <1>4, <1>5

LEMMA RekeyResolves ==
    ASSUME Shape, NEW d \in Drafts, Queued(EntitySprintCreate, d), NEW r \in doing,
           RekeySprint(r) \/ ForgetSprint(r)
    PROVE  Queued(EntitySprintCreate, d)' \/ (Resolved(d) /\ r.key = d)
<1>0. /\ journal \in SUBSET Row /\ doing \in SUBSET Row /\ cached \in [Real \cup Drafts -> States]
      /\ d \in Ids /\ d \notin Real
  BY Numbers DEF Shape, TypeOK
<1>1. PICK q \in journal : q.type = EntitySprintCreate /\ q.key = d /\ q.field = EntitySprintCreate
  BY DEF Queued, RowsAt
<1>2. ASSUME ForgetSprint(r) PROVE Queued(EntitySprintCreate, d)' \/ (Resolved(d) /\ r.key = d)
  <2>1. \/ /\ journal' = {p \in journal : ~(p.type = EntitySprintCreate /\ p.key = r.key)}
           /\ cached' = [cached EXCEPT ![r.key] = "none"]
           /\ forgotten' = forgotten \cup {r.key}
        \/ UNCHANGED journal
    BY <1>2 DEF ForgetSprint
  <2>2. CASE UNCHANGED journal \/ r.key # d
    BY <1>1, <2>1, <2>2 DEF Queued, RowsAt
  <2>3. CASE r.key = d /\ cached' = [cached EXCEPT ![r.key] = "none"] /\ forgotten' = forgotten \cup {r.key}
    BY <1>0, <2>3 DEF Resolved
  <2>. QED
    BY <2>1, <2>2, <2>3
<1>3. ASSUME RekeySprint(r) PROVE Queued(EntitySprintCreate, d)' \/ (Resolved(d) /\ r.key = d)
  <2>1. /\ pc = "rekey"
        /\ IF Queued(EntitySprintCreate, r.key)
           THEN /\ journal' = Rekeyed(journal, r.key, made)
                /\ column' = RewrittenColumn(column, r.key, made)
                /\ cached' = [cached EXCEPT ![r.key] = "none", ![made] = "future"]
           ELSE UNCHANGED <<cached, column, journal>>
    BY <1>3 DEF RekeySprint
  <2>2. made \in Real /\ made \in Ids /\ made # d
    BY <1>0, <2>1, Numbers DEF Shape, PhaseOK
  <2>3. CASE ~Queued(EntitySprintCreate, r.key)
    BY <1>1, <2>1, <2>3 DEF Queued, RowsAt
  <2>4. CASE Queued(EntitySprintCreate, r.key) /\ r.key # d
    <3>1. q \in Rekeyed(journal, r.key, made)
      BY <1>1, <2>4, RekeyedHas
    <3>2. q \in journal'
      BY <2>1, <2>4, <3>1
    <3>. QED
      BY <1>1, <3>2 DEF Queued, RowsAt
  <2>5. CASE Queued(EntitySprintCreate, r.key) /\ r.key = d
    <3>1. cached'[d] = "none" /\ \A c \in Cards : column'[c] # d
      BY <1>0, <2>1, <2>2, <2>5 DEF RewrittenColumn, Named
    <3>2. ASSUME NEW n \in journal'
          PROVE  /\ n.type = EntitySprintStart => n.key # d
                 /\ n.type = EntitySprintMove => n.before # d /\ n.after # d
      <4>0. journal' = Rekeyed(journal, d, made)
        BY <2>1, <2>5
      <4>1. PICK p \in journal : /\ ~(p.type = EntitySprintCreate /\ p.key = d)
                                 /\ n = Followed(Repointed(p, d, made), d, made)
        BY <1>0, <2>2, <4>0, RekeyedFacts
      <4>2. p \in Row
        BY <1>0
      <4>3. /\ n.type = p.type
            /\ n.key = IF p.type = EntitySprintStart THEN Named(p.key, d, made) ELSE p.key
            /\ n.after = IF p.type = EntitySprintMove THEN Named(p.after, d, made) ELSE p.after
            /\ n.before = IF p.type = EntitySprintMove THEN Named(p.before, d, made) ELSE p.before
        BY <2>2, <4>1, <4>2, RekeyedRow
      <4>. QED
        BY <2>2, <4>3 DEF Named
    <3>. QED
      BY <2>5, <3>1, <3>2 DEF Resolved, NamesIt
  <2>. QED
    BY <2>3, <2>4, <2>5
<1>. QED
  BY <1>2, <1>3

\* A draft's row stands until it is discarded, or Jira has the sprint.
LEMMA CreatesGo ==
    ASSUME Shape, RowsAreOld, [Next]_vars, NEW d \in Drafts, Queued(EntitySprintCreate, d)
    PROVE  Queued(EntitySprintCreate, d)' \/ Resolved(d)
<1>1. PICK q \in journal : q.type = EntitySprintCreate /\ q.key = d /\ q.field = EntitySprintCreate
  BY DEF Queued, RowsAt
<1>2. ASSUME NEW n \in journal', n.type = q.type, n.key = q.key, n.field = q.field
      PROVE  Queued(EntitySprintCreate, d)'
  BY <1>1, <1>2 DEF Queued, RowsAt
<1>3. CASE q \in journal'
  BY <1>2, <1>3
<1>4. CASE \E s \in Real \cup Drafts : StartSprint(s)
  BY <1>1, <1>2, <1>4, EnqueuedRows DEF StartSprint
<1>5. CASE CreateDraftSprint \/ (\E s \in Real : DeleteSprint(s))
           \/ (\E s \in Real : \E to \in Real \cup {Backlog} : CompleteSprint(s, to))
  BY <1>1, <1>2, <1>5, EnqueuedRows DEF CreateDraftSprint, DeleteSprint, CompleteSprint
<1>6. ASSUME NEW c \in Cards, MoveToDone(c) PROVE Queued(EntitySprintCreate, d)'
  BY <1>1, <1>2, <1>6, EnqueuedRows DEF MoveToDone
<1>7. ASSUME NEW c \in Cards, NEW s \in Ids, MoveToSprint(c, s) PROVE Queued(EntitySprintCreate, d)'
  <2>1. \/ journal' = journal \ RowsAt(journal, EntitySprintMove, c, EntitySprintMove)
        \/ Enqueue(EntitySprintMove, c, column[c], s)
    BY <1>7 DEF MoveToSprint
  <2>2. q \notin RowsAt(journal, EntitySprintMove, c, EntitySprintMove)
    BY <1>1 DEF RowsAt, EntitySprintMove, EntitySprintCreate
  <2>. QED
    BY <1>1, <1>2, <1>3, <2>1, <2>2, EnqueuedRows
<1>8. CASE \E r \in journal : DiscardPendingChange(r)
  BY <1>8, DiscardResolves
<1>9. CASE \E r \in doing : RekeySprint(r) \/ ForgetSprint(r)
  BY <1>9, RekeyResolves
<1>10. CASE RefreshBoards \/ SyncIssues \/ UNCHANGED vars \/ CommitStart \/ Crash
            \/ (\E s \in Real : RemoteState(s)) \/ (\E c \in Cards : RemoteCard(c))
  BY <1>1, <1>3, <1>10 DEF RefreshBoards, SyncIssues, vars, store, CommitStart, Crash,
                           RemoteState, RemoteCard, Outside
<1>11. CASE \/ \E r \in todo : RemoteCreate(r) \/ RemoteCreateFails(r) \/ PushStart(r) \/ ReadDoomed(r)
            \/ RekeyFails \/ StartChanges \/ StartMoves \/ CommitEnds
            \/ \E r \in doing : MoveBatch(r) \/ MoveBatchFails(r) \/ CloseSprint(r) \/ RemoteDelete(r)
  BY <1>1, <1>3, <1>11 DEF RemoteCreate, RemoteCreateFails, PushStart, ReadDoomed, Leave, RekeyFails,
                           StartChanges, StartMoves, CommitEnds, MoveBatch, MoveBatchFails,
                           CloseSprint, RemoteDelete, store
<1>12. ASSUME NEW r \in todo, ReadSprint(r) PROVE q \in journal'
  <2>1. r.type = EntitySprintComplete /\ (journal' = journal \/ journal' = Delete(journal, {r.id}))
    BY <1>12 DEF ReadSprint, NextChange, Oldest
  <2>2. q.id # r.id
    BY <1>1, <2>1 DEF RowsAreOld, EntitySprintComplete, EntitySprintCreate
  <2>. QED
    BY <1>1, <2>1, <2>2 DEF Delete
<1>13. ASSUME NEW r \in doing, Settle(r) PROVE q \in journal'
  <2>1. pc = "settle" /\ (journal' = journal \/ journal' = Delete(journal, {r.id}))
    BY <1>13 DEF Settle
  <2>2. q.id # r.id
    BY <1>1, <2>1, Kinds DEF RowsAreOld
  <2>. QED
    BY <1>1, <2>1, <2>2 DEF Delete
<1>14. ASSUME NEW c \in Cards, PushCard(c) PROVE q \in journal'
  <2>1. pc = "moves"
    BY <1>14 DEF PushCard
  <2>2. PICK cleared \in SUBSET todo :
           journal' = {p \in journal : ~\E r \in cleared : p.id = r.id /\ p.after = r.after}
    BY <1>14 DEF PushCard
  <2>3. \A r \in todo : q.id # r.id
    BY <1>1, <2>1, Kinds DEF RowsAreOld
  <2>. QED
    BY <1>1, <2>2, <2>3
<1>. QED
  BY <1>3, <1>4, <1>5, <1>6, <1>7, <1>8, <1>9, <1>10, <1>11, <1>12, <1>13, <1>14
     DEF Next, UserStep, CommitStep

LEMMA DrawnKept == ASSUME Shape, RowsAreOld, DraftsDrawn, [Next]_vars PROVE DraftsDrawn'
<1>. SUFFICES ASSUME NEW d \in Drafts, cached'[d] # "none" PROVE Queued(EntitySprintCreate, d)'
  BY DEF DraftsDrawn
<1>0. /\ cached \in [Real \cup Drafts -> States] /\ d \notin Real
      /\ \A r \in doing : r.type = EntitySprintDelete => r.key \in Real
      /\ pc = "rekey" => made \in Real
  BY Numbers DEF Shape, TypeOK, RowsOK, RowOK, PhaseOK
<1>1. CASE cached[d] # "none"
  BY <1>1, CreatesGo DEF DraftsDrawn, Resolved
<1>2. CASE CreateDraftSprint
  <2>1. CASE d = lowest - 1
    BY <1>2, <2>1, EnqueuedRows DEF CreateDraftSprint, Queued
  <2>2. CASE d # lowest - 1
    BY <1>0, <1>1, <1>2, <2>2 DEF CreateDraftSprint
  <2>. QED
    BY <2>1, <2>2
<1>3. CASE cached'[d] \in {cached[d], "none"}
  BY <1>1, <1>3
<1>4. CASE UserStep
  <2>1. CASE \E s \in Real \cup Drafts : StartSprint(s)
    BY <1>3, <2>1 DEF StartSprint
  <2>2. CASE (\E s \in Real : DeleteSprint(s))
             \/ (\E s \in Real : \E to \in Real \cup {Backlog} : CompleteSprint(s, to))
    BY <1>3, <2>2 DEF DeleteSprint, CompleteSprint
  <2>3. CASE \E c \in Cards : MoveToDone(c) \/ \E s \in Ids : MoveToSprint(c, s)
    BY <1>3, <2>3 DEF MoveToDone, MoveToSprint
  <2>4. CASE \E r \in journal : DiscardPendingChange(r)
    BY <1>0, <1>3, <2>4 DEF DiscardPendingChange
  <2>5. CASE RefreshBoards \/ SyncIssues
    BY <1>0, <1>3, <2>5 DEF RefreshBoards, SyncIssues, Refreshed
  <2>. QED
    BY <1>2, <1>4, <2>1, <2>2, <2>3, <2>4, <2>5 DEF UserStep
<1>5. CASE UNCHANGED vars \/ CommitStart \/ Crash
           \/ (\E s \in Real : RemoteState(s)) \/ (\E c \in Cards : RemoteCard(c))
  BY <1>3, <1>5 DEF vars, store, CommitStart, Crash, RemoteState, RemoteCard, Outside
<1>6. CASE CommitStep
  <2>1. CASE \E r \in todo : RemoteCreate(r) \/ RemoteCreateFails(r) \/ PushStart(r) \/ ReadDoomed(r) \/ ReadSprint(r)
    BY <1>3, <2>1 DEF RemoteCreate, RemoteCreateFails, PushStart, ReadDoomed, ReadSprint, Leave, store
  <2>2. CASE RekeyFails \/ StartChanges \/ StartMoves \/ CommitEnds \/ \E c \in Cards : PushCard(c)
    BY <1>3, <2>2 DEF RekeyFails, StartChanges, StartMoves, CommitEnds, PushCard, store
  <2>3. CASE \E r \in doing : MoveBatch(r) \/ MoveBatchFails(r) \/ CloseSprint(r) \/ RemoteDelete(r)
    BY <1>3, <2>3 DEF MoveBatch, MoveBatchFails, CloseSprint, RemoteDelete, store
  <2>4. ASSUME NEW r \in doing, RekeySprint(r) \/ ForgetSprint(r) PROVE cached'[d] \in {cached[d], "none"}
    BY <1>0, <2>4 DEF RekeySprint, ForgetSprint
  <2>5. ASSUME NEW r \in doing, Settle(r) PROVE cached'[d] \in {cached[d], "none"}
    <3>1. cached' \in {Refreshed, IF r.type = EntitySprintDelete THEN [cached EXCEPT ![r.key] = "none"] ELSE cached, cached}
      BY <2>5 DEF Settle
    <3>. QED
      BY <1>0, <3>1 DEF Refreshed
  <2>. QED
    BY <1>3, <1>6, <2>1, <2>2, <2>3, <2>4, <2>5 DEF CommitStep
<1>. QED
  BY <1>4, <1>5, <1>6 DEF Next

\* What a card is drawn in comes from the journal, or from what was drawn.
LEMMA RevertedFrom ==
    ASSUME NEW rows, NEW c \in Cards
    PROVE  \/ Reverted(rows)[c] = column[c]
           \/ \E r \in rows : r.type = EntitySprintMove /\ Reverted(rows)[c] = r.before
<1>. DEFINE home == {r \in rows : r.key = c /\ HoldsMove(r)}
<1>1. Reverted(rows)[c] = BeforeVal(home, EntitySprintMove, c, EntitySprintMove, column[c])
  BY DEF Reverted
<1>2. CASE RowsAt(home, EntitySprintMove, c, EntitySprintMove) = {}
  BY <1>1, <1>2 DEF BeforeVal
<1>3. CASE RowsAt(home, EntitySprintMove, c, EntitySprintMove) # {}
  <2>. DEFINE r == RowAt(home, EntitySprintMove, c, EntitySprintMove)
  <2>1. r \in home /\ r.type = EntitySprintMove
    BY <1>3, RowAtIsThere
  <2>2. Reverted(rows)[c] = r.before
    BY <1>1, <1>3 DEF BeforeVal
  <2>. QED
    BY <2>1, <2>2
<1>. QED
  BY <1>2, <1>3

LEMMA FreshFrom ==
    ASSUME NEW rows, NEW places, NEW c \in Cards
    PROVE  \/ Fresh(rows, places)[c] = places[c]
           \/ \E r \in rows : r.type = EntitySprintMove /\ Fresh(rows, places)[c] = r.after
<1>1. Fresh(rows, places)[c] = AfterVal(rows, EntitySprintMove, c, EntitySprintMove, places[c])
  BY DEF Fresh
<1>2. CASE RowsAt(rows, EntitySprintMove, c, EntitySprintMove) = {}
  BY <1>1, <1>2 DEF AfterVal
<1>3. CASE RowsAt(rows, EntitySprintMove, c, EntitySprintMove) # {}
  <2>. DEFINE r == RowAt(rows, EntitySprintMove, c, EntitySprintMove)
  <2>1. r \in rows /\ r.type = EntitySprintMove
    BY <1>3, RowAtIsThere
  <2>2. Fresh(rows, places)[c] = r.after
    BY <1>1, <1>3 DEF AfterVal
  <2>. QED
    BY <2>1, <2>2
<1>. QED
  BY <1>2, <1>3

\* Without a card dropped on a draft that is gone, a step names only drafts
\* that were named, or that are queued.
LEMMA UserNames ==
    ASSUME Shape, DraftsDrawn, "stale" \notin Env, UserStep, NEW d \in Drafts, NamesIt(d)'
    PROVE  NamesIt(d) \/ Queued(EntitySprintCreate, d)
<1>0. /\ journal \in SUBSET Row /\ column \in [Cards -> Ids] /\ place \in [Cards -> Real \cup {Backlog}]
      /\ d \notin Real /\ d # Backlog /\ Backlog \in Ids
      /\ \A q \in journal : q.type \in MoveTypes => q.key \in Cards
  BY Numbers DEF Shape, TypeOK, RowsOK, RowOK
<1>1. ASSUME UNCHANGED column,
             \A n \in journal' : n \in journal \/ n.type \notin {EntitySprintStart, EntitySprintMove}
      PROVE  NamesIt(d)
  BY <1>1 DEF NamesIt
<1>2. CASE CreateDraftSprint
  BY <1>1, <1>2, EnqueuedRows DEF CreateDraftSprint, EntitySprintCreate, EntitySprintStart, EntitySprintMove
<1>3. ASSUME NEW s \in Real, DeleteSprint(s) PROVE NamesIt(d)
  BY <1>1, <1>3, EnqueuedRows DEF DeleteSprint, EntitySprintDelete, EntitySprintStart, EntitySprintMove
<1>4. ASSUME NEW s \in Real, NEW to \in Real \cup {Backlog}, CompleteSprint(s, to) PROVE NamesIt(d)
  BY <1>1, <1>4, EnqueuedRows DEF CompleteSprint, EntitySprintComplete, EntitySprintStart, EntitySprintMove
<1>5. ASSUME NEW c \in Cards, MoveToDone(c) PROVE NamesIt(d)
  BY <1>1, <1>5, EnqueuedRows DEF MoveToDone, EntityTransition, EntitySprintStart, EntitySprintMove
<1>6. ASSUME NEW s \in Real \cup Drafts, StartSprint(s) PROVE NamesIt(d) \/ Queued(EntitySprintCreate, d)
  <2>1. /\ s \in Drafts => Queued(EntitySprintCreate, s)
        /\ UNCHANGED column
        /\ \A n \in journal' : n \in journal \/ (n.type = EntitySprintStart /\ n.key = s)
    BY <1>6, EnqueuedRows DEF StartSprint
  <2>. QED
    BY <2>1 DEF NamesIt, EntitySprintStart, EntitySprintMove
<1>7. ASSUME NEW c \in Cards, NEW s \in Ids, MoveToSprint(c, s)
      PROVE  NamesIt(d) \/ Queued(EntitySprintCreate, d)
  <2>. DEFINE pending == RowsAt(journal, EntitySprintMove, c, EntitySprintMove)
  <2>1. /\ Open(cached, s)
        /\ \/ journal' = journal \ pending /\ column' = Reverted(pending)
           \/ Enqueue(EntitySprintMove, c, column[c], s) /\ column' = [column EXCEPT ![c] = s]
    BY <1>7 DEF MoveToSprint, Offered
  <2>2. s = d => Queued(EntitySprintCreate, d)
    BY <1>0, <2>1 DEF Open, DraftsDrawn
  <2>3. pending \subseteq journal
    BY DEF RowsAt
  <2>. HIDE DEF pending
  <2>4. CASE journal' = journal \ pending /\ column' = Reverted(pending)
    <3>1. \A b \in Cards : column'[b] = column[b]
                           \/ \E r \in journal : r.type = EntitySprintMove /\ column'[b] = r.before
      BY <2>3, <2>4, RevertedFrom
    <3>. QED
      BY <2>4, <3>1 DEF NamesIt
  <2>5. CASE Enqueue(EntitySprintMove, c, column[c], s) /\ column' = [column EXCEPT ![c] = s]
    <3>1. \A n \in journal' :
             \/ n \in journal
             \/ /\ n.type = EntitySprintMove /\ n.after = s
                /\ \/ n.before = column[c]
                   \/ \E q \in journal : q.type = EntitySprintMove /\ n.before = q.before
      BY <2>5, EnqueuedRows
    <3>2. \A b \in Cards : column'[b] \in {s, column[b]}
      BY <1>0, <2>5
    <3>. QED
      BY <2>2, <3>1, <3>2 DEF NamesIt, EntitySprintStart, EntitySprintMove
  <2>. QED
    BY <2>1, <2>4, <2>5
<1>8. ASSUME NEW r \in journal, DiscardPendingChange(r) PROVE NamesIt(d)
  <2>. DEFINE W == IF r.type # EntitySprintCreate THEN {r}
                   ELSE {p \in journal : \/ p = r
                                         \/ p.type = EntitySprintMove /\ p.after = r.key
                                         \/ p.type = EntitySprintStart /\ p.key = r.key}
  <2>1. /\ W \subseteq journal
        /\ \/ /\ journal' = RewrittenRows(journal \ W, r.key, Backlog)
              /\ column' = RewrittenColumn(Reverted(W), r.key, Backlog)
           \/ journal' = journal \ W /\ column' = Reverted(W)
    BY <1>8 DEF DiscardPendingChange
  <2>. HIDE DEF W
  <2>2. \A b \in Cards : \/ Reverted(W)[b] = column[b]
                         \/ \E q \in journal : q.type = EntitySprintMove /\ Reverted(W)[b] = q.before
    BY <2>1, RevertedFrom
  <2>3. CASE journal' = journal \ W /\ column' = Reverted(W)
    BY <2>2, <2>3 DEF NamesIt
  <2>4. CASE /\ journal' = RewrittenRows(journal \ W, r.key, Backlog)
             /\ column' = RewrittenColumn(Reverted(W), r.key, Backlog)
    <3>1. \A b \in Cards : column'[b] = d => Reverted(W)[b] = d
      BY <1>0, <2>4 DEF RewrittenColumn, Named
    <3>2. ASSUME NEW n \in journal'
          PROVE  \E p \in journal : /\ n.type = p.type /\ n.key = p.key
                                    /\ n.type = EntitySprintMove /\ n.before = d => p.before = d
                                    /\ n.type = EntitySprintMove /\ n.after = d => p.after = d
      <4>1. journal \ W \in SUBSET Row
        BY <1>0
      <4>2. PICK p \in journal \ W : n = Repointed(p, r.key, Backlog)
        BY <1>0, <2>4, <4>1, RewrittenFacts
      <4>3. /\ n.type = p.type /\ n.key = p.key
            /\ p.type = EntitySprintMove => n.before = Named(p.before, r.key, Backlog)
                                           /\ n.after = Named(p.after, r.key, Backlog)
        BY <1>0, <4>1, <4>2, RepointedFacts
      <4>. QED
        BY <1>0, <4>3 DEF Named
    <3>. QED
      BY <2>2, <3>1, <3>2 DEF NamesIt
  <2>. QED
    BY <2>1, <2>3, <2>4
<1>9. CASE RefreshBoards
  BY <1>1, <1>9 DEF RefreshBoards
<1>10. CASE SyncIssues
  <2>1. column' = Fresh(journal, place) /\ journal' = journal
    BY <1>10 DEF SyncIssues
  <2>2. \A b \in Cards : \/ column'[b] = place[b]
                         \/ \E q \in journal : q.type = EntitySprintMove /\ column'[b] = q.after
    BY <2>1, FreshFrom
  <2>. QED
    BY <1>0, <2>1, <2>2 DEF NamesIt
<1>. QED
  BY <1>2, <1>3, <1>4, <1>5, <1>6, <1>7, <1>8, <1>9, <1>10 DEF UserStep

LEMMA StepNames ==
    ASSUME Shape, DraftsDrawn, "stale" \notin Env, [Next]_vars, NEW d \in Drafts, NamesIt(d)'
    PROVE  NamesIt(d) \/ Queued(EntitySprintCreate, d)
<1>0. /\ journal \in SUBSET Row /\ column \in [Cards -> Ids]
      /\ d \notin Real /\ d # Backlog /\ Backlog \in Ids
      /\ place' \in [Cards -> Real \cup {Backlog}]
  BY Numbers, ShapeKept DEF Shape, TypeOK
<1>1. CASE UserStep
  BY <1>1, UserNames
<1>2. CASE UNCHANGED column /\ journal' \subseteq journal
  BY <1>2 DEF NamesIt
<1>3. CASE UNCHANGED vars \/ CommitStart \/ Crash
           \/ (\E s \in Real : RemoteState(s)) \/ (\E c \in Cards : RemoteCard(c))
  BY <1>2, <1>3 DEF vars, store, CommitStart, Crash, RemoteState, RemoteCard, Outside
<1>4. CASE CommitStep
  <2>1. CASE \E r \in todo : RemoteCreate(r) \/ RemoteCreateFails(r)
    BY <1>2, <2>1 DEF RemoteCreate, RemoteCreateFails, store
  <2>2. CASE \E r \in todo : PushStart(r) \/ ReadSprint(r) \/ ReadDoomed(r)
    BY <1>2, <2>2 DEF PushStart, ReadSprint, ReadDoomed, Leave, Delete, store
  <2>3. CASE \E r \in doing : ForgetSprint(r) \/ MoveBatch(r) \/ MoveBatchFails(r) \/ CloseSprint(r) \/ RemoteDelete(r)
    BY <1>2, <2>3 DEF ForgetSprint, MoveBatch, MoveBatchFails, CloseSprint, RemoteDelete, store
  <2>4. CASE RekeyFails \/ StartChanges \/ StartMoves \/ CommitEnds
    BY <1>2, <2>4 DEF RekeyFails, StartChanges, StartMoves, CommitEnds, store
  <2>5. ASSUME NEW r \in doing, Settle(r) PROVE NamesIt(d)
    <3>1. /\ journal' \subseteq journal
          /\ column' = column \/ column' = RewrittenColumn(column, r.key, Backlog)
      BY <2>5 DEF Settle, Delete
    <3>2. \A c \in Cards : column'[c] = d => column[c] = d
      BY <1>0, <3>1 DEF RewrittenColumn, Named
    <3>. QED
      BY <3>1, <3>2 DEF NamesIt
  <2>6. ASSUME NEW c \in Cards, PushCard(c) PROVE NamesIt(d)
    <3>1. /\ journal' \subseteq journal
          /\ column' = column \/ column' = [column EXCEPT ![c] = Fresh(journal', place')[c]]
      BY <2>6 DEF PushCard
    <3>2. \/ Fresh(journal', place')[c] = place'[c]
          \/ \E r \in journal' : r.type = EntitySprintMove /\ Fresh(journal', place')[c] = r.after
      BY FreshFrom
    <3>3. \A b \in Cards : \/ column'[b] = column[b] \/ column'[b] \in Real \cup {Backlog}
                           \/ \E r \in journal : r.type = EntitySprintMove /\ column'[b] = r.after
      BY <1>0, <3>1, <3>2
    <3>. QED
      BY <1>0, <3>1, <3>3 DEF NamesIt
  <2>7. ASSUME NEW r \in doing, RekeySprint(r) PROVE NamesIt(d)
    <3>1. /\ pc = "rekey"
          /\ \/ journal' = Rekeyed(journal, r.key, made) /\ column' = RewrittenColumn(column, r.key, made)
             \/ UNCHANGED <<column, journal>>
      BY <2>7 DEF RekeySprint
    <3>2. made \in Real /\ made \in Ids /\ made # d
      BY <1>0, <3>1, Numbers DEF Shape, PhaseOK
    <3>3. CASE UNCHANGED <<column, journal>>
      BY <3>3 DEF NamesIt
    <3>4. CASE journal' = Rekeyed(journal, r.key, made) /\ column' = RewrittenColumn(column, r.key, made)
      <4>1. \A b \in Cards : column'[b] = d => column[b] = d
        BY <3>2, <3>4 DEF RewrittenColumn, Named
      <4>2. ASSUME NEW n \in journal'
            PROVE  \E p \in journal : /\ n.type = p.type
                                      /\ n.type = EntitySprintStart /\ n.key = d => p.key = d
                                      /\ n.type = EntitySprintMove /\ n.before = d => p.before = d
                                      /\ n.type = EntitySprintMove /\ n.after = d => p.after = d
        <5>1. PICK p \in journal : /\ ~(p.type = EntitySprintCreate /\ p.key = r.key)
                                   /\ n = Followed(Repointed(p, r.key, made), r.key, made)
          BY <1>0, <3>2, <3>4, RekeyedFacts
        <5>2. p \in Row
          BY <1>0
        <5>3. /\ n.type = p.type
              /\ n.key = IF p.type = EntitySprintStart THEN Named(p.key, r.key, made) ELSE p.key
              /\ n.after = IF p.type = EntitySprintMove THEN Named(p.after, r.key, made) ELSE p.after
              /\ n.before = IF p.type = EntitySprintMove THEN Named(p.before, r.key, made) ELSE p.before
          BY <3>2, <5>1, <5>2, RekeyedRow
        <5>. QED
          BY <3>2, <5>3 DEF Named
      <4>. QED
        BY <4>1, <4>2 DEF NamesIt
    <3>. QED
      BY <3>1, <3>3, <3>4
  <2>. QED
    BY <1>4, <2>1, <2>2, <2>3, <2>4, <2>5, <2>6, <2>7 DEF CommitStep
<1>. QED
  BY <1>1, <1>3, <1>4 DEF Next

LEMMA PlaceholdersAreNamed == \A d : d \in Placeholders <=> d \in Drafts /\ NamesIt(d)
BY DEF Placeholders, NamesIt

\* What is lost sight of, or cannot be recorded, stays so.
LEMMA HistoryGrows ==
    ASSUME [Next]_vars
    PROVE  forgotten \subseteq forgotten' /\ unknown \subseteq unknown'
<1>1. CASE UserStep \/ UNCHANGED vars
  <2>1. UNCHANGED history
    BY <1>1 DEF UserStep, CreateDraftSprint, StartSprint, CompleteSprint, DeleteSprint, MoveToSprint,
                MoveToDone, DiscardPendingChange, RefreshBoards, SyncIssues, Guarded, Unguarded, vars
  <2>. QED
    BY <2>1 DEF history
<1>2. CASE (\E s \in Real : RemoteState(s)) \/ (\E c \in Cards : RemoteCard(c)) \/ CommitStart \/ Crash
  BY <1>2 DEF RemoteState, RemoteCard, Outside, CommitStart, Crash, history
<1>3. CASE CommitStep
  <2>1. CASE \E r \in todo : RemoteCreate(r) \/ RemoteCreateFails(r)
    BY <2>1 DEF RemoteCreate, RemoteCreateFails
  <2>2. CASE \E r \in todo : PushStart(r) \/ ReadSprint(r) \/ ReadDoomed(r)
    BY <2>2 DEF PushStart, ReadSprint, ReadDoomed, history
  <2>3. CASE \E r \in doing : RekeySprint(r) \/ ForgetSprint(r) \/ Settle(r) \/ MoveBatch(r) \/ MoveBatchFails(r)
    BY <2>3 DEF RekeySprint, ForgetSprint, Settle, MoveBatch, MoveBatchFails, history
  <2>4. CASE RekeyFails \/ StartChanges \/ StartMoves \/ CommitEnds \/ \E c \in Cards : PushCard(c)
    BY <2>4 DEF RekeyFails, StartChanges, StartMoves, CommitEnds, PushCard, history
  <2>5. CASE \E r \in doing : RemoteDelete(r) \/ CloseSprint(r)
    BY <2>5 DEF RemoteDelete, CloseSprint, history
  <2>. QED
    BY <1>3, <2>1, <2>2, <2>3, <2>4, <2>5 DEF CommitStep
<1>. QED
  BY <1>1, <1>2, <1>3 DEF Next

LEMMA DanglesKept ==
    ASSUME Shape, RowsAreOld, DraftsDrawn, NoneDangles, "stale" \notin Env, [Next]_vars
    PROVE  NoneDangles'
<1>1. ASSUME NEW d \in Drafts, NamesIt(d)'
      PROVE  Queued(EntitySprintCreate, d)' \/ d \in forgotten'
  <2>1. Queued(EntitySprintCreate, d) \/ d \in forgotten
    BY <1>1, StepNames, PlaceholdersAreNamed DEF NoneDangles
  <2>2. CASE Queued(EntitySprintCreate, d)
    BY <1>1, <2>2, CreatesGo DEF Resolved
  <2>3. CASE d \in forgotten
    BY <2>3, HistoryGrows
  <2>. QED
    BY <2>1, <2>2, <2>3
<1>2. \A d : d \in Placeholders' => d \in Drafts /\ NamesIt(d)'
  BY DEF Placeholders, NamesIt
<1>. QED
  BY <1>1, <1>2 DEF NoneDangles

\* A create under way is recorded, or known not to have been.
LEMMA MakingStays ==
    ASSUME Shape, RowsAreOld, [Next]_vars, NEW r \in doing, r.type = EntitySprintCreate
    PROVE  r \in doing' \/ r.key \in unknown' \/ RekeySprint(r) \/ ForgetSprint(r)
<1>0. /\ pc \in {"rekey", "forget"} /\ doing = {r}
  BY Kinds DEF Shape, TypeOK, PhaseOK, RowsAreOld
<1>1. CASE UserStep \/ UNCHANGED vars
  <2>1. UNCHANGED commit
    BY <1>1 DEF UserStep, CreateDraftSprint, StartSprint, CompleteSprint, DeleteSprint, MoveToSprint,
                MoveToDone, DiscardPendingChange, RefreshBoards, SyncIssues, Guarded, Unguarded, vars
  <2>. QED
    BY <2>1 DEF commit
<1>2. CASE (\E s \in Real : RemoteState(s)) \/ (\E c \in Cards : RemoteCard(c)) \/ CommitStart
  BY <1>0, <1>2 DEF RemoteState, RemoteCard, Outside, CommitStart, commit
<1>3. CASE Crash
  BY <1>3 DEF Crash
<1>4. CASE CommitStep
  <2>1. CASE \E q \in todo : \/ RemoteCreate(q) \/ RemoteCreateFails(q)
                             \/ PushStart(q) \/ ReadSprint(q) \/ ReadDoomed(q)
    BY <1>0, <2>1 DEF RemoteCreate, RemoteCreateFails, PushStart, ReadSprint, ReadDoomed
  <2>2. CASE \E q \in doing : \/ Settle(q) \/ MoveBatch(q) \/ MoveBatchFails(q)
                              \/ RemoteDelete(q) \/ CloseSprint(q)
    BY <1>0, <2>2 DEF Settle, MoveBatch, MoveBatchFails, RemoteDelete, CloseSprint
  <2>3. CASE StartChanges \/ StartMoves \/ CommitEnds \/ \E c \in Cards : PushCard(c)
    BY <1>0, <2>3 DEF StartChanges, StartMoves, CommitEnds, PushCard
  <2>4. CASE RekeyFails
    BY <2>4 DEF RekeyFails
  <2>5. CASE \E q \in doing : RekeySprint(q) \/ ForgetSprint(q)
    BY <1>0, <2>5
  <2>. QED
    BY <1>4, <2>1, <2>2, <2>3, <2>4, <2>5 DEF CommitStep
<1>. QED
  BY <1>1, <1>2, <1>3, <1>4 DEF Next

LEMMA MakingKept == ASSUME Shape, RowsAreOld, Ordered, Making, [Next]_vars PROVE Making'
<1>. SUFFICES ASSUME NEW m \in makes', Queued(EntitySprintCreate, m[1])'
              PROVE  m[1] \in unknown' \/ \E r \in doing' : r.type = EntitySprintCreate /\ r.key = m[1]
  BY DEF Making
<1>0. /\ journal \in SUBSET Row /\ doing \in SUBSET Row /\ makes \subseteq Drafts \X Real
      /\ Drafts \subseteq Int /\ lowest \in Int
      /\ \A p \in journal : p.field = p.type
  BY Numbers DEF Shape, TypeOK, RowsOK, RowOK
<1>1. CASE m \in makes
  <2>1. Queued(EntitySprintCreate, m[1])
    <3>1. PICK p \in journal' : p.type = EntitySprintCreate /\ p.key = m[1]
      BY DEF Queued, RowsAt
    <3>2. m[1] \in Int /\ lowest <= m[1]
      BY <1>0, <1>1 DEF Ordered
    <3>3. RowKept(p)
      BY StepKeepsRows
    <3>4. \E q \in journal : q.type = EntitySprintCreate /\ q.key = m[1]
      BY <1>0, <3>1, <3>2, <3>3 DEF RowKept
    <3>. QED
      BY <1>0, <3>4 DEF Queued, RowsAt
  <2>2. CASE m[1] \in unknown
    BY <2>2, HistoryGrows
  <2>3. ASSUME NEW r \in doing, r.type = EntitySprintCreate, r.key = m[1]
        PROVE  m[1] \in unknown' \/ \E q \in doing' : q.type = EntitySprintCreate /\ q.key = m[1]
    <3>1. CASE r \in doing' \/ r.key \in unknown'
      BY <2>3, <3>1
    <3>2. CASE RekeySprint(r)
      <4>1. pc = "rekey" /\ journal' = Rekeyed(journal, m[1], made)
        BY <2>1, <2>3, <3>2 DEF RekeySprint
      <4>2. made \in Ids
        BY <4>1, Numbers DEF Shape, PhaseOK
      <4>3. PICK n \in journal' : n.type = EntitySprintCreate /\ n.key = m[1]
        BY DEF Queued, RowsAt
      <4>4. PICK p \in journal : /\ ~(p.type = EntitySprintCreate /\ p.key = m[1])
                                 /\ n = Followed(Repointed(p, m[1], made), m[1], made)
        BY <1>0, <4>1, <4>2, RekeyedFacts
      <4>5. p \in Row
        BY <1>0
      <4>6. /\ n.type = p.type
            /\ n.key = IF p.type = EntitySprintStart THEN Named(p.key, m[1], made) ELSE p.key
        BY <4>2, <4>4, <4>5, RekeyedRow
      <4>. QED
        BY <4>3, <4>4, <4>6 DEF EntitySprintStart, EntitySprintCreate
    <3>3. CASE ForgetSprint(r)
      <4>1. \/ journal' = {p \in journal : ~(p.type = EntitySprintCreate /\ p.key = r.key)}
            \/ unknown' = unknown \cup {r.key}
        BY <3>3 DEF ForgetSprint
      <4>. QED
        BY <2>3, <4>1 DEF Queued, RowsAt
    <3>. QED
      BY <2>3, <3>1, <3>2, <3>3, MakingStays
  <2>. QED
    BY <1>1, <2>1, <2>2, <2>3 DEF Making
<1>2. CASE m \notin makes
  <2>1. ASSUME NEW r \in todo, RemoteCreate(r)
        PROVE  \E q \in doing' : q.type = EntitySprintCreate /\ q.key = m[1]
    <3>1. pc = "creates" /\ m[1] = r.key /\ doing' = {r}
      BY <1>2, <2>1 DEF RemoteCreate, Lands
    <3>. QED
      BY <3>1 DEF Shape, PhaseOK
  <2>2. ASSUME NEW r \in todo, RemoteCreateFails(r) PROVE m[1] \in unknown'
    BY <1>2, <2>2 DEF RemoteCreateFails, Lands
  <2>3. CASE UserStep \/ UNCHANGED vars
    <3>1. UNCHANGED makes
      BY <2>3 DEF UserStep, CreateDraftSprint, StartSprint, CompleteSprint, DeleteSprint, MoveToSprint,
                  MoveToDone, DiscardPendingChange, RefreshBoards, SyncIssues, Guarded, Unguarded,
                  vars, history
    <3>. QED
      BY <1>2, <3>1
  <2>4. CASE (\E s \in Real : RemoteState(s)) \/ (\E c \in Cards : RemoteCard(c)) \/ CommitStart \/ Crash
    BY <1>2, <2>4 DEF RemoteState, RemoteCard, Outside, CommitStart, Crash, history
  <2>5. CASE \E q \in todo : PushStart(q) \/ ReadDoomed(q) \/ ReadSprint(q)
    BY <1>2, <2>5 DEF PushStart, ReadDoomed, ReadSprint, history
  <2>6. CASE \E q \in doing : RekeySprint(q) \/ ForgetSprint(q) \/ Settle(q) \/ MoveBatch(q) \/ MoveBatchFails(q)
    BY <1>2, <2>6 DEF RekeySprint, ForgetSprint, Settle, MoveBatch, MoveBatchFails, history
  <2>7. CASE RekeyFails \/ StartChanges \/ StartMoves \/ CommitEnds \/ \E c \in Cards : PushCard(c)
    BY <1>2, <2>7 DEF RekeyFails, StartChanges, StartMoves, CommitEnds, PushCard, history
  <2>8. CASE \E q \in doing : RemoteDelete(q) \/ CloseSprint(q)
    BY <1>2, <2>8 DEF RemoteDelete, CloseSprint, history
  <2>. QED
    BY <2>1, <2>2, <2>3, <2>4, <2>5, <2>6, <2>7, <2>8 DEF Next, CommitStep
<1>. QED
  BY <1>1, <1>2

\* Unless a card is dropped on a draft that is drawn and gone, a draft stands
\* in the journal until Jira has its sprint, and no longer, and what names it
\* follows it there, or back when it is discarded.
THEOREM EveryDraftResolved == ASSUME "stale" \notin Env PROVE Spec => []DraftsAreResolved
<1>. DEFINE Stage == Shape /\ RowsAreOld /\ Ordered /\ DraftsDrawn /\ Making /\ NoneDangles
<1>1. Init => Stage
  <2>. SUFFICES ASSUME Init PROVE Stage
    OBVIOUS
  <2>1. RowsAreOld /\ Ordered /\ Making
    BY DEF Init, RowsAreOld, Ordered, Making
  <2>2. DraftsDrawn
    BY Numbers DEF Init, DraftsDrawn
  <2>3. place \in [Cards -> Real \cup {Backlog}] /\ column = place /\ journal = {}
    BY ShapeAtFirst DEF Init, Shape, TypeOK
  <2>4. \A d \in Drafts : ~NamesIt(d)
    BY <2>3, Numbers DEF NamesIt
  <2>. QED
    BY <2>1, <2>2, <2>4, ShapeAtFirst, PlaceholdersAreNamed DEF NoneDangles
<1>2. Stage /\ [Next]_vars => Stage'
  BY ShapeKept, OldKept, OrderedKept, DrawnKept, MakingKept, DanglesKept
<1>3. Stage => DraftsAreResolved
  BY DEF Making, DraftsAreResolved, NoneLingers
<1>. QED
  BY <1>1, <1>2, <1>3, PTL DEF Spec
=============================================================================
