-------------------------- MODULE BoardMovesProofs --------------------------
(***************************************************************************)
(* What BoardMoves promises for every set of cards, statuses and sprints   *)
(* and every mix of disturbances: its types, that a dragged card is shown  *)
(* where it was dropped, and that no drop is lost; while nobody moves a    *)
(* card between TAM's check and its push, that a push takes a card only    *)
(* from where the user saw it; and, unless a conflict is resolved under a  *)
(* job, that a card is held back only for a reason.                        *)
(***************************************************************************)
EXTENDS BoardMoves, JournalProofs

-----------------------------------------------------------------------------
\* The two moves and the rows that hold them.

LEMMA MoveTypesDiffer ==
    /\ EntityTransition \in MoveTypes /\ EntitySprintMove \in MoveTypes
    /\ Places(EntityTransition) = Statuses /\ Places(EntitySprintMove) = Sprints
BY DEF MoveTypes, EntityTransition, EntitySprintMove, Places

LEMMA PlacesType ==
    ASSUME NEW t \in MoveTypes PROVE Places(t) \subseteq Statuses \cup Sprints
BY DEF Places

LEMMA RowFacts ==
    ASSUME NEW r \in Rows
    PROVE  /\ r.id \in Nat /\ r.key \in Keys /\ r.type \in MoveTypes /\ r.field = r.type
           /\ r.before \in Places(r.type) /\ r.after \in Places(r.type)
BY DEF Rows, PendingChange

LEMMA IssueRowFacts ==
    ASSUME NEW p \in IssueRow
    PROVE  p = [t \in MoveTypes |-> p[t]] /\ \A t \in MoveTypes : p[t] \in Places(t)
BY DEF IssueRow

LEMMA MovedRow ==
    ASSUME NEW p \in IssueRow, NEW t \in MoveTypes, NEW place \in Places(t)
    PROVE  /\ [p EXCEPT ![t] = place] \in IssueRow
           /\ [p EXCEPT ![t] = place][t] = place
           /\ \A u \in MoveTypes : u # t => [p EXCEPT ![t] = place][u] = p[u]
<1>1. DOMAIN p = MoveTypes /\ \A u \in MoveTypes : p[u] \in Places(u)
  BY DEF IssueRow
<1>. QED
  BY <1>1, PlacesType DEF IssueRow

\* A row of the table with one of its places changed is a row of the table.
LEMMA ReplacedRow ==
    ASSUME NEW r \in Rows, NEW place \in Places(r.type)
    PROVE  /\ [r EXCEPT !.before = place] \in Rows
           /\ [r EXCEPT !.after = place] \in Rows
<1>1. /\ r \in PendingChange(MoveTypes, Keys, MoveTypes, Statuses \cup Sprints)
      /\ r.field = r.type /\ {r.before, r.after} \subseteq Places(r.type)
  BY DEF Rows
<1>2. place \in Statuses \cup Sprints
  BY <1>1, PlacesType DEF PendingChange
<1>3. /\ [r EXCEPT !.before = place] \in PendingChange(MoveTypes, Keys, MoveTypes, Statuses \cup Sprints)
      /\ [r EXCEPT !.after = place] \in PendingChange(MoveTypes, Keys, MoveTypes, Statuses \cup Sprints)
  BY <1>1, <1>2 DEF PendingChange
<1>4. \A q : q \in {[r EXCEPT !.before = place], [r EXCEPT !.after = place]} =>
          q.field = q.type /\ {q.before, q.after} \subseteq Places(q.type)
  BY <1>1 DEF PendingChange
<1>. QED
  BY <1>3, <1>4 DEF Rows

\* The values reapplyPending and the discards give a cached row.
LEMMA ReapplyType ==
    ASSUME journal \subseteq Rows, NEW k \in Keys, NEW row \in IssueRow
    PROVE  reapplyPending(k, row) \in IssueRow
<1>1. ASSUME NEW t \in MoveTypes PROVE AfterVal(journal, t, k, t, row[t]) \in Places(t)
  <2>1. row[t] \in Places(t)
    BY IssueRowFacts
  <2>2. \A r \in RowsAt(journal, t, k, t) : r.after \in Places(t)
    BY RowFacts DEF RowsAt
  <2>. QED
    BY <2>1, <2>2, AfterValIn
<1>. QED
  BY <1>1, PlacesType DEF reapplyPending, IssueRow

LEMMA RevertType ==
    ASSUME NEW S, S \subseteq Rows, NEW k \in Keys, NEW row \in IssueRow
    PROVE  [t \in MoveTypes |-> BeforeVal(S, t, k, t, row[t])] \in IssueRow
<1>1. ASSUME NEW t \in MoveTypes PROVE BeforeVal(S, t, k, t, row[t]) \in Places(t)
  <2>1. row[t] \in Places(t)
    BY IssueRowFacts
  <2>2. \A r \in RowsAt(S, t, k, t) : r.before \in Places(t)
    BY RowFacts DEF RowsAt
  <2>. QED
    BY <2>1, <2>2, BeforeValIn
<1>. QED
  BY <1>1, PlacesType DEF IssueRow

\* What a fresh row shows of a pending move is that move.
LEMMA ReapplyShows ==
    ASSUME journal \subseteq Rows, WellKeyed(journal), NEW r \in journal, NEW row
    PROVE  reapplyPending(r.key, row)[r.type] = r.after
<1>1. r.type \in MoveTypes /\ r.field = r.type
  BY RowFacts
<1>2. /\ RowsAt(journal, r.type, r.key, r.type) # {}
      /\ RowAt(journal, r.type, r.key, r.type) = r
  BY <1>1, RowAtIsUnique
<1>. QED
  BY <1>1, <1>2 DEF reapplyPending, AfterVal

\* The id column: what is taken out of a journal by the ids of some of its
\* rows is those rows.
LEMMA DeleteIsExact ==
    ASSUME NEW j, WellKeyed(j), NEW S \in SUBSET j
    PROVE  Delete(j, {r.id : r \in S}) = j \ S
BY DEF Delete, WellKeyed

LEMMA DiscardedType ==
    ASSUME TypeOK, NEW S \in SUBSET journal, Discarded(S)
    PROVE  /\ issue' \in [Keys -> IssueRow \cup {None}]
           /\ journal' = journal \ S
           /\ want' \in [Keys -> [MoveTypes -> Statuses \cup Sprints \cup {None}]]
<1>. DEFINE reverted == {r \in S : holdsMove(r)}
<1>1. reverted \subseteq Rows
  BY DEF TypeOK
<1>2. ASSUME NEW k \in Keys, issue[k] # None
      PROVE  [t \in MoveTypes |-> BeforeVal(reverted, t, k, t, issue[k][t])] \in IssueRow
  <2>1. issue[k] \in IssueRow
    BY <1>2 DEF TypeOK
  <2>. HIDE DEF reverted
  <2>. QED
    BY <1>1, <2>1, RevertType
<1>3. issue' \in [Keys -> IssueRow \cup {None}]
  BY <1>2 DEF Discarded
<1>4. journal' = journal \ S
  BY DeleteIsExact DEF Discarded, TypeOK
<1>5. want' \in [Keys -> [MoveTypes -> Statuses \cup Sprints \cup {None}]]
  BY DEF Discarded, TypeOK
<1>. QED
  BY <1>3, <1>4, <1>5

LEMMA ReachedType ==
    ASSUME TypeOK, NEW S, Reached(S)
    PROVE  want' \in [Keys -> [MoveTypes -> Statuses \cup Sprints \cup {None}]]
BY DEF Reached, TypeOK

\* Cards moved to one place of their kind are where a card can be.
LEMMA LandType ==
    ASSUME TypeOK, NEW type \in MoveTypes, NEW S, S \subseteq Rows,
           \A r \in S : r.type = type, NEW place \in Places(type), Land(S, place)
    PROVE  /\ jira' \in [Keys -> IssueRow]
           /\ want' \in [Keys -> [MoveTypes -> Statuses \cup Sprints \cup {None}]]
           /\ ours' \subseteq Keys \X MoveTypes
<1>1. ASSUME NEW k \in Keys
      PROVE  [t \in MoveTypes |-> IF RowsAt(S, t, k, t) = {} THEN jira[k][t] ELSE place] \in IssueRow
  <2>1. \A t \in MoveTypes : jira[k][t] \in Places(t)
    BY IssueRowFacts DEF TypeOK
  <2>2. \A t \in MoveTypes : RowsAt(S, t, k, t) # {} => t = type
    BY DEF RowsAt
  <2>3. \A t \in MoveTypes : (IF RowsAt(S, t, k, t) = {} THEN jira[k][t] ELSE place) \in Places(t)
    BY <2>1, <2>2
  <2>. QED
    BY <2>3, PlacesType DEF IssueRow
<1>2. jira' \in [Keys -> IssueRow]
  BY <1>1 DEF Land
<1>3. ours' \subseteq Keys \X MoveTypes
  BY RowFacts DEF Land, TypeOK
<1>4. want' \in [Keys -> [MoveTypes -> Statuses \cup Sprints \cup {None}]]
  BY ReachedType DEF Land
<1>. QED
  BY <1>2, <1>3, <1>4

\* A page that landed leaves rows the cache can hold.
LEMMA LandedType ==
    ASSUME TypeOK, NEW cleared \in BOOLEAN
    PROVE  Landed(cleared) \in [Keys -> IssueRow \cup {None}]
<1>1. \A k \in Keys : k \in DOMAIN page => reapplyPending(k, page[k]) \in IssueRow
  BY ReapplyType DEF TypeOK
<1>2. \A k \in Keys : issue[k] \in IssueRow \cup {None}
  BY DEF TypeOK
<1>. QED
  BY <1>1, <1>2 DEF Landed

-----------------------------------------------------------------------------
\* Whatever the disturbances, every variable keeps its type.

LEMMA InitTypeOK == Init => TypeOK
<1>. SUFFICES ASSUME Init PROVE TypeOK
  OBVIOUS
<1>1. /\ jira \in [Keys -> IssueRow] /\ issue = jira
      /\ journal = {} /\ nextId = 1 /\ job = "none"
      /\ rows = {} /\ toPlan = {} /\ ready = {} /\ clearing = {} /\ pushed = {} /\ held = {}
      /\ clear = FALSE /\ cards = {} /\ resolving = Resting
      /\ others = {} /\ ours = {}
  BY DEF Init
<1>2. issue \in [Keys -> IssueRow \cup {None}]
  BY <1>1
<1>3. WellKeyed(journal)
  BY <1>1 DEF WellKeyed
<1>4. DOMAIN page = {}
  BY DEF Init
<1>5. want \in [Keys -> [MoveTypes -> Statuses \cup Sprints \cup {None}]]
  BY DEF Init
<1>6. journal \subseteq Rows /\ \A r \in journal : r.before # r.after /\ r.id < nextId
  BY <1>1
<1>9. nextId \in Nat \ {0}
  BY <1>1
<1>10. job \in {"none", "commit", "sync"} /\ clear \in BOOLEAN
  BY <1>1, Zenon
<1>8. /\ rows \subseteq Rows /\ ready \subseteq rows /\ clearing \subseteq rows
      /\ toPlan \subseteq Keys /\ pushed \subseteq Keys
      /\ held \subseteq Keys /\ cards \subseteq Keys
      /\ others \subseteq Keys \X MoveTypes /\ ours \subseteq Keys \X MoveTypes
  BY <1>1
<1>7. DOMAIN page \subseteq Keys /\ \A k \in DOMAIN page : page[k] \in IssueRow
  BY <1>4
<1>. QED
  BY <1>1, <1>2, <1>3, <1>5, <1>6, <1>7, <1>8, <1>9, <1>10, Zenon DEF TypeOK

\* A drop: the row it leaves is one the table can hold.
LEMMA MoveType ==
    ASSUME TypeOK, NEW k \in Keys, NEW t \in MoveTypes, NEW place \in Places(t), Move(k, t, place)
    PROVE  /\ journal' \subseteq Rows /\ WellKeyed(journal')
           /\ \A r \in journal' : r.before # r.after /\ r.id < nextId'
           /\ nextId' \in Nat \ {0}
           /\ issue' \in [Keys -> IssueRow \cup {None}]
           /\ want' \in [Keys -> [MoveTypes -> Statuses \cup Sprints \cup {None}]]
<1>. DEFINE pending == RowsAt(journal, t, k, t)
            Types == MoveTypes
            Values == Statuses \cup Sprints
            new == [id |-> nextId, type |-> t, key |-> k, field |-> t,
                    before |-> issue[k][t], after |-> place, base |-> 0]
<1>1. issue[k] \in IssueRow /\ issue[k][t] \in Places(t)
  BY IssueRowFacts DEF Move, TypeOK
<1>2. /\ journal \subseteq Rows /\ WellKeyed(journal) /\ nextId \in Nat \ {0}
      /\ \A r \in journal : r.before # r.after /\ r.id < nextId
  BY DEF TypeOK
<1>3. \A r \in pending : r.before # place /\ r.after # place
  BY DEF Move
<1>4. journal' = Put(journal, nextId, t, k, t, issue[k][t], place, 0)
  BY DEF Move
<1>5. journal \in SUBSET PendingChange(MoveTypes, Keys, MoveTypes, Values)
  BY <1>2 DEF Rows
<1>6. WellKeyed(journal')
  <2>1. journal' = Upsert(journal, nextId, t, k, t, issue[k][t], place, 0)
    BY <1>3, <1>4, PutIsUpsert
  <2>. QED
    BY <1>2, <1>5, <2>1, UpsertWellKeyed
<1>7. ASSUME NEW r \in journal'
      PROVE  r \in Rows /\ r.before # r.after /\ r.id < nextId'
  <2>1. CASE pending = {}
    <3>1. r \in journal \/ r = new
      BY <1>4, <1>7, <2>1 DEF Put, Inserted
    <3>2. nextId' = nextId + 1 /\ issue[k][t] # place
      BY <2>1 DEF Move
    <3>3. CASE r = new
      <4>1. new \in PendingChange(MoveTypes, Keys, MoveTypes, Values)
        BY <1>1, <1>2, PlacesType DEF PendingChange
      <4>2. new \in Rows
        BY <4>1, <1>1 DEF Rows
      <4>. QED
        BY <3>2, <3>3, <4>2, <1>2
    <3>. QED
      BY <1>2, <3>1, <3>2, <3>3, RowFacts
  <2>2. CASE pending # {}
    <3>1. r \in journal \/ \E s \in pending : r = [s EXCEPT !.after = place]
      BY <1>4, <1>7, <2>2 DEF Put, Overwritten
    <3>2. nextId' = nextId
      BY <2>2 DEF Move
    <3>3. ASSUME NEW s \in pending, r = [s EXCEPT !.after = place]
          PROVE  r \in Rows /\ r.before # r.after /\ r.id < nextId'
      <4>1. s \in journal /\ s \in Rows /\ s.type = t
        BY <1>2 DEF RowsAt
      <4>2. r \in Rows
        BY <3>3, <4>1, ReplacedRow
      <4>3. r.before = s.before /\ r.after = place /\ r.id = s.id
        BY <3>3, <4>1 DEF Rows, PendingChange
      <4>. QED
        BY <4>1, <4>2, <4>3, <3>2, <1>2, <1>3
    <3>. QED
      BY <1>2, <3>1, <3>2, <3>3
  <2>. QED
    BY <2>1, <2>2
<1>8. nextId' \in Nat \ {0}
  BY <1>2 DEF Move
<1>9. issue' \in [Keys -> IssueRow \cup {None}]
  <2>1. issue \in [Keys -> IssueRow \cup {None}]
    BY DEF TypeOK
  <2>2. issue' = [issue EXCEPT ![k] = [issue[k] EXCEPT ![t] = place]]
    BY DEF Move
  <2>. QED
    BY <1>1, <2>1, <2>2, MovedRow
<1>10. want' \in [Keys -> [MoveTypes -> Statuses \cup Sprints \cup {None}]]
  BY PlacesType DEF Move, TypeOK
<1>. QED
  BY <1>6, <1>7, <1>8, <1>9, <1>10

LEMMA RebaseMovesType ==
    ASSUME TypeOK, RebaseMoves
    PROVE  /\ journal' \subseteq Rows /\ WellKeyed(journal')
           /\ \A r \in journal' : r.before # r.after /\ r.id < nextId
<1>. DEFINE moved(r) == r.key = resolving.key /\ resolving.read[r.type] \notin {r.before, r.after}
            rebased(r) == IF moved(r) THEN [r EXCEPT !.before = resolving.read[r.type]] ELSE r
<1>1. resolving.key \in Keys /\ resolving.read \in IssueRow
  BY DEF RebaseMoves, TypeOK, Resting
<1>2. journal' = {rebased(r) : r \in journal}
  BY DEF RebaseMoves
<1>3. ASSUME NEW r \in journal
      PROVE  /\ rebased(r) \in Rows /\ rebased(r).before # rebased(r).after
             /\ rebased(r).id = r.id /\ rebased(r).type = r.type
             /\ rebased(r).key = r.key /\ rebased(r).field = r.field
  <2>1. r \in Rows /\ r.before # r.after
    BY DEF TypeOK
  <2>2. resolving.read[r.type] \in Places(r.type)
    BY <1>1, <2>1, RowFacts, IssueRowFacts
  <2>3. [r EXCEPT !.before = resolving.read[r.type]] \in Rows
    BY <2>1, <2>2, ReplacedRow
  <2>4. /\ [r EXCEPT !.before = resolving.read[r.type]].before = resolving.read[r.type]
        /\ [r EXCEPT !.before = resolving.read[r.type]].after = r.after
        /\ [r EXCEPT !.before = resolving.read[r.type]].id = r.id
        /\ [r EXCEPT !.before = resolving.read[r.type]].type = r.type
        /\ [r EXCEPT !.before = resolving.read[r.type]].key = r.key
        /\ [r EXCEPT !.before = resolving.read[r.type]].field = r.field
    BY <2>1 DEF Rows, PendingChange
  <2>. QED
    BY <2>1, <2>3, <2>4
<1>. HIDE DEF rebased
<1>4. WellKeyed(journal')
  <2>1. WellKeyed(journal)
    BY DEF TypeOK
  <2>2. ASSUME NEW p \in journal', NEW q \in journal',
               \/ p.id = q.id
               \/ p.type = q.type /\ p.key = q.key /\ p.field = q.field
        PROVE  p = q
    <3>1. PICK r \in journal : p = rebased(r)
      BY <1>2
    <3>2. PICK s \in journal : q = rebased(s)
      BY <1>2
    <3>3. r = s
      BY <2>1, <2>2, <3>1, <3>2, <1>3 DEF WellKeyed
    <3>. QED
      BY <3>1, <3>2, <3>3
  <2>. QED
    BY <2>2 DEF WellKeyed
<1>5. \A r \in journal : r.id < nextId
  BY DEF TypeOK
<1>. QED
  BY <1>2, <1>3, <1>4, <1>5

LEMMA UserTypeOK ==
    ASSUME TypeOK, UserStep PROVE TypeOK'
<1>1. ASSUME NEW k \in Keys, NEW t \in MoveTypes, NEW place \in Places(t), Move(k, t, place)
      PROVE  TypeOK'
  <2>1. UNCHANGED <<jira, engine, screen, drift>>
    BY <1>1 DEF Move
  <2>. QED
    BY <1>1, <2>1, MoveType DEF engine, pass, screen, drift, TypeOK
<1>2. ASSUME NEW S \in SUBSET journal, Discarded(S), UNCHANGED <<jira, nextId, job, pass, page, clear, cards, drift>>
      PROVE  /\ journal' \subseteq Rows /\ WellKeyed(journal')
             /\ \A r \in journal' : r.before # r.after /\ r.id < nextId'
             /\ issue' \in [Keys -> IssueRow \cup {None}]
             /\ want' \in [Keys -> [MoveTypes -> Statuses \cup Sprints \cup {None}]]
  <2>1. journal' \subseteq journal
    BY <1>2, DiscardedType
  <2>2. WellKeyed(journal')
    BY <2>1, SubsetWellKeyed DEF TypeOK
  <2>. QED
    BY <1>2, <2>1, <2>2, DiscardedType DEF TypeOK
<1>3. ASSUME NEW r \in journal, Undo(r) PROVE TypeOK'
  <2>1. r \in Rows
    BY DEF TypeOK
  <2>2. issue' \in [Keys -> IssueRow \cup {None}]
    <3>1. issue[r.key] \in IssueRow
      BY <1>3, <2>1, RowFacts DEF Undo, TypeOK
    <3>2. issue' = issue \/ issue' = [issue EXCEPT ![r.key] = [issue[r.key] EXCEPT ![r.type] = r.before]]
      BY <1>3 DEF Undo
    <3>3. [issue[r.key] EXCEPT ![r.type] = r.before] \in IssueRow
      BY <2>1, <3>1, RowFacts, MovedRow
    <3>. QED
      BY <3>2, <3>3 DEF TypeOK
  <2>3. want' \in [Keys -> [MoveTypes -> Statuses \cup Sprints \cup {None}]]
    BY <1>3 DEF Undo, TypeOK
  <2>4. journal' \subseteq journal
    BY <1>3 DEF Undo
  <2>5. WellKeyed(journal')
    BY <2>4, SubsetWellKeyed DEF TypeOK
  <2>. QED
    BY <1>3, <2>2, <2>3, <2>4, <2>5 DEF Undo, engine, pass, screen, drift, TypeOK
<1>4. ASSUME NEW r \in journal, DiscardPendingChange(r) PROVE TypeOK'
  <2>1. Discarded({r}) /\ UNCHANGED <<jira, nextId, engine, screen, drift>>
    BY <1>4 DEF DiscardPendingChange
  <2>. QED
    BY <2>1, <1>2 DEF engine, pass, screen, drift, TypeOK
<1>5. ASSUME NEW k \in cards, OverrideRead(k) \/ KeepRead(k) PROVE TypeOK'
  <2>1. k \in Keys /\ jira[k] \in IssueRow
    BY DEF TypeOK
  <2>2. /\ resolving' \in [how: {"rebase", "discard", "replace"}, key: Keys, read: IssueRow] \cup {Resting}
        /\ cards' \subseteq cards
    BY <1>5, <2>1 DEF OverrideRead, KeepRead, TypeOK
  <2>. QED
    BY <1>5, <2>2 DEF OverrideRead, KeepRead, store, engine, pass, drift, TypeOK
<1>6. CASE RebaseMoves
  BY <1>6, RebaseMovesType DEF RebaseMoves, engine, pass, drift, TypeOK
<1>7. CASE KeepDiscard
  <2>1. ListForKey(journal, resolving.key) \in SUBSET journal
    BY DEF ListForKey
  <2>2. resolving' \in [how: {"rebase", "discard", "replace"}, key: Keys, read: IssueRow] \cup {Resting}
    BY <1>7 DEF KeepDiscard, TypeOK, Resting
  <2>3. Discarded(ListForKey(journal, resolving.key)) /\ UNCHANGED <<jira, nextId, engine, cards, drift>>
    BY <1>7 DEF KeepDiscard
  <2>. QED
    BY <1>2, <2>1, <2>2, <2>3 DEF engine, pass, drift, TypeOK
<1>8. CASE KeepReplace
  <2>1. resolving.key \in Keys /\ resolving.read \in IssueRow
    BY <1>8 DEF KeepReplace, TypeOK, Resting
  <2>2. reapplyPending(resolving.key, resolving.read) \in IssueRow
    BY <2>1, ReapplyType DEF TypeOK
  <2>3. issue' \in [Keys -> IssueRow \cup {None}]
    BY <1>8, <2>1, <2>2 DEF KeepReplace, TypeOK
  <2>. QED
    BY <1>8, <2>3 DEF KeepReplace, engine, pass, drift, TypeOK
<1>9. CASE ResolutionFails
  BY <1>9 DEF ResolutionFails, store, engine, pass, drift, TypeOK
<1>. QED
  BY <1>1, <1>3, <1>4, <1>5, <1>6, <1>7, <1>8, <1>9 DEF UserStep

\* Planning one issue takes rows that were read, and no others.
LEMMA PlanType ==
    ASSUME TypeOK, NEW k \in Keys, Plan(k) \/ PlanFails(k) PROVE TypeOK'
<1>. DEFINE Classified(verdict) ==
                {r \in rows : r.key = k /\ classifyMove(r, jira[k][r.type]) = verdict}
<1>1. CASE Plan(k)
  <2>1. /\ toPlan' \subseteq toPlan /\ clearing' \subseteq rows
        /\ ready' \subseteq ready \cup rows
        /\ held' \subseteq held \cup {k}
        /\ UNCHANGED <<jira, store, job, rows, pushed, page, clear, screen, drift>>
    BY <1>1 DEF Plan
  <2>2. want' \in [Keys -> [MoveTypes -> Statuses \cup Sprints \cup {None}]]
    <3>1. Reached(Classified("satisfied"))
      BY <1>1 DEF Plan
    <3>. QED
      BY <3>1, ReachedType
  <2>3. job = "commit"
    BY <1>1 DEF Plan
  <2>. QED
    BY <2>1, <2>2, <2>3 DEF store, screen, drift, TypeOK
<1>2. CASE PlanFails(k)
  BY <1>2 DEF PlanFails, store, screen, drift, TypeOK
<1>. QED
  BY <1>1, <1>2

\* What clearing a row, or failing to, leaves.
LEMMA ClearType ==
    ASSUME TypeOK, NEW r \in clearing, ClearMove(r) \/ ClearFails(r) PROVE TypeOK'
<1>1. CASE ClearMove(r)
  <2>1. /\ journal' \subseteq journal /\ clearing' \subseteq clearing /\ ours' \subseteq ours
        /\ UNCHANGED <<jira, issue, nextId, job, rows, toPlan, ready, pushed, held, page, clear,
                       screen, others>>
    BY <1>1 DEF ClearMove, clearMoveRow
  <2>2. WellKeyed(journal')
    BY <2>1, SubsetWellKeyed DEF TypeOK
  <2>3. want' \in [Keys -> [MoveTypes -> Statuses \cup Sprints \cup {None}]]
    BY <1>1, ReachedType DEF ClearMove
  <2>. QED
    BY <2>1, <2>2, <2>3 DEF screen, TypeOK
<1>2. CASE ClearFails(r)
  BY <1>2 DEF ClearFails, store, screen, drift, TypeOK
<1>. QED
  BY <1>1, <1>2

LEMMA BatchFacts ==
    ASSUME TypeOK, NEW target \in Sprints
    PROVE  /\ Batch(target) \subseteq ready /\ Batch(target) \subseteq Rows
           /\ \A r \in Batch(target) : r.type = EntitySprintMove /\ r.after = target /\ r.key \in Keys
<1>1. Batch(target) \subseteq ready /\ \A r \in Batch(target) : r.type = EntitySprintMove /\ r.after = target
  BY DEF Batch
<1>2. Batch(target) \subseteq Rows
  BY <1>1 DEF TypeOK
<1>. QED
  BY <1>1, <1>2, RowFacts

LEMMA PushSprintsType ==
    ASSUME TypeOK, NEW target \in Sprints, PushSprints(target) \/ PushSprintsFails(target)
    PROVE  TypeOK'
<1>. DEFINE S == Batch(target)
<1>1. ASSUME NEW T \in SUBSET S, Land(T, target)
      PROVE  /\ jira' \in [Keys -> IssueRow]
             /\ want' \in [Keys -> [MoveTypes -> Statuses \cup Sprints \cup {None}]]
             /\ ours' \subseteq Keys \X MoveTypes
  <2>1. T \subseteq Rows /\ \A r \in T : r.type = EntitySprintMove
    BY BatchFacts
  <2>2. EntitySprintMove \in MoveTypes /\ target \in Places(EntitySprintMove)
    BY MoveTypesDiffer
  <2>. QED
    BY <1>1, <2>1, <2>2, LandType
<1>2. CASE PushSprints(target)
  <2>1. /\ Land(S, target) /\ ready' \subseteq ready /\ clearing' = S /\ job = "commit"
        /\ pushed' = pushed \cup {r.key : r \in S}
        /\ UNCHANGED <<store, job, rows, toPlan, held, page, clear, screen, others>>
    BY <1>2 DEF PushSprints, Pushing
  <2>2. S \subseteq rows /\ {r.key : r \in S} \subseteq Keys
    BY BatchFacts DEF TypeOK
  <2>. HIDE DEF S
  <2>. QED
    BY <2>1, <2>2, <1>1 DEF store, screen, TypeOK
<1>3. CASE PushSprintsFails(target)
  <2>1. PICK T \in SUBSET S : Land(T, target)
    BY <1>3 DEF PushSprintsFails
  <2>2. /\ ready' \subseteq ready /\ job = "commit"
        /\ UNCHANGED <<store, job, rows, toPlan, clearing, pushed, held, page, clear,
                       screen, others>>
    BY <1>3 DEF PushSprintsFails, Pushing
  <2>. QED
    BY <2>1, <2>2, <1>1 DEF store, screen, TypeOK
<1>. QED
  BY <1>2, <1>3

LEMMA PushTransitionType ==
    ASSUME TypeOK, NEW r \in ready, PushTransition(r) \/ PushTransitionFails(r)
    PROVE  TypeOK'
<1>1. NextTransition(r)
  BY DEF PushTransition, PushTransitionFails
<1>2. r \in Rows /\ r.type = EntityTransition /\ r.key \in Keys /\ job = "commit"
  BY <1>1, RowFacts DEF NextTransition, Pushing, TypeOK
<1>3. ColumnStatuses(r.after) \subseteq Statuses
  <2>1. r.after \in Statuses
    BY <1>2, RowFacts, MoveTypesDiffer
  <2>. QED
    BY <2>1, BoardMovesAssumption DEF ColumnStatuses
<1>4. ASSUME NEW status \in ColumnStatuses(r.after), Land({r}, status)
      PROVE  /\ jira' \in [Keys -> IssueRow]
             /\ want' \in [Keys -> [MoveTypes -> Statuses \cup Sprints \cup {None}]]
             /\ ours' \subseteq Keys \X MoveTypes
  <2>1. EntityTransition \in MoveTypes /\ status \in Places(EntityTransition)
    BY <1>3, MoveTypesDiffer
  <2>2. {r} \subseteq Rows /\ \A s \in {r} : s.type = EntityTransition
    BY <1>2
  <2>. QED
    BY <1>4, <2>1, <2>2, LandType
<1>5. CASE PushTransition(r)
  BY <1>5, <1>4, <1>2 DEF PushTransition, store, screen, TypeOK
<1>6. CASE PushTransitionFails(r)
  <2>1. /\ jira' \in [Keys -> IssueRow]
        /\ want' \in [Keys -> [MoveTypes -> Statuses \cup Sprints \cup {None}]]
        /\ ours' \subseteq Keys \X MoveTypes
    BY <1>6, <1>4 DEF PushTransitionFails, TypeOK
  <2>. QED
    BY <1>6, <2>1, <1>2 DEF PushTransitionFails, store, screen, TypeOK
<1>. QED
  BY <1>5, <1>6

LEMMA CommitTypeOK ==
    ASSUME TypeOK, CommitStart \/ CommitStep PROVE TypeOK'
<1>1. CASE CommitStart
  <2>1. {r.key : r \in journal} \subseteq Keys
    BY RowFacts DEF TypeOK
  <2>. QED
    BY <1>1, <2>1 DEF CommitStart, Acquire, store, drift, TypeOK
<1>2. ASSUME NEW k \in pushed, Reread(k) PROVE TypeOK'
  <2>1. k \in Keys /\ jira[k] \in IssueRow /\ job = "commit"
    BY <1>2 DEF Reread, Pushing, TypeOK
  <2>2. DOMAIN page' = {k} /\ page'[k] = jira[k]
    BY <1>2 DEF Reread
  <2>3. DOMAIN page' \subseteq Keys /\ \A j \in DOMAIN page' : page'[j] \in IssueRow
    BY <2>1, <2>2
  <2>. QED
    BY <1>2, <2>1, <2>3 DEF Reread, store, screen, drift, TypeOK
<1>3. CASE Replace
  <2>1. issue' \in [Keys -> IssueRow \cup {None}]
    BY <1>3, LandedType DEF Replace
  <2>2. DOMAIN page' = {}
    BY <1>3 DEF Replace
  <2>3. DOMAIN page' \subseteq Keys /\ \A j \in DOMAIN page' : page'[j] \in IssueRow
    BY <2>2
  <2>. QED
    BY <1>3, <2>1, <2>3 DEF Replace, pass, screen, drift, TypeOK
<1>4. CASE RefreshFails
  <2>1. DOMAIN page' = {}
    BY <1>4 DEF RefreshFails
  <2>2. DOMAIN page' \subseteq Keys /\ \A j \in DOMAIN page' : page'[j] \in IssueRow
    BY <2>1
  <2>. QED
    BY <1>4, <2>2 DEF RefreshFails, store, pass, screen, drift, TypeOK
<1>5. CASE CommitEnds
  <2>1. /\ rows' = {} /\ ready' = {} /\ clearing' = {} /\ toPlan' = {} /\ pushed' = {} /\ held' = {}
        /\ cards' = held /\ job' = "none"
        /\ UNCHANGED <<jira, store, page, clear, resolving, want, drift>>
    BY <1>5 DEF CommitEnds, Pushing
  <2>. QED
    BY <2>1 DEF store, drift, TypeOK
<1>. QED
  BY <1>1, <1>2, <1>3, <1>4, <1>5, PlanType, ClearType, PushSprintsType, PushTransitionType
     DEF CommitStep

LEMMA OtherTypeOK ==
    ASSUME TypeOK, \/ \E full \in BOOLEAN : SyncStart(full)
                   \/ SyncStep
                   \/ \E k \in Keys, t \in MoveTypes : \E place \in Places(t) : RemoteMove(k, t, place)
                   \/ Crash
                   \/ UNCHANGED vars
    PROVE  TypeOK'
<1>1. ASSUME NEW full \in BOOLEAN, SyncStart(full) PROVE TypeOK'
  BY <1>1 DEF SyncStart, Acquire, store, pass, screen, drift, TypeOK
<1>2. ASSUME NEW K \in SUBSET Keys, SearchPage(K) PROVE TypeOK'
  <2>1. DOMAIN page' = K /\ \A k \in K : page'[k] = jira[k]
    BY <1>2 DEF SearchPage
  <2>2. DOMAIN page' \subseteq Keys /\ \A k \in DOMAIN page' : page'[k] \in IssueRow
    BY <2>1 DEF TypeOK
  <2>. QED
    BY <1>2, <2>2 DEF SearchPage, store, pass, screen, drift, TypeOK
<1>3. CASE UpsertPage
  <2>1. issue' \in [Keys -> IssueRow \cup {None}]
    BY <1>3, LandedType DEF UpsertPage, TypeOK
  <2>2. DOMAIN page' = {}
    BY <1>3 DEF UpsertPage
  <2>3. DOMAIN page' \subseteq Keys /\ \A k \in DOMAIN page' : page'[k] \in IssueRow
    BY <2>2
  <2>. QED
    BY <1>3, <2>1, <2>3 DEF UpsertPage, pass, screen, drift, TypeOK
<1>4. CASE SyncEnds
  BY <1>4 DEF SyncEnds, store, pass, screen, drift, TypeOK
<1>5. ASSUME NEW k \in Keys, NEW t \in MoveTypes, NEW place \in Places(t), RemoteMove(k, t, place)
      PROVE  TypeOK'
  <2>1. [jira[k] EXCEPT ![t] = place] \in IssueRow
    BY MovedRow DEF TypeOK
  <2>2. jira' = [jira EXCEPT ![k] = [jira[k] EXCEPT ![t] = place]]
    BY <1>5 DEF RemoteMove
  <2>3. jira' \in [Keys -> IssueRow]
    BY <2>1, <2>2 DEF TypeOK
  <2>. QED
    BY <1>5, <2>3 DEF RemoteMove, store, engine, pass, screen, TypeOK
<1>6. CASE Crash
  <2>1. /\ rows' = {} /\ ready' = {} /\ clearing' = {} /\ toPlan' = {} /\ pushed' = {} /\ held' = {}
        /\ cards' = {} /\ job' = "none" /\ clear' = FALSE /\ resolving' = Resting
        /\ UNCHANGED <<jira, store, want, drift>>
    BY <1>6 DEF Crash
  <2>2. DOMAIN page' = {}
    BY <1>6 DEF Crash
  <2>3. DOMAIN page' \subseteq Keys /\ \A k \in DOMAIN page' : page'[k] \in IssueRow
    BY <2>2
  <2>. QED
    BY <2>1, <2>3 DEF store, drift, TypeOK
<1>7. CASE UNCHANGED vars
  BY <1>7 DEF vars, TypeOK
<1>. QED
  BY <1>1, <1>2, <1>3, <1>4, <1>5, <1>6, <1>7 DEF SyncStep

LEMMA StepTypeOK ==
    ASSUME TypeOK, [Next]_vars PROVE TypeOK'
BY UserTypeOK, CommitTypeOK, OtherTypeOK DEF Next

\* Every variable keeps its type in every behaviour, whatever happens in it.
THEOREM TypeCorrect == Spec => []TypeOK
<1>1. Init => TypeOK
  BY InitTypeOK
<1>2. TypeOK /\ [Next]_vars => TypeOK'
  BY StepTypeOK
<1>. QED
  BY <1>1, <1>2, PTL DEF Spec

-----------------------------------------------------------------------------
\* Two rows at one place are one row.
LEMMA OneRowAPlace ==
    ASSUME NEW S, S \subseteq Rows, WellKeyed(S), NEW r \in S, NEW s \in S,
           r.type = s.type, r.key = s.key
    PROVE  r = s
BY RowFacts DEF WellKeyed

\* A card dragged somewhere is shown there.
LEMMA MoveShows ==
    ASSUME TypeOK, MoveIsShown, NEW k \in Keys, NEW t \in MoveTypes, NEW place \in Places(t),
           Move(k, t, place)
    PROVE  MoveIsShown'
<1>1. issue[k] \in IssueRow
  BY DEF Move, TypeOK
<1>2. issue' = [issue EXCEPT ![k] = [issue[k] EXCEPT ![t] = place]] /\ issue \in [Keys -> IssueRow \cup {None}]
  BY DEF Move, TypeOK
<1>3. ASSUME NEW r \in journal'
      PROVE  \/ r \in journal /\ ~(r.type = t /\ r.key = k /\ r.field = t)
             \/ r.type = t /\ r.key = k /\ r.after = place
  <2>1. \A q \in RowsAt(journal, t, k, t) : q.before # place
    BY DEF Move
  <2>2. journal' = Upsert(journal, nextId, t, k, t, issue[k][t], place, 0)
    BY <2>1, PutIsUpsert DEF Move
  <2>3. journal \in SUBSET PendingChange(MoveTypes, Keys, MoveTypes, Statuses \cup Sprints)
    BY DEF TypeOK, Rows
  <2>. QED
    BY <2>2, <2>3, <1>3, UpsertRows
<1>4. ASSUME NEW r \in journal', issue'[r.key] # None PROVE issue'[r.key][r.type] = r.after
  <2>1. CASE r.type = t /\ r.key = k /\ r.after = place
    BY <2>1, <1>1, <1>2, MovedRow
  <2>2. CASE r \in journal /\ ~(r.type = t /\ r.key = k /\ r.field = t)
    <3>1. r.key \in Keys /\ r.type \in MoveTypes /\ r.field = r.type
      BY <2>2, RowFacts DEF TypeOK
    <3>2. CASE r.key = k
      <4>1. issue'[r.key][r.type] = issue[k][r.type]
        BY <2>2, <3>1, <3>2, <1>1, <1>2, MovedRow
      <4>2. issue[r.key] # None
        BY <3>2 DEF Move
      <4>. QED
        BY <2>2, <3>2, <4>1, <4>2 DEF MoveIsShown, holdsMove
    <3>3. CASE r.key # k
      BY <1>2, <1>4, <2>2, <3>1, <3>3 DEF MoveIsShown, holdsMove
    <3>. QED
      BY <3>2, <3>3
  <2>. QED
    BY <1>3, <1>4, <2>1, <2>2
<1>. QED
  BY <1>4 DEF MoveIsShown, holdsMove

\* Rows put back take nothing from the rows that stay.
LEMMA DiscardShows ==
    ASSUME TypeOK, MoveIsShown, NEW S \in SUBSET journal, Discarded(S)
    PROVE  MoveIsShown'
<1>. DEFINE reverted == {r \in S : holdsMove(r)}
<1>1. ASSUME NEW s \in journal', issue'[s.key] # None PROVE issue'[s.key][s.type] = s.after
  <2>1. s \in journal /\ s \notin S
    BY <1>1, DiscardedType
  <2>2. s.key \in Keys /\ s.type \in MoveTypes
    BY <2>1, RowFacts DEF TypeOK
  <2>3. RowsAt(reverted, s.type, s.key, s.type) = {}
    <3>1. SUFFICES ASSUME NEW q \in RowsAt(reverted, s.type, s.key, s.type) PROVE FALSE
      OBVIOUS
    <3>2. q \in journal /\ q \in S /\ q.type = s.type /\ q.key = s.key
      BY DEF RowsAt
    <3>. QED
      BY <2>1, <3>2, OneRowAPlace DEF TypeOK
  <2>4. issue' = [k \in Keys |->
              IF issue[k] = None THEN None
              ELSE [t \in MoveTypes |-> BeforeVal(reverted, t, k, t, issue[k][t])]]
    BY DEF Discarded
  <2>. HIDE DEF reverted
  <2>5. issue[s.key] # None /\ issue'[s.key][s.type] = BeforeVal(reverted, s.type, s.key, s.type, issue[s.key][s.type])
    BY <1>1, <2>2, <2>4
  <2>6. issue'[s.key][s.type] = issue[s.key][s.type]
    BY <2>3, <2>5 DEF BeforeVal
  <2>. QED
    BY <2>1, <2>5, <2>6 DEF MoveIsShown, holdsMove
<1>. QED
  BY <1>1 DEF MoveIsShown, holdsMove

\* Rows that leave the journal and a page that lands leave the rest shown.
LEMMA FewerRowsShow ==
    ASSUME MoveIsShown, journal' \subseteq journal, issue' = issue
    PROVE  MoveIsShown'
BY DEF MoveIsShown, holdsMove

LEMMA LandedShows ==
    ASSUME TypeOK, MoveIsShown, NEW cleared \in BOOLEAN, issue' = Landed(cleared), journal' = journal
    PROVE  MoveIsShown'
<1>1. ASSUME NEW r \in journal, issue'[r.key] # None PROVE issue'[r.key][r.type] = r.after
  <2>1. r.key \in Keys
    BY RowFacts DEF TypeOK
  <2>2. CASE r.key \in DOMAIN page
    <3>1. issue'[r.key] = reapplyPending(r.key, page[r.key])
      BY <2>1, <2>2 DEF Landed
    <3>. QED
      BY <3>1, ReapplyShows DEF TypeOK
  <2>3. CASE r.key \notin DOMAIN page
    BY <1>1, <2>1, <2>3 DEF Landed, MoveIsShown, holdsMove
  <2>. QED
    BY <2>2, <2>3
<1>. QED
  BY <1>1 DEF MoveIsShown, holdsMove

LEMMA StepMoveIsShown ==
    ASSUME TypeOK, MoveIsShown, [Next]_vars PROVE MoveIsShown'
<1>1. ASSUME NEW r \in journal, Undo(r) PROVE MoveIsShown'
  <2>1. r \in Rows /\ r.key \in Keys /\ r.type \in MoveTypes
    BY RowFacts DEF TypeOK
  <2>2. issue[r.key] \in IssueRow
    BY <1>1, <2>1 DEF Undo, TypeOK
  <2>3. issue' = issue \/ issue' = [issue EXCEPT ![r.key] = [issue[r.key] EXCEPT ![r.type] = r.before]]
    BY <1>1 DEF Undo
  <2>4. ASSUME NEW s \in journal', issue'[s.key] # None PROVE issue'[s.key][s.type] = s.after
    <3>1. s \in journal /\ s # r
      BY <1>1 DEF Undo
    <3>2. s.key \in Keys /\ s.type \in MoveTypes
      BY <3>1, RowFacts DEF TypeOK
    <3>3. ~(s.key = r.key /\ s.type = r.type)
      BY <3>1, OneRowAPlace DEF TypeOK
    <3>4. issue[s.key] # None => issue[s.key][s.type] = s.after
      BY <3>1 DEF MoveIsShown, holdsMove
    <3>5. CASE s.key = r.key
      <4>1. [issue[r.key] EXCEPT ![r.type] = r.before][s.type] = issue[r.key][s.type]
        BY <2>1, <2>2, <3>2, <3>3, <3>5, RowFacts, MovedRow
      <4>2. issue[r.key] # None
        BY <1>1 DEF Undo
      <4>. QED
        BY <2>1, <2>3, <3>4, <3>5, <4>1, <4>2 DEF TypeOK
    <3>6. CASE s.key # r.key
      BY <2>1, <2>3, <2>4, <3>2, <3>4, <3>6 DEF TypeOK
    <3>. QED
      BY <3>5, <3>6
  <2>. QED
    BY <2>4 DEF MoveIsShown, holdsMove
<1>2. CASE RebaseMoves
  <2>1. ASSUME NEW s \in journal' PROVE \E r \in journal : r.key = s.key /\ r.type = s.type /\ r.after = s.after
    <3>1. PICK r \in journal : s = r \/ s = [r EXCEPT !.before = resolving.read[r.type]]
      BY <1>2 DEF RebaseMoves
    <3>2. r \in PendingChange(MoveTypes, Keys, MoveTypes, Statuses \cup Sprints)
      BY DEF TypeOK, Rows
    <3>. QED
      BY <3>1, <3>2 DEF PendingChange
  <2>. QED
    BY <1>2, <2>1 DEF RebaseMoves, MoveIsShown, holdsMove
<1>3. CASE KeepReplace
  <2>1. ASSUME NEW r \in journal, issue'[r.key] # None PROVE issue'[r.key][r.type] = r.after
    <3>1. r.key \in Keys /\ resolving.key \in Keys
      BY <1>3, RowFacts DEF KeepReplace, TypeOK, Resting
    <3>2. issue' = [issue EXCEPT ![resolving.key] = reapplyPending(resolving.key, resolving.read)]
      BY <1>3 DEF KeepReplace
    <3>3. CASE r.key = resolving.key
      <4>1. issue'[r.key] = reapplyPending(r.key, resolving.read)
        BY <3>1, <3>2, <3>3 DEF TypeOK
      <4>. QED
        BY <4>1, ReapplyShows DEF TypeOK
    <3>4. CASE r.key # resolving.key
      BY <2>1, <3>1, <3>2, <3>4 DEF TypeOK, MoveIsShown, holdsMove
    <3>. QED
      BY <3>3, <3>4
  <2>. QED
    BY <1>3, <2>1 DEF KeepReplace, MoveIsShown, holdsMove
<1>4. CASE UserStep
  <2>1. ASSUME NEW r \in journal, DiscardPendingChange(r) PROVE MoveIsShown'
    BY <2>1, DiscardShows DEF DiscardPendingChange
  <2>2. ASSUME NEW k \in cards, OverrideRead(k) \/ KeepRead(k) PROVE MoveIsShown'
    BY <2>2, FewerRowsShow DEF OverrideRead, KeepRead, store
  <2>3. CASE KeepDiscard
    <3>1. ListForKey(journal, resolving.key) \in SUBSET journal
      BY DEF ListForKey
    <3>. QED
      BY <2>3, <3>1, DiscardShows DEF KeepDiscard
  <2>4. CASE ResolutionFails
    BY <2>4, FewerRowsShow DEF ResolutionFails, store
  <2>. QED
    BY <1>1, <1>2, <1>3, <1>4, <2>1, <2>2, <2>3, <2>4, MoveShows DEF UserStep
<1>5. CASE CommitStart \/ CommitStep
  <2>1. ASSUME NEW r, ClearMove(r) PROVE MoveIsShown'
    BY <2>1, FewerRowsShow DEF ClearMove, clearMoveRow
  <2>2. CASE Replace
    BY <2>2, LandedShows DEF Replace
  <2>3. CASE ~Replace /\ ~\E r \in clearing : ClearMove(r)
    <3>1. UNCHANGED store
      BY <1>5, <2>3 DEF CommitStart, CommitStep, Plan, PlanFails, ClearFails, PushSprints,
         PushSprintsFails, PushTransition, PushTransitionFails, Reread, RefreshFails, CommitEnds
    <3>. QED
      BY <3>1, FewerRowsShow DEF store
  <2>. QED
    BY <2>1, <2>2, <2>3
<1>6. CASE \/ \E full \in BOOLEAN : SyncStart(full)
           \/ SyncStep
           \/ \E k \in Keys, t \in MoveTypes : \E place \in Places(t) : RemoteMove(k, t, place)
           \/ Crash
           \/ UNCHANGED vars
  <2>1. CASE UpsertPage
    BY <2>1, LandedShows DEF UpsertPage, TypeOK
  <2>2. CASE ~UpsertPage
    <3>1. UNCHANGED store
      BY <1>6, <2>2 DEF SyncStart, SyncStep, SearchPage, SyncEnds, RemoteMove, Crash, vars, store
    <3>. QED
      BY <3>1, FewerRowsShow DEF store
  <2>. QED
    BY <2>1, <2>2
<1>. QED
  BY <1>4, <1>5, <1>6 DEF Next

\* A card stays where it was dropped, whatever a sync, a refresh, a discard or
\* a resolution did last to the cache (MoveIsShown).
THEOREM MoveAlwaysShown == Spec => []MoveIsShown
<1>1. Init => TypeOK /\ MoveIsShown
  BY InitTypeOK DEF Init, MoveIsShown
<1>2. TypeOK /\ MoveIsShown /\ [Next]_vars => TypeOK' /\ MoveIsShown'
  BY StepTypeOK, StepMoveIsShown
<1>. QED
  BY <1>1, <1>2, PTL DEF Spec

-----------------------------------------------------------------------------
\* What makes clearing by id safe: an id a Commit read is never handed out
\* again, and a row that carries one is still the row of that card and move.
RowsAreOld ==
    /\ WellKeyed(rows)
    /\ \A r \in rows :
        /\ r.id < nextId
        /\ \A s \in journal : s.id = r.id => s.key = r.key /\ s.type = r.type

\* The rows a step leaves are new, or carry the place and the id of old ones.
LEMMA OldRowsStayOld ==
    ASSUME RowsAreOld, nextId \in Nat, rows' \subseteq rows, nextId' \in Nat, nextId <= nextId',
           rows \subseteq Rows,
           \A s \in journal' : \/ s.id = nextId
                               \/ \E q \in journal : s.id = q.id /\ s.key = q.key /\ s.type = q.type
    PROVE  RowsAreOld'
<1>1. ASSUME NEW r \in rows'
      PROVE  r.id < nextId' /\ \A s \in journal' : s.id = r.id => s.key = r.key /\ s.type = r.type
  <2>1. r \in rows /\ r.id \in Nat /\ r.id < nextId
    BY RowFacts DEF RowsAreOld
  <2>2. ASSUME NEW s \in journal', s.id = r.id PROVE s.key = r.key /\ s.type = r.type
    <3>1. PICK q \in journal : s.id = q.id /\ s.key = q.key /\ s.type = q.type
      BY <2>1, <2>2
    <3>. QED
      BY <2>1, <2>2, <3>1 DEF RowsAreOld
  <2>. QED
    BY <2>1, <2>2
<1>2. WellKeyed(rows')
  BY SubsetWellKeyed DEF RowsAreOld
<1>. QED
  BY <1>1, <1>2 DEF RowsAreOld

\* The rows a drop and a rebase leave, seen through their ids.
LEMMA MoveKeepsIds ==
    ASSUME TypeOK, NEW k \in Keys, NEW t \in MoveTypes, NEW place \in Places(t), Move(k, t, place),
           NEW s \in journal'
    PROVE  s.id = nextId \/ \E q \in journal : s.id = q.id /\ s.key = q.key /\ s.type = q.type
<1>1. \A q \in RowsAt(journal, t, k, t) : q.before # place
  BY DEF Move
<1>2. journal' = Upsert(journal, nextId, t, k, t, issue[k][t], place, 0)
  BY <1>1, PutIsUpsert DEF Move
<1>3. journal \in SUBSET PendingChange(MoveTypes, Keys, MoveTypes, Statuses \cup Sprints)
  BY DEF TypeOK, Rows
<1>4. \/ s \in journal
      \/ /\ s.type = t /\ s.key = k
         /\ \/ s.id = nextId
            \/ \E q \in RowsAt(journal, t, k, t) : /\ s.id = q.id /\ s.before = q.before
                                                   /\ s.base = q.base /\ q.before # place
  BY <1>2, <1>3, UpsertRows
<1>. QED
  BY <1>4 DEF RowsAt

LEMMA RebaseKeepsRows ==
    ASSUME TypeOK, RebaseMoves
    PROVE  /\ \A s \in journal' : \E r \in journal :
                 s.id = r.id /\ s.key = r.key /\ s.type = r.type
           /\ \A r \in journal : \E s \in journal' :
                 s.field = r.field /\ s.key = r.key /\ s.type = r.type /\ s.after = r.after
<1>1. journal \subseteq PendingChange(MoveTypes, Keys, MoveTypes, Statuses \cup Sprints)
  BY DEF TypeOK, Rows
<1>2. \A r \in journal :
          LET s == [r EXCEPT !.before = resolving.read[r.type]]
          IN  s.id = r.id /\ s.key = r.key /\ s.type = r.type /\ s.field = r.field /\ s.after = r.after
  BY <1>1 DEF PendingChange
<1>. DEFINE rebased(r) == IF r.key = resolving.key /\ resolving.read[r.type] \notin {r.before, r.after}
                          THEN [r EXCEPT !.before = resolving.read[r.type]] ELSE r
<1>3. \A r \in journal : /\ rebased(r).id = r.id /\ rebased(r).key = r.key /\ rebased(r).type = r.type
                         /\ rebased(r).field = r.field /\ rebased(r).after = r.after
  BY <1>2
<1>4. journal' = {rebased(r) : r \in journal}
  BY DEF RebaseMoves
<1>. HIDE DEF rebased
<1>. QED
  BY <1>3, <1>4

LEMMA StepRowsAreOld ==
    ASSUME TypeOK, RowsAreOld, [Next]_vars PROVE RowsAreOld'
<1>. nextId \in Nat /\ rows \subseteq Rows
  BY DEF TypeOK
<1>1. ASSUME NEW k \in Keys, NEW t \in MoveTypes, NEW place \in Places(t), Move(k, t, place)
      PROVE  RowsAreOld'
  <2>1. nextId' \in Nat /\ nextId <= nextId' /\ rows' = rows
    BY <1>1 DEF Move, engine, pass
  <2>. QED
    BY <1>1, <2>1, MoveKeepsIds, OldRowsStayOld
<1>2. CASE RebaseMoves
  BY <1>2, RebaseKeepsRows, OldRowsStayOld DEF RebaseMoves, engine, pass
<1>3. CASE CommitStart
  <2>1. /\ rows' = journal /\ journal' = journal /\ nextId' = nextId
        /\ WellKeyed(journal) /\ \A r \in journal : r.id < nextId
    BY <1>3 DEF CommitStart, store, TypeOK
  <2>. QED
    BY <2>1 DEF RowsAreOld, WellKeyed
<1>4. CASE ~RebaseMoves /\ ~CommitStart
           /\ ~\E k \in Keys, t \in MoveTypes : \E place \in Places(t) : Move(k, t, place)
  <2>1. ASSUME NEW r \in journal, Undo(r) \/ DiscardPendingChange(r)
        PROVE  journal' \subseteq journal /\ rows' = rows /\ nextId' = nextId
    BY <2>1, DiscardedType DEF Undo, DiscardPendingChange, engine, pass
  <2>2. ASSUME KeepDiscard
        PROVE  journal' \subseteq journal /\ rows' = rows /\ nextId' = nextId
    BY <2>2 DEF KeepDiscard, Discarded, Delete, engine, pass
  <2>3. ASSUME UserStep PROVE journal' \subseteq journal /\ rows' \subseteq rows /\ nextId' = nextId
    BY <1>4, <2>1, <2>2, <2>3 DEF UserStep, OverrideRead, KeepRead, KeepReplace, ResolutionFails,
       store, engine, pass
  <2>4. ASSUME CommitStep PROVE journal' \subseteq journal /\ rows' \subseteq rows /\ nextId' = nextId
    BY <2>4 DEF CommitStep, Plan, PlanFails, ClearMove, clearMoveRow, ClearFails, PushSprints,
       PushSprintsFails, PushTransition, PushTransitionFails, Reread, Replace, RefreshFails,
       CommitEnds, store, pass
  <2>5. ASSUME \/ \E full \in BOOLEAN : SyncStart(full)
               \/ SyncStep
               \/ \E k \in Keys, t \in MoveTypes : \E place \in Places(t) : RemoteMove(k, t, place)
               \/ Crash
               \/ UNCHANGED vars
        PROVE  journal' \subseteq journal /\ rows' \subseteq rows /\ nextId' = nextId
    BY <2>5 DEF SyncStart, SyncStep, SearchPage, UpsertPage, SyncEnds, RemoteMove, Crash, vars,
       store, engine, pass
  <2>6. journal' \subseteq journal /\ rows' \subseteq rows /\ nextId' = nextId
    BY <1>4, <2>3, <2>4, <2>5 DEF Next
  <2>. QED
    BY <2>6, OldRowsStayOld
<1>. QED
  BY <1>1, <1>2, <1>3, <1>4

-----------------------------------------------------------------------------
\* A place the user waits for keeps its row, or stops being waited for.
LEMMA NothingDropped ==
    ASSUME NoMoveLost,
           \A k \in Keys, t \in MoveTypes : want'[k][t] # None =>
               /\ want'[k][t] = want[k][t]
               /\ \A r \in RowsAt(journal, t, k, t) : r.after = want[k][t] =>
                      \E s \in RowsAt(journal', t, k, t) : s.after = r.after
    PROVE  NoMoveLost'
BY DEF NoMoveLost

\* Rows put back were taken back.
LEMMA DiscardLosesNothing ==
    ASSUME TypeOK, NoMoveLost, NEW S \in SUBSET journal, Discarded(S)
    PROVE  NoMoveLost'
<1>1. journal' = journal \ S
  BY DiscardedType
<1>2. want' = [k \in Keys |-> [t \in MoveTypes |->
                  IF RowsAt(S, t, k, t) = {} THEN want[k][t] ELSE None]]
  BY DEF Discarded
<1>3. ASSUME NEW k \in Keys, NEW t \in MoveTypes, want'[k][t] # None,
             NEW r \in RowsAt(journal, t, k, t)
      PROVE  want'[k][t] = want[k][t] /\ r \in RowsAt(journal', t, k, t)
  <2>1. RowsAt(S, t, k, t) = {} /\ want'[k][t] = want[k][t]
    BY <1>2, <1>3
  <2>. QED
    BY <1>1, <2>1 DEF RowsAt
<1>4. ASSUME NEW k \in Keys, NEW t \in MoveTypes, want'[k][t] # None
      PROVE  want'[k][t] = want[k][t]
  BY <1>2, <1>4
<1>. QED
  BY <1>3, <1>4, NothingDropped

\* What Jira reached is not waited for, and everything else is as before.
LEMMA ReachedKeeps ==
    ASSUME NEW S, Reached(S), NEW k \in Keys, NEW t \in MoveTypes, want'[k][t] # None
    PROVE  /\ want'[k][t] = want[k][t]
           /\ \A r \in RowsAt(S, t, k, t) : r.after # want[k][t]
BY DEF Reached

LEMMA StepNoMoveLost ==
    ASSUME TypeOK, RowsAreOld, NoMoveLost, [Next]_vars PROVE NoMoveLost'
<1>1. ASSUME NEW k \in Keys, NEW t \in MoveTypes, NEW place \in Places(t), Move(k, t, place)
      PROVE  NoMoveLost'
  <2>1. /\ journal' = Put(journal, nextId, t, k, t, issue[k][t], place, 0)
        /\ want' = [want EXCEPT ![k] = [want[k] EXCEPT ![t] = place]]
    BY <1>1 DEF Move
  <2>2. journal \in SUBSET PendingChange(MoveTypes, Keys, MoveTypes, Statuses \cup Sprints)
    BY DEF TypeOK, Rows
  <2>3. want \in [Keys -> [MoveTypes -> Statuses \cup Sprints \cup {None}]]
    BY DEF TypeOK
  <2>4. ASSUME NEW j \in Keys, NEW u \in MoveTypes, want'[j][u] # None
        PROVE  \E r \in RowsAt(journal', u, j, u) : r.after = want'[j][u]
    <3>1. CASE j = k /\ u = t
      <4>1. want'[j][u] = place
        BY <2>1, <2>3, <3>1
      <4>. QED
        BY <2>1, <2>2, <3>1, <4>1, PutIsThere
    <3>2. CASE ~(j = k /\ u = t)
      <4>1. want'[j][u] = want[j][u]
        BY <2>1, <2>3, <3>2
      <4>2. PICK r \in RowsAt(journal, u, j, u) : r.after = want[j][u]
        BY <2>4, <4>1 DEF NoMoveLost
      <4>3. r \in journal /\ ~(r.type = t /\ r.key = k /\ r.field = t) /\ r.type = u /\ r.key = j /\ r.field = u
        BY <3>2 DEF RowsAt
      <4>4. r \in journal'
        BY <2>1, <4>3, PutKeepsOthers
      <4>. QED
        BY <4>1, <4>2, <4>3, <4>4 DEF RowsAt
    <3>. QED
      BY <3>1, <3>2
  <2>. QED
    BY <2>4 DEF NoMoveLost
<1>2. ASSUME NEW r \in journal, Undo(r) PROVE NoMoveLost'
  <2>1. /\ journal' = journal \ {r} /\ r.key \in Keys /\ r.type \in MoveTypes
        /\ want' = [want EXCEPT ![r.key] = [want[r.key] EXCEPT ![r.type] = None]]
        /\ want \in [Keys -> [MoveTypes -> Statuses \cup Sprints \cup {None}]]
    BY <1>2, RowFacts DEF Undo, TypeOK
  <2>2. ASSUME NEW k \in Keys, NEW t \in MoveTypes, want'[k][t] # None
        PROVE  /\ want'[k][t] = want[k][t]
               /\ ~(k = r.key /\ t = r.type)
    BY <2>1, <2>2
  <2>3. ASSUME NEW k \in Keys, NEW t \in MoveTypes, want'[k][t] # None,
               NEW s \in RowsAt(journal, t, k, t)
        PROVE  s \in RowsAt(journal', t, k, t)
    BY <2>1, <2>2, <2>3 DEF RowsAt
  <2>. QED
    BY <2>2, <2>3, NothingDropped
<1>3. CASE RebaseMoves
  <2>1. want' = want
    BY <1>3 DEF RebaseMoves
  <2>. QED
    BY <1>3, <2>1, RebaseKeepsRows, NothingDropped DEF RowsAt
<1>4. ASSUME NEW r \in clearing, ClearMove(r) PROVE NoMoveLost'
  <2>1. journal' = clearMoveRow(r) /\ Reached({r})
    BY <1>4 DEF ClearMove
  <2>2. r \in rows /\ r \in Rows /\ r.field = r.type
    BY RowFacts DEF TypeOK
  <2>3. ASSUME NEW k \in Keys, NEW t \in MoveTypes, want'[k][t] # None,
               NEW s \in RowsAt(journal, t, k, t), s.after = want[k][t]
        PROVE  s \in RowsAt(journal', t, k, t)
    <3>1. s \in journal /\ s.type = t /\ s.key = k /\ s.field = t
      BY DEF RowsAt
    <3>2. ASSUME s.id = r.id, s.after = r.after PROVE FALSE
      <4>1. r.key = k /\ r.type = t
        BY <2>2, <3>1, <3>2 DEF RowsAreOld
      <4>2. r \in RowsAt({r}, t, k, t)
        BY <2>2, <4>1 DEF RowsAt
      <4>. QED
        <5>1. \A q \in RowsAt({r}, t, k, t) : q.after # want[k][t]
          BY <2>1, <2>3, ReachedKeeps
        <5>. QED
          BY <2>3, <3>2, <4>2, <5>1
    <3>. QED
      BY <2>1, <3>1, <3>2 DEF clearMoveRow, RowsAt
  <2>. QED
    BY <2>1, <2>3, ReachedKeeps, NothingDropped
<1>5. ASSUME journal' = journal,
             \A k \in Keys, t \in MoveTypes : want'[k][t] # None => want'[k][t] = want[k][t]
      PROVE  NoMoveLost'
  BY <1>5, NothingDropped
<1>6. CASE UserStep
  <2>1. ASSUME NEW r \in journal, DiscardPendingChange(r) PROVE NoMoveLost'
    BY <2>1, DiscardLosesNothing DEF DiscardPendingChange
  <2>2. CASE KeepDiscard
    <3>1. ListForKey(journal, resolving.key) \in SUBSET journal
      BY DEF ListForKey
    <3>. QED
      BY <2>2, <3>1, DiscardLosesNothing DEF KeepDiscard
  <2>3. ASSUME NEW k \in cards, OverrideRead(k) \/ KeepRead(k) PROVE NoMoveLost'
    BY <2>3, <1>5 DEF OverrideRead, KeepRead, store
  <2>4. CASE KeepReplace
    BY <2>4, <1>5 DEF KeepReplace
  <2>5. CASE ResolutionFails
    BY <2>5, <1>5 DEF ResolutionFails, store
  <2>. QED
    BY <1>1, <1>2, <1>3, <1>6, <2>1, <2>2, <2>3, <2>4, <2>5 DEF UserStep
<1>7. CASE CommitStart \/ CommitStep
  <2>1. ASSUME NEW S, Reached(S), journal' = journal PROVE NoMoveLost'
    BY <2>1, <1>5, ReachedKeeps
  <2>2. ASSUME NEW k, Plan(k) PROVE NoMoveLost'
    <3>1. journal' = journal /\ \E S : Reached(S)
      BY <2>2 DEF Plan, store
    <3>. QED
      BY <3>1, <2>1
  <2>3. ASSUME NEW target, PushSprints(target) \/ PushSprintsFails(target) PROVE NoMoveLost'
    <3>1. journal' = journal /\ \E S : Reached(S)
      BY <2>3 DEF PushSprints, PushSprintsFails, Land, store
    <3>. QED
      BY <3>1, <2>1
  <2>4. ASSUME NEW r, PushTransition(r) \/ PushTransitionFails(r) PROVE NoMoveLost'
    <3>1. journal' = journal /\ (Reached({r}) \/ want' = want)
      BY <2>4 DEF PushTransition, PushTransitionFails, Land, store
    <3>. QED
      BY <3>1, <2>1, <1>5
  <2>5. CASE /\ ~\E r \in clearing : ClearMove(r)
             /\ ~\E k \in Keys : Plan(k)
             /\ ~\E target \in Sprints : PushSprints(target) \/ PushSprintsFails(target)
             /\ ~\E r \in ready : PushTransition(r) \/ PushTransitionFails(r)
    <3>1. journal' = journal /\ want' = want
      BY <1>7, <2>5 DEF CommitStart, CommitStep, PlanFails, ClearFails, Reread, Replace,
         RefreshFails, CommitEnds, store
    <3>. QED
      BY <3>1, <1>5
  <2>. QED
    BY <1>4, <2>2, <2>3, <2>4, <2>5
<1>8. CASE \/ \E full \in BOOLEAN : SyncStart(full)
           \/ SyncStep
           \/ \E k \in Keys, t \in MoveTypes : \E place \in Places(t) : RemoteMove(k, t, place)
           \/ Crash
           \/ UNCHANGED vars
  <2>1. journal' = journal /\ want' = want
    BY <1>8 DEF SyncStart, SyncStep, SearchPage, UpsertPage, SyncEnds, RemoteMove, Crash, vars, store
  <2>. QED
    BY <2>1, <1>5
<1>. QED
  BY <1>6, <1>7, <1>8 DEF Next

\* Until Jira has a card where it was last dropped, or the user takes the drop
\* back, its row is in the journal, whatever a Commit was pushing when it was
\* dropped and whichever of its calls failed (NoMoveLost).
THEOREM NoDropIsLost == Spec => []NoMoveLost
<1>1. Init => TypeOK /\ RowsAreOld /\ NoMoveLost
  BY InitTypeOK DEF Init, RowsAreOld, NoMoveLost, WellKeyed
<1>2. TypeOK /\ RowsAreOld /\ NoMoveLost /\ [Next]_vars => TypeOK' /\ RowsAreOld' /\ NoMoveLost'
  BY StepTypeOK, StepRowsAreOld, StepNoMoveLost
<1>. QED
  BY <1>1, <1>2, PTL DEF Spec

-----------------------------------------------------------------------------
\* What the plan promises the pushes: a row is worth pushing while Jira has
\* the card where the row says it was dragged from, and an issue has been
\* planned as a whole before any of its rows is pushed.
ReadyAsPlanned ==
    /\ held \cap toPlan = {}
    /\ \A r \in ready : jira[r.key][r.type] = r.before /\ r.key \notin toPlan \cup held

\* Pushing some rows moves none of the cards the others wait to push.
LEMMA LandKeepsReady ==
    ASSUME TypeOK, RowsAreOld, ReadyAsPlanned, NEW S \in SUBSET ready, NEW place, Land(S, place),
           NEW r \in ready \ S
    PROVE  jira'[r.key][r.type] = r.before
<1>1. r \in Rows /\ r.key \in Keys /\ r.type \in MoveTypes
  BY RowFacts DEF TypeOK
<1>2. RowsAt(S, r.type, r.key, r.type) = {}
  <2>1. ASSUME NEW q \in RowsAt(S, r.type, r.key, r.type) PROVE FALSE
    <3>1. q \in ready /\ q \in S /\ q.type = r.type /\ q.key = r.key
      BY DEF RowsAt
    <3>2. ready \subseteq rows /\ rows \subseteq Rows
      BY DEF TypeOK
    <3>3. q = r
      BY <3>1, <3>2, OneRowAPlace DEF RowsAreOld
    <3>. QED
      BY <3>1, <3>3
  <2>. QED
    BY <2>1
<1>3. jira'[r.key][r.type] = jira[r.key][r.type]
  BY <1>1, <1>2 DEF Land
<1>. QED
  BY <1>3 DEF ReadyAsPlanned

LEMMA StepReadyAsPlanned ==
    ASSUME "race" \notin Env, TypeOK, RowsAreOld, ReadyAsPlanned, [Next]_vars
    PROVE  ReadyAsPlanned'
<1>1. ASSUME ready' \subseteq ready, toPlan' \subseteq toPlan, held' \subseteq held,
             \A r \in ready' : jira'[r.key][r.type] = r.before
      PROVE  ReadyAsPlanned'
  BY <1>1 DEF ReadyAsPlanned
<1>2. ASSUME ready' \subseteq ready, toPlan' \subseteq toPlan, held' \subseteq held,
             jira' = jira
      PROVE  ReadyAsPlanned'
  BY <1>1, <1>2 DEF ReadyAsPlanned
<1>3. ASSUME ready' = {}, held' = {} PROVE ReadyAsPlanned'
  BY <1>3 DEF ReadyAsPlanned
<1>4. CASE UserStep
  <2>1. UNCHANGED <<jira, engine>>
    BY <1>4 DEF UserStep, Move, Undo, DiscardPendingChange, OverrideRead, RebaseMoves, KeepRead,
       KeepDiscard, KeepReplace, ResolutionFails, engine, pass
  <2>. QED
    BY <2>1, <1>2 DEF engine, pass
<1>5. CASE CommitStart
  <2>1. ready = {} /\ held = {} /\ ready' = ready /\ held' = held
    BY <1>5 DEF CommitStart, Acquire, TypeOK
  <2>. QED
    BY <2>1 DEF ReadyAsPlanned
<1>6. ASSUME NEW k \in Keys, Plan(k) PROVE ReadyAsPlanned'
  <2>. DEFINE Classified(verdict) ==
                  {r \in rows : r.key = k /\ classifyMove(r, jira[k][r.type]) = verdict}
  <2>1. /\ k \in toPlan /\ toPlan' = toPlan \ {k} /\ jira' = jira
        /\ \/ ready' = ready \cup Classified("push") /\ held' = held
           \/ ready' = ready /\ held' = held \cup {k}
    BY <1>6 DEF Plan
  <2>2. ASSUME NEW r \in Classified("push") PROVE r.key = k /\ jira[r.key][r.type] = r.before
    BY <2>2 DEF classifyMove
  <2>3. k \notin held
    BY <2>1 DEF ReadyAsPlanned
  <2>. HIDE DEF Classified
  <2>4. ASSUME NEW r \in ready'
        PROVE  jira'[r.key][r.type] = r.before /\ r.key \notin toPlan' \cup held'
    <3>1. CASE r \in ready
      BY <2>1, <3>1 DEF ReadyAsPlanned
    <3>2. CASE r \notin ready
      BY <2>1, <2>2, <2>3, <3>2, <2>4
    <3>. QED
      BY <3>1, <3>2
  <2>5. held' \cap toPlan' = {}
    BY <2>1 DEF ReadyAsPlanned
  <2>. QED
    BY <2>1, <2>4, <2>5 DEF ReadyAsPlanned
<1>7. ASSUME NEW S \in SUBSET ready, NEW T \in SUBSET S, NEW place, Land(T, place), ready' = ready \ S,
             toPlan' = toPlan, held' = held
      PROVE  ReadyAsPlanned'
  <2>1. \A r \in ready' : jira'[r.key][r.type] = r.before
    BY <1>7, LandKeepsReady
  <2>. QED
    BY <1>1, <1>7, <2>1
<1>8. ASSUME NEW target \in Sprints, PushSprints(target) \/ PushSprintsFails(target)
      PROVE  ReadyAsPlanned'
  <2>1. Batch(target) \in SUBSET ready
    BY BatchFacts
  <2>2. /\ \E T \in SUBSET Batch(target) : Land(T, target)
        /\ ready' = ready \ Batch(target) /\ toPlan' = toPlan /\ held' = held
    BY <1>8 DEF PushSprints, PushSprintsFails
  <2>. QED
    BY <1>7, <2>1, <2>2
<1>9. ASSUME NEW r \in ready, PushTransition(r) \/ PushTransitionFails(r)
      PROVE  ReadyAsPlanned'
  <2>1. /\ ready' = ready \ {r} /\ toPlan' = toPlan /\ held' = held
        /\ (\E status : Land({r}, status)) \/ jira' = jira
    BY <1>9 DEF PushTransition, PushTransitionFails
  <2>2. CASE jira' = jira
    BY <2>1, <2>2, <1>2
  <2>3. ASSUME NEW status, Land({r}, status) PROVE ReadyAsPlanned'
    BY <2>1, <2>3, <1>7
  <2>. QED
    BY <2>1, <2>2, <2>3
<1>10. CASE CommitEnds
  BY <1>10, <1>3 DEF CommitEnds, Pushing
<1>11. CASE CommitStep
  <2>1. CASE /\ ~CommitEnds
             /\ ~\E k \in Keys : Plan(k)
             /\ ~\E target \in Sprints : PushSprints(target) \/ PushSprintsFails(target)
             /\ ~\E r \in ready : PushTransition(r) \/ PushTransitionFails(r)
    <3>1. ready' = ready /\ toPlan' \subseteq toPlan /\ held' = held /\ jira' = jira
      BY <1>11, <2>1 DEF CommitStep, PlanFails, ClearMove, ClearFails, Reread, Replace, RefreshFails, pass
    <3>. QED
      BY <3>1, <1>2
  <2>. QED
    BY <1>6, <1>8, <1>9, <1>10, <2>1
<1>12. ASSUME NEW k \in Keys, NEW t \in MoveTypes, NEW place \in Places(t), RemoteMove(k, t, place)
       PROVE  ReadyAsPlanned'
  <2>1. /\ RowsAt(ready, t, k, t) = {} /\ UNCHANGED <<ready, toPlan, held>>
        /\ jira' = [jira EXCEPT ![k] = [jira[k] EXCEPT ![t] = place]]
    BY <1>12 DEF RemoteMove, engine, pass
  <2>2. ASSUME NEW r \in ready' PROVE jira'[r.key][r.type] = r.before
    <3>1. r \in ready /\ r \in Rows /\ r.key \in Keys /\ r.type \in MoveTypes /\ r.field = r.type
      BY <2>1, RowFacts DEF TypeOK
    <3>2. ~(r.key = k /\ r.type = t)
      BY <2>1, <3>1 DEF RowsAt
    <3>3. jira[k] \in IssueRow /\ jira \in [Keys -> IssueRow]
      BY DEF TypeOK
    <3>4. r.key = k => [jira[k] EXCEPT ![t] = place][r.type] = jira[r.key][r.type]
      BY <3>1, <3>2, <3>3, MovedRow
    <3>5. jira'[r.key][r.type] = jira[r.key][r.type]
      BY <2>1, <3>1, <3>3, <3>4
    <3>. QED
      BY <3>1, <3>5 DEF ReadyAsPlanned
  <2>. QED
    BY <1>1, <2>1, <2>2
<1>13. CASE Crash
  BY <1>13, <1>3 DEF Crash
<1>14. CASE \/ \E full \in BOOLEAN : SyncStart(full)
            \/ SyncStep
            \/ UNCHANGED vars
  <2>1. UNCHANGED <<jira, ready, toPlan, held>>
    BY <1>14 DEF SyncStart, SyncStep, SearchPage, UpsertPage, SyncEnds, vars, pass
  <2>. QED
    BY <2>1, <1>2
<1>. QED
  BY <1>4, <1>5, <1>11, <1>12, <1>13, <1>14 DEF Next

\* While nobody moves a card between TAM's check and its push, a push takes a
\* card only from where the user saw it when dragging it, and never one of an
\* issue the same Commit holds back (PushedFromWhereItWas).
THEOREM PushedAsSeen == ASSUME "race" \notin Env PROVE Spec => PushedFromWhereItWas
<1>1. Init => TypeOK /\ RowsAreOld /\ ReadyAsPlanned
  BY InitTypeOK DEF Init, RowsAreOld, ReadyAsPlanned, WellKeyed
<1>2. TypeOK /\ RowsAreOld /\ ReadyAsPlanned /\ [Next]_vars
          => TypeOK' /\ RowsAreOld' /\ ReadyAsPlanned'
  BY StepTypeOK, StepRowsAreOld, StepReadyAsPlanned
<1>3. TypeOK /\ ReadyAsPlanned =>
          [ready' # ready /\ jira' # jira =>
              \A r \in ready \ ready' : jira'[r.key] # jira[r.key] =>
                  jira[r.key][r.type] = r.before /\ r.key \notin held]_vars
  BY DEF ReadyAsPlanned
<1>. QED
  BY <1>1, <1>2, <1>3, PTL DEF Spec, PushedFromWhereItWas

-----------------------------------------------------------------------------
\* The jobs and the resolutions exclude each other, and so do the phases of
\* the board pass.
JobsApart ==
    /\ job = "none" => DOMAIN page = {}
    /\ job = "commit" /\ DOMAIN page # {} => toPlan = {} /\ ready = {} /\ clearing = {}
    /\ job # "none" => resolving = Resting
    /\ \A r \in clearing : r.key \notin toPlan

LEMMA StepJobsApart ==
    ASSUME "late" \notin Env, TypeOK, JobsApart, [Next]_vars
    PROVE  JobsApart'
<1>1. ASSUME UNCHANGED <<job, pass, page>>, job # "none" => resolving' = resolving
      PROVE  JobsApart'
  BY <1>1 DEF pass, JobsApart
<1>2. CASE UserStep
  <2>1. UNCHANGED <<job, pass, page>>
    BY <1>2 DEF UserStep, Move, Undo, DiscardPendingChange, OverrideRead, RebaseMoves, KeepRead,
       KeepDiscard, KeepReplace, ResolutionFails, engine
  <2>2. job # "none" => resolving' = resolving
    <3>1. resolving = Resting => resolving.how = "none"
      BY DEF Resting
    <3>. QED
      BY <1>2, <3>1 DEF UserStep, Move, Undo, DiscardPendingChange, OverrideRead, RebaseMoves, KeepRead,
         KeepDiscard, KeepReplace, ResolutionFails, Unguarded, JobsApart, screen
  <2>. QED
    BY <2>1, <2>2, <1>1
<1>3. CASE CommitStart
  BY <1>3 DEF CommitStart, Acquire, Unguarded, JobsApart, TypeOK
<1>4. ASSUME NEW k \in Keys, Plan(k) \/ PlanFails(k) PROVE JobsApart'
  <2>1. /\ \A r \in clearing' : r.key = k
        /\ toPlan' = toPlan \ {k} /\ k \in toPlan /\ job = "commit"
        /\ UNCHANGED <<job, page, resolving>>
    BY <1>4 DEF Plan, PlanFails, screen
  <2>. QED
    BY <2>1 DEF JobsApart
<1>5. ASSUME job = "commit", UNCHANGED <<job, page, resolving>>,
             toPlan' \subseteq toPlan, ready' \subseteq ready,
             clearing' \subseteq clearing \/ (Pushing /\ ready # {})
      PROVE  JobsApart'
  BY <1>5 DEF JobsApart, Pushing
<1>6. ASSUME NEW r \in clearing, ClearMove(r) \/ ClearFails(r) PROVE JobsApart'
  <2>1. job = "commit"
    BY DEF TypeOK
  <2>2. /\ UNCHANGED <<job, page, resolving, toPlan, ready>>
        /\ clearing' = clearing \ {r}
    BY <1>6 DEF ClearMove, ClearFails, screen
  <2>3. clearing' \subseteq clearing
    BY <2>2
  <2>. QED
    BY <2>1, <2>2, <2>3 DEF JobsApart
<1>7. ASSUME NEW target \in Sprints, PushSprints(target) \/ PushSprintsFails(target)
      PROVE  JobsApart'
  <2>1. Batch(target) \subseteq ready /\ Batch(target) # {} /\ Pushing
    BY <1>7, BatchFacts DEF PushSprints, PushSprintsFails
  <2>. QED
    BY <1>7, <2>1, <1>5 DEF PushSprints, PushSprintsFails, Pushing, screen
<1>8. ASSUME NEW r \in ready, PushTransition(r) \/ PushTransitionFails(r) PROVE JobsApart'
  <2>1. Pushing
    BY <1>8 DEF PushTransition, PushTransitionFails, NextTransition
  <2>. QED
    BY <1>8, <2>1, <1>5 DEF PushTransition, PushTransitionFails, Pushing, screen
<1>9. ASSUME NEW k \in pushed, Reread(k) PROVE JobsApart'
  BY <1>9 DEF Reread, Pushing, screen, JobsApart
<1>10. CASE Replace \/ RefreshFails
  BY <1>10 DEF Replace, RefreshFails, pass, screen, JobsApart
<1>11. CASE CommitEnds
  BY <1>11 DEF CommitEnds, Pushing, JobsApart
<1>12. ASSUME NEW full \in BOOLEAN, SyncStart(full) PROVE JobsApart'
  BY <1>12 DEF SyncStart, Acquire, Unguarded, pass, screen, JobsApart
<1>13. CASE SyncStep
  <2>1. /\ job = "sync" /\ UNCHANGED <<pass, resolving>>
        /\ job' = job \/ (job' = "none" /\ DOMAIN page' = {})
    BY <1>13 DEF SyncStep, SearchPage, UpsertPage, SyncEnds, screen
  <2>. QED
    BY <2>1 DEF pass, JobsApart
<1>14. ASSUME NEW k \in Keys, NEW t \in MoveTypes, NEW place \in Places(t), RemoteMove(k, t, place)
       PROVE  JobsApart'
  BY <1>14, <1>1 DEF RemoteMove, engine, screen
<1>15. CASE Crash
  BY <1>15 DEF Crash, JobsApart
<1>16. CASE UNCHANGED vars
  BY <1>16, <1>1 DEF vars, pass
<1>. QED
  BY <1>2, <1>3, <1>4, <1>6, <1>7, <1>8, <1>9, <1>10, <1>11, <1>12, <1>13, <1>14, <1>15, <1>16
     DEF Next, CommitStep


\* TAM's idea of where Jira has a card is right: in the cache, the journal, the
\* rows a Commit still has to plan or to clear, and whatever a job or a
\* resolution read.
SeenAt(k, t) ==
    /\ \A r \in RowsAt(journal, t, k, t) : r.before = jira[k][t]
    /\ RowsAt(journal, t, k, t) = {} /\ issue[k] # None => issue[k][t] = jira[k][t]
    /\ k \in toPlan => \A r \in RowsAt(rows, t, k, t) : r.before = jira[k][t]
    /\ \A r \in RowsAt(clearing, t, k, t) : r.after = jira[k][t]
    /\ k \in DOMAIN page => page[k][t] = jira[k][t]
    /\ resolving.key = k => resolving.read[t] = jira[k][t]

\* It is right of every move nobody else made and TAM has not landed.
SeenAsItIs ==
    \A k \in Keys, t \in MoveTypes : <<k, t>> \notin others \cup ours => SeenAt(k, t)

\* A row put back shows the place Jira has: the card was shown where it was
\* dropped, so putting it back is what the discard does.
LEMMA DiscardSeen ==
    ASSUME TypeOK, MoveIsShown, NEW S \in SUBSET journal, Discarded(S), jira' = jira,
           NEW k \in Keys, NEW t \in MoveTypes, SeenAt(k, t)
    PROVE  /\ \A r \in RowsAt(journal', t, k, t) : r.before = jira'[k][t]
           /\ RowsAt(journal', t, k, t) = {} /\ issue'[k] # None => issue'[k][t] = jira'[k][t]
<1>. DEFINE reverted == {r \in S : holdsMove(r)}
<1>1. journal' = journal \ S
  BY DiscardedType
<1>2. \A r \in RowsAt(journal', t, k, t) : r.before = jira'[k][t]
  BY <1>1 DEF RowsAt, SeenAt
<1>3. ASSUME RowsAt(journal', t, k, t) = {}, issue'[k] # None
      PROVE  issue'[k][t] = jira'[k][t]
  <2>1. issue' = [j \in Keys |->
              IF issue[j] = None THEN None
              ELSE [u \in MoveTypes |-> BeforeVal(reverted, u, j, u, issue[j][u])]]
    BY DEF Discarded
  <2>2. issue[k] # None /\ issue'[k][t] = BeforeVal(reverted, t, k, t, issue[k][t])
    <3>. HIDE DEF reverted
    <3>. QED BY <1>3, <2>1
  <2>3. CASE RowsAt(journal, t, k, t) = {}
    <3>1. RowsAt(reverted, t, k, t) = {}
      BY <2>3 DEF RowsAt
    <3>2. issue'[k][t] = issue[k][t]
      BY <2>2, <3>1 DEF BeforeVal
    <3>. QED
      BY <2>2, <2>3, <3>2 DEF SeenAt
  <2>4. ASSUME NEW r \in RowsAt(journal, t, k, t) PROVE issue'[k][t] = jira'[k][t]
    <3>1. r \in S /\ r.key = k /\ r.type = t /\ r.field = t
      BY <1>1, <1>3 DEF RowsAt
    <3>2. r \in reverted
      BY <2>2, <3>1 DEF MoveIsShown, holdsMove
    <3>3. RowsAt(reverted, t, k, t) # {}
      BY <3>1, <3>2 DEF RowsAt
    <3>4. RowAt(reverted, t, k, t) \in reverted /\ RowAt(reverted, t, k, t).type = t
          /\ RowAt(reverted, t, k, t).key = k /\ RowAt(reverted, t, k, t).field = t
      BY <3>3, RowAtIsThere
    <3>5. RowAt(reverted, t, k, t) \in RowsAt(journal, t, k, t)
      BY <3>4 DEF RowsAt
    <3>6. RowAt(reverted, t, k, t).before = jira[k][t]
      BY <3>5 DEF SeenAt
    <3>. QED
      BY <2>2, <3>3, <3>6 DEF BeforeVal
  <2>. QED
    BY <2>3, <2>4
<1>. QED
  BY <1>2, <1>3

\* What a fresh row that is right makes of the cache is right where nothing is
\* pending.
LEMMA ReapplySeen ==
    ASSUME NEW k, NEW row, NEW t \in MoveTypes, RowsAt(journal, t, k, t) = {}
    PROVE  reapplyPending(k, row)[t] = row[t]
BY DEF reapplyPending, AfterVal


LEMMA StepSeenAsItIs ==
    ASSUME "late" \notin Env, TypeOK, RowsAreOld, MoveIsShown, JobsApart, SeenAsItIs, [Next]_vars
    PROVE  SeenAsItIs'
<1>1. ASSUME NEW k \in Keys, NEW t \in MoveTypes, SeenAt(k, t),
             UNCHANGED <<jira, issue, journal, rows, page>>, toPlan' \subseteq toPlan,
             clearing' \subseteq clearing,
             resolving' = resolving \/ resolving' = Resting
      PROVE  SeenAt(k, t)'
  <2>1. Resting.key \notin Keys
    BY BoardMovesAssumption DEF Resting
  <2>. QED
    BY <1>1, <2>1 DEF SeenAt, RowsAt
<1>2. ASSUME UNCHANGED <<jira, issue, journal, rows, page>>, toPlan' \subseteq toPlan,
             clearing' \subseteq clearing,
             resolving' = resolving \/ resolving' = Resting, UNCHANGED drift
      PROVE  SeenAsItIs'
  BY <1>1, <1>2 DEF SeenAsItIs, drift
<1>3. ASSUME NEW k \in Keys, NEW t \in MoveTypes, NEW place \in Places(t), Move(k, t, place)
      PROVE  SeenAsItIs'
  <2>1. /\ journal' = Put(journal, nextId, t, k, t, issue[k][t], place, 0)
        /\ issue[k] # None /\ issue[k] \in IssueRow /\ issue \in [Keys -> IssueRow \cup {None}]
        /\ issue' = [issue EXCEPT ![k] = [issue[k] EXCEPT ![t] = place]]
        /\ UNCHANGED <<jira, rows, toPlan, clearing, page, resolving, others, ours>>
    BY <1>3 DEF Move, engine, pass, screen, drift, TypeOK
  <2>2. \A r \in RowsAt(journal, t, k, t) : r.before # place
    BY <1>3 DEF Move
  <2>3. journal' = Upsert(journal, nextId, t, k, t, issue[k][t], place, 0)
    BY <2>1, <2>2, PutIsUpsert
  <2>4. journal \in SUBSET PendingChange(MoveTypes, Keys, MoveTypes, Statuses \cup Sprints)
    BY DEF TypeOK, Rows
  <2>5. ASSUME NEW j \in Keys, NEW u \in MoveTypes, SeenAt(j, u) PROVE SeenAt(j, u)'
    <3>1. CASE j = k /\ u = t
      <4>1. ASSUME NEW r \in RowsAt(journal', t, k, t) PROVE r.before = jira[k][t]
        <5>1. r \in journal' /\ r.type = t /\ r.key = k /\ r.field = t
          BY DEF RowsAt
        <5>2. \/ RowsAt(journal, t, k, t) = {} /\ r.before = issue[k][t]
              \/ \E q \in RowsAt(journal, t, k, t) : r.before = q.before
          BY <2>3, <2>4, <5>1, UpsertRows
        <5>. QED
          BY <2>1, <2>5, <3>1, <5>2 DEF SeenAt
      <4>2. RowsAt(journal', t, k, t) # {}
        BY <2>1, <2>4, PutIsThere
      <4>. QED
        BY <2>1, <2>5, <3>1, <4>1, <4>2 DEF SeenAt
    <3>2. CASE ~(j = k /\ u = t)
      <4>1. RowsAt(journal', u, j, u) = RowsAt(journal, u, j, u)
        <5>1. \A r \in RowsAt(journal, u, j, u) : r \in journal'
          BY <2>1, <3>2, PutKeepsOthers DEF RowsAt
        <5>2. ASSUME NEW r \in RowsAt(journal', u, j, u) PROVE r \in journal
          BY <2>3, <2>4, <3>2, UpsertRows DEF RowsAt
        <5>. QED
          BY <5>1, <5>2 DEF RowsAt
      <4>2. issue'[j] # None => issue[j] # None /\ issue'[j][u] = issue[j][u]
        <5>1. CASE j = k
          BY <2>1, <3>2, <5>1, MovedRow
        <5>2. CASE j # k
          BY <2>1, <5>2
        <5>. QED
          BY <5>1, <5>2
      <4>. QED
        BY <2>1, <2>5, <4>1, <4>2 DEF SeenAt
    <3>. QED
      BY <3>1, <3>2
  <2>. QED
    BY <2>1, <2>5 DEF SeenAsItIs
<1>4. ASSUME NEW r \in journal, Undo(r) PROVE SeenAsItIs'
  <2>1. /\ r.key \in Keys /\ r.type \in MoveTypes /\ r.field = r.type /\ r.before \in Places(r.type)
        /\ issue[r.key] # None /\ issue[r.key] \in IssueRow /\ issue \in [Keys -> IssueRow \cup {None}]
        /\ issue' = [issue EXCEPT ![r.key] = [issue[r.key] EXCEPT ![r.type] = r.before]]
        /\ journal' = journal \ {r}
        /\ UNCHANGED <<jira, rows, toPlan, clearing, page, resolving, others, ours>>
    BY <1>4, RowFacts DEF Undo, TypeOK, MoveIsShown, engine, pass, screen, drift
  <2>2. ASSUME NEW j \in Keys, NEW u \in MoveTypes, SeenAt(j, u) PROVE SeenAt(j, u)'
    <3>1. RowsAt(journal', u, j, u) \subseteq RowsAt(journal, u, j, u)
      BY <2>1 DEF RowsAt
    <3>2. CASE j = r.key /\ u = r.type
      <4>1. r \in RowsAt(journal, u, j, u)
        BY <2>1, <3>2 DEF RowsAt
      <4>2. issue'[j][u] = jira[j][u]
        BY <2>1, <2>2, <3>2, <4>1, MovedRow DEF SeenAt
      <4>. QED
        BY <2>1, <2>2, <3>1, <4>2 DEF SeenAt
    <3>3. CASE ~(j = r.key /\ u = r.type)
      <4>1. RowsAt(journal', u, j, u) = RowsAt(journal, u, j, u)
        BY <2>1, <3>3 DEF RowsAt
      <4>2. issue'[j] # None => issue[j] # None /\ issue'[j][u] = issue[j][u]
        <5>1. CASE j = r.key
          BY <2>1, <3>3, <5>1, MovedRow
        <5>2. CASE j # r.key
          BY <2>1, <5>2
        <5>. QED
          BY <5>1, <5>2
      <4>. QED
        BY <2>1, <2>2, <4>1, <4>2 DEF SeenAt
    <3>. QED
      BY <3>2, <3>3
  <2>. QED
    BY <2>1, <2>2 DEF SeenAsItIs
<1>5. ASSUME NEW S \in SUBSET journal, Discarded(S), UNCHANGED <<jira, pass, page, drift>>,
             resolving'.key = resolving.key, resolving'.read = resolving.read
      PROVE  SeenAsItIs'
  <2>1. ASSUME NEW k \in Keys, NEW t \in MoveTypes, SeenAt(k, t) PROVE SeenAt(k, t)'
    <3>1. /\ \A r \in RowsAt(journal', t, k, t) : r.before = jira'[k][t]
          /\ RowsAt(journal', t, k, t) = {} /\ issue'[k] # None => issue'[k][t] = jira'[k][t]
      BY <1>5, <2>1, DiscardSeen
    <3>. QED
      BY <1>5, <2>1, <3>1 DEF SeenAt, pass
  <2>. QED
    BY <1>5, <2>1 DEF SeenAsItIs, drift
<1>6. CASE RebaseMoves
  <2>1. resolving.key \in Keys /\ resolving'.key \notin Keys
    BY <1>6, BoardMovesAssumption DEF RebaseMoves, TypeOK, Resting
  <2>2. ASSUME NEW k \in Keys, NEW t \in MoveTypes, SeenAt(k, t) PROVE SeenAt(k, t)'
    <3>1. ASSUME NEW s \in RowsAt(journal', t, k, t) PROVE s.before = jira[k][t]
      <4>1. PICK r \in journal : \/ s = r
                                 \/ /\ r.key = resolving.key
                                    /\ s = [r EXCEPT !.before = resolving.read[r.type]]
        BY <1>6 DEF RebaseMoves, RowsAt
      <4>2. r \in PendingChange(MoveTypes, Keys, MoveTypes, Statuses \cup Sprints)
        BY DEF TypeOK, Rows
      <4>3. /\ s.key = r.key /\ s.type = r.type /\ s.field = r.field
            /\ \/ s.before = r.before
               \/ r.key = resolving.key /\ s.before = resolving.read[r.type]
        BY <4>1, <4>2 DEF PendingChange
      <4>4. s.key = k /\ s.type = t /\ s.field = t
        BY DEF RowsAt
      <4>5. r \in RowsAt(journal, t, k, t)
        BY <4>3, <4>4 DEF RowsAt
      <4>. QED
        BY <2>2, <4>3, <4>4, <4>5 DEF SeenAt
    <3>2. RowsAt(journal', t, k, t) = {} => RowsAt(journal, t, k, t) = {}
      BY <1>6, RebaseKeepsRows DEF RowsAt
    <3>. QED
      BY <1>6, <2>1, <2>2, <3>1, <3>2 DEF RebaseMoves, SeenAt, engine, pass
  <2>. QED
    BY <1>6, <2>2 DEF SeenAsItIs, RebaseMoves, drift
<1>7. CASE KeepReplace
  <2>1. /\ resolving.key \in Keys /\ resolving'.key \notin Keys
        /\ issue' = [issue EXCEPT ![resolving.key] = reapplyPending(resolving.key, resolving.read)]
        /\ issue \in [Keys -> IssueRow \cup {None}]
        /\ UNCHANGED <<jira, journal, rows, toPlan, clearing, page, others, ours>>
    BY <1>7, BoardMovesAssumption DEF KeepReplace, TypeOK, Resting, engine, pass, drift
  <2>2. ASSUME NEW k \in Keys, NEW t \in MoveTypes, SeenAt(k, t) PROVE SeenAt(k, t)'
    <3>1. ASSUME RowsAt(journal, t, k, t) = {}, issue'[k] # None PROVE issue'[k][t] = jira[k][t]
      <4>1. CASE k = resolving.key
        <5>1. issue'[k][t] = resolving.read[t]
          BY <2>1, <3>1, <4>1, ReapplySeen
        <5>. QED
          BY <2>2, <4>1, <5>1 DEF SeenAt
      <4>2. CASE k # resolving.key
        BY <2>1, <2>2, <3>1, <4>2 DEF SeenAt
      <4>. QED
        BY <4>1, <4>2
    <3>. QED
      BY <2>1, <2>2, <3>1 DEF SeenAt
  <2>. QED
    BY <2>1, <2>2 DEF SeenAsItIs
<1>8. ASSUME NEW k \in cards, OverrideRead(k) \/ KeepRead(k) PROVE SeenAsItIs'
  <2>1. /\ UNCHANGED <<jira, issue, journal, rows, toPlan, clearing, page, others, ours>>
        /\ resolving' = resolving \/ (resolving'.key = k /\ resolving'.read = jira[k])
    BY <1>8 DEF OverrideRead, KeepRead, store, engine, pass, drift
  <2>2. ASSUME NEW j \in Keys, NEW t \in MoveTypes, SeenAt(j, t) PROVE SeenAt(j, t)'
    BY <2>1, <2>2 DEF SeenAt
  <2>. QED
    BY <2>1, <2>2 DEF SeenAsItIs
<1>9. CASE UserStep
  <2>1. ASSUME NEW r \in journal, DiscardPendingChange(r) PROVE SeenAsItIs'
    BY <2>1, <1>5 DEF DiscardPendingChange, engine, screen
  <2>2. CASE KeepDiscard
    <3>1. ListForKey(journal, resolving.key) \in SUBSET journal
      BY DEF ListForKey
    <3>2. resolving'.key = resolving.key /\ resolving'.read = resolving.read
      BY <2>2 DEF KeepDiscard, TypeOK, Resting
    <3>. QED
      BY <2>2, <3>1, <3>2, <1>5 DEF KeepDiscard, engine
  <2>3. CASE ResolutionFails
    BY <2>3, <1>2 DEF ResolutionFails, store, engine, pass
  <2>. QED
    BY <1>3, <1>4, <1>6, <1>7, <1>8, <1>9, <2>1, <2>2, <2>3 DEF UserStep
<1>10. CASE CommitStart
  <2>1. /\ rows' = journal
        /\ UNCHANGED <<jira, issue, journal, clearing, page, resolving, others, ours>>
    BY <1>10 DEF CommitStart, store, drift
  <2>2. ASSUME NEW k \in Keys, NEW t \in MoveTypes, SeenAt(k, t) PROVE SeenAt(k, t)'
    BY <2>1, <2>2 DEF SeenAt
  <2>. QED
    BY <2>1, <2>2 DEF SeenAsItIs
<1>11. ASSUME NEW k \in Keys, Plan(k) PROVE SeenAsItIs'
  <2>1. /\ toPlan' \subseteq toPlan
        /\ \A r \in clearing' : r.key = k /\ r.after = jira[k][r.type]
        /\ UNCHANGED <<jira, issue, journal, rows, page, resolving, others, ours>>
    BY <1>11 DEF Plan, classifyMove, store, screen, drift
  <2>2. ASSUME NEW j \in Keys, NEW t \in MoveTypes, SeenAt(j, t) PROVE SeenAt(j, t)'
    <3>1. \A r \in RowsAt(clearing', t, j, t) : r.after = jira[j][t]
      BY <2>1 DEF RowsAt
    <3>. QED
      BY <2>1, <2>2, <3>1 DEF SeenAt
  <2>. QED
    BY <2>1, <2>2 DEF SeenAsItIs
<1>12. ASSUME NEW r \in clearing, ClearMove(r) PROVE SeenAsItIs'
  <2>1. /\ journal' \subseteq journal /\ clearing' = clearing \ {r}
        /\ \A s \in journal \ journal' : s.id = r.id /\ s.after = r.after
        /\ \/ ours' = ours
           \/ /\ journal' # journal /\ jira[r.key][r.type] = r.after
              /\ ours' = ours \ {<<r.key, r.type>>}
        /\ UNCHANGED <<jira, issue, rows, toPlan, page, resolving, others>>
    BY <1>12 DEF ClearMove, clearMoveRow, screen
  <2>2. /\ r \in rows /\ r.key \in Keys /\ r.type \in MoveTypes /\ r.field = r.type
        /\ r.key \notin toPlan /\ DOMAIN page = {} /\ resolving.key \notin Keys
    <3>1. r \in rows /\ r \in Rows /\ job = "commit"
      BY DEF TypeOK
    <3>2. resolving = Resting
      BY <3>1 DEF JobsApart
    <3>3. DOMAIN page = {}
      BY <3>1 DEF JobsApart
    <3>. QED
      BY <3>1, <3>2, <3>3, RowFacts, BoardMovesAssumption DEF JobsApart, Resting
  <2>3. ASSUME NEW s \in journal \ journal'
        PROVE  /\ s.key = r.key /\ s.type = r.type /\ s.field = r.type
               /\ issue[r.key] # None => issue[r.key][r.type] = r.after
    <3>1. s \in journal /\ s.id = r.id /\ s.after = r.after
      BY <2>1, <2>3
    <3>2. s.key = r.key /\ s.type = r.type /\ s.field = s.type
      BY <2>2, <3>1, RowFacts DEF RowsAreOld, TypeOK
    <3>. QED
      BY <3>1, <3>2 DEF MoveIsShown, holdsMove
  <2>4. ASSUME NEW k \in Keys, NEW t \in MoveTypes, SeenAt(k, t), <<k, t>> # <<r.key, r.type>>
        PROVE  SeenAt(k, t)'
    <3>1. RowsAt(journal', t, k, t) = RowsAt(journal, t, k, t)
      BY <2>1, <2>3, <2>4 DEF RowsAt
    <3>2. RowsAt(clearing', t, k, t) \subseteq RowsAt(clearing, t, k, t)
      BY <2>1 DEF RowsAt
    <3>. QED
      BY <2>1, <2>4, <3>1, <3>2 DEF SeenAt
  <2>5. ASSUME NEW s \in journal \ journal', jira[r.key][r.type] = r.after
        PROVE  SeenAt(r.key, r.type)'
    <3>1. RowsAt(journal', r.type, r.key, r.type) = {}
      <4>1. ASSUME NEW q \in RowsAt(journal', r.type, r.key, r.type) PROVE FALSE
        <5>1. q \in journal /\ q \in journal' /\ q.type = s.type /\ q.key = s.key
          BY <2>1, <2>3 DEF RowsAt
        <5>2. q = s
          BY <5>1, OneRowAPlace DEF TypeOK
        <5>. QED
          BY <5>1, <5>2
      <4>. QED
        BY <4>1
    <3>2. RowsAt(clearing', r.type, r.key, r.type) = {}
      <4>1. ASSUME NEW q \in RowsAt(clearing', r.type, r.key, r.type) PROVE FALSE
        <5>1. q \in rows /\ q # r /\ q.type = r.type /\ q.key = r.key
          BY <2>1 DEF RowsAt, TypeOK
        <5>2. q = r
          BY <2>2, <5>1, OneRowAPlace DEF RowsAreOld, TypeOK
        <5>. QED
          BY <5>1, <5>2
      <4>. QED
        BY <4>1
    <3>. QED
      BY <2>1, <2>2, <2>3, <2>5, <3>1, <3>2 DEF SeenAt
  <2>6. ASSUME <<r.key, r.type>> \notin others' \cup ours' PROVE SeenAt(r.key, r.type)'
    <3>1. CASE journal' = journal
      <4>1. ours' = ours
        BY <2>1, <3>1
      <4>2. SeenAt(r.key, r.type)
        BY <2>1, <2>2, <2>6, <4>1 DEF SeenAsItIs
      <4>3. RowsAt(clearing', r.type, r.key, r.type) \subseteq RowsAt(clearing, r.type, r.key, r.type)
        BY <2>1 DEF RowsAt
      <4>. QED
        BY <2>1, <3>1, <4>2, <4>3 DEF SeenAt
    <3>2. CASE journal' # journal
      <4>1. PICK s \in journal : s \notin journal'
        BY <2>1, <3>2
      <4>2. CASE jira[r.key][r.type] = r.after
        BY <2>5, <4>1, <4>2
      <4>3. CASE jira[r.key][r.type] # r.after
        <5>1. SeenAt(r.key, r.type)
          BY <2>1, <2>2, <2>6, <4>3 DEF SeenAsItIs
        <5>2. r \in RowsAt(clearing, r.type, r.key, r.type)
          BY <2>2 DEF RowsAt
        <5>. QED
          BY <4>3, <5>1, <5>2 DEF SeenAt
      <4>. QED
        BY <4>2, <4>3
    <3>. QED
      BY <3>1, <3>2
  <2>. QED
    BY <2>1, <2>2, <2>4, <2>6 DEF SeenAsItIs
<1>13. ASSUME NEW S \in SUBSET ready, NEW T \in SUBSET S, NEW place, Land(T, place),
              Pushing, ready # {}, clearing' \in {S, clearing},
              T = S \/ clearing' = clearing,
              UNCHANGED <<issue, journal, rows, toPlan, page, resolving, others>>
       PROVE  SeenAsItIs'
  <2>1. clearing = {}
    BY <1>13 DEF Pushing
  <2>2. clearing' \subseteq T /\ T \subseteq Rows
    BY <1>13, <2>1 DEF TypeOK
  <2>3. ASSUME NEW k \in Keys, NEW t \in MoveTypes, <<k, t>> \notin others' \cup ours'
        PROVE  SeenAt(k, t)'
    <3>1. ours' = ours \cup {<<r.key, r.type>> : r \in T}
      BY <1>13 DEF Land
    <3>2. SeenAt(k, t)
      BY <1>13, <2>3, <3>1 DEF SeenAsItIs
    <3>3. RowsAt(T, t, k, t) = {}
      BY <2>3, <3>1 DEF RowsAt
    <3>4. RowsAt(clearing', t, k, t) = {}
      BY <2>2, <3>3 DEF RowsAt
    <3>5. jira'[k][t] = jira[k][t]
      BY <1>13, <3>3 DEF Land
    <3>. QED
      BY <1>13, <3>2, <3>4, <3>5 DEF SeenAt
  <2>. QED
    BY <2>3 DEF SeenAsItIs
<1>14. ASSUME NEW target \in Sprints, PushSprints(target) \/ PushSprintsFails(target)
       PROVE  SeenAsItIs'
  <2>1. Batch(target) \in SUBSET ready /\ Batch(target) # {} /\ Pushing
    BY <1>14, BatchFacts DEF PushSprints, PushSprintsFails
  <2>2. \E T \in SUBSET Batch(target) :
            Land(T, target) /\ clearing' \in {Batch(target), clearing}
              /\ (T = Batch(target) \/ clearing' = clearing)
    BY <1>14 DEF PushSprints, PushSprintsFails
  <2>3. ready # {} /\ UNCHANGED <<issue, journal, rows, toPlan, page, resolving, others>>
    BY <1>14, <2>1 DEF PushSprints, PushSprintsFails, store, screen
  <2>. QED
    BY <1>13, <2>1, <2>2, <2>3
<1>15. ASSUME NEW r \in ready, PushTransition(r) \/ PushTransitionFails(r)
       PROVE  SeenAsItIs'
  <2>1. /\ Pushing /\ ready # {}
        /\ UNCHANGED <<issue, journal, rows, toPlan, page, resolving, others>>
    BY <1>15 DEF PushTransition, PushTransitionFails, NextTransition, store, screen
  <2>2. \/ (\E status : Land({r}, status)) /\ clearing' \in {{r}, clearing}
        \/ jira' = jira /\ ours' = ours /\ clearing' = clearing
    BY <1>15 DEF PushTransition, PushTransitionFails
  <2>3. CASE jira' = jira /\ ours' = ours /\ clearing' = clearing
    BY <2>1, <2>3, <1>2 DEF drift
  <2>4. ASSUME NEW status, Land({r}, status), clearing' \in {{r}, clearing} PROVE SeenAsItIs'
    BY <2>1, <2>4, <1>13
  <2>. QED
    BY <2>2, <2>3, <2>4
<1>16. ASSUME UNCHANGED <<jira, issue, journal, rows, toPlan, clearing, resolving, drift>>,
              \A k \in Keys, t \in MoveTypes :
                  k \in DOMAIN page' => (k \in DOMAIN page /\ page' = page) \/ page'[k] = jira[k]
       PROVE  SeenAsItIs'
  BY <1>16 DEF SeenAsItIs, SeenAt, drift
<1>17. ASSUME NEW cleared \in BOOLEAN, issue' = Landed(cleared), DOMAIN page' = {},
              UNCHANGED <<jira, journal, rows, toPlan, clearing, resolving, drift>>
       PROVE  SeenAsItIs'
  <2>1. ASSUME NEW k \in Keys, NEW t \in MoveTypes, SeenAt(k, t) PROVE SeenAt(k, t)'
    <3>1. ASSUME RowsAt(journal, t, k, t) = {}, issue'[k] # None PROVE issue'[k][t] = jira[k][t]
      <4>1. CASE k \in DOMAIN page
        <5>1. issue'[k][t] = page[k][t]
          BY <1>17, <3>1, <4>1, ReapplySeen DEF Landed
        <5>. QED
          BY <2>1, <4>1, <5>1 DEF SeenAt
      <4>2. CASE k \notin DOMAIN page
        BY <1>17, <2>1, <3>1, <4>2 DEF Landed, SeenAt
      <4>. QED
        BY <4>1, <4>2
    <3>. QED
      BY <1>17, <2>1, <3>1 DEF SeenAt
  <2>. QED
    BY <1>17, <2>1 DEF SeenAsItIs, drift
<1>18. CASE CommitStep
  <2>1. ASSUME NEW k \in pushed, Reread(k) PROVE SeenAsItIs'
    <3>1. \A j \in DOMAIN page' : page'[j] = jira[j]
      BY <2>1 DEF Reread
    <3>. QED
      BY <2>1, <3>1, <1>16 DEF Reread, store, screen
  <2>2. CASE Replace
    <3>1. DOMAIN page' = {}
      BY <2>2 DEF Replace
    <3>. QED
      BY <2>2, <3>1, <1>17 DEF Replace, pass, screen
  <2>3. CASE RefreshFails
    <3>1. DOMAIN page' = {}
      BY <2>3 DEF RefreshFails
    <3>. QED
      BY <2>3, <3>1, <1>16 DEF RefreshFails, store, pass, screen
  <2>4. CASE CommitEnds
    <3>1. ASSUME NEW k \in Keys, NEW t \in MoveTypes, SeenAt(k, t) PROVE SeenAt(k, t)'
      BY <2>4, <3>1 DEF CommitEnds, Pushing, SeenAt, store
    <3>. QED
      BY <2>4, <3>1 DEF CommitEnds, SeenAsItIs, drift
  <2>5. ASSUME NEW r \in clearing, ClearFails(r) PROVE SeenAsItIs'
    BY <2>5, <1>2 DEF ClearFails, store, screen
  <2>6. ASSUME NEW k \in Keys, PlanFails(k) PROVE SeenAsItIs'
    BY <2>6, <1>2 DEF PlanFails, store, screen
  <2>. QED
    BY <1>11, <1>12, <1>14, <1>15, <1>18, <2>1, <2>2, <2>3, <2>4, <2>5, <2>6 DEF CommitStep
<1>19. CASE SyncStep
  <2>1. ASSUME NEW K \in SUBSET Keys, SearchPage(K) PROVE SeenAsItIs'
    <3>1. \A j \in DOMAIN page' : page'[j] = jira[j]
      BY <2>1 DEF SearchPage
    <3>. QED
      BY <2>1, <3>1, <1>16 DEF SearchPage, store, pass, screen
  <2>2. CASE UpsertPage
    <3>1. DOMAIN page' = {} /\ clear \in BOOLEAN
      BY <2>2 DEF UpsertPage, TypeOK
    <3>. QED
      BY <2>2, <3>1, <1>17 DEF UpsertPage, pass, screen
  <2>3. CASE SyncEnds
    BY <2>3, <1>2 DEF SyncEnds, store, pass, screen
  <2>. QED
    BY <1>19, <2>1, <2>2, <2>3 DEF SyncStep
<1>20. ASSUME NEW full \in BOOLEAN, SyncStart(full) PROVE SeenAsItIs'
  BY <1>20, <1>2 DEF SyncStart, store, pass, screen
<1>21. ASSUME NEW k \in Keys, NEW t \in MoveTypes, NEW place \in Places(t), RemoteMove(k, t, place)
       PROVE  SeenAsItIs'
  <2>1. /\ jira' = [jira EXCEPT ![k] = [jira[k] EXCEPT ![t] = place]]
        /\ jira \in [Keys -> IssueRow]
        /\ others' = others \cup {<<k, t>>} /\ ours' = ours
        /\ UNCHANGED <<issue, journal, rows, toPlan, clearing, page, resolving>>
    BY <1>21 DEF RemoteMove, store, engine, pass, screen, TypeOK
  <2>2. ASSUME NEW j \in Keys, NEW u \in MoveTypes, <<j, u>> # <<k, t>>, SeenAt(j, u)
        PROVE  SeenAt(j, u)'
    <3>1. jira'[j][u] = jira[j][u]
      <4>1. CASE j = k
        BY <2>1, <2>2, <4>1, MovedRow
      <4>2. CASE j # k
        BY <2>1, <4>2
      <4>. QED
        BY <4>1, <4>2
    <3>. QED
      BY <2>1, <2>2, <3>1 DEF SeenAt
  <2>. QED
    BY <2>1, <2>2 DEF SeenAsItIs
<1>22. CASE Crash
  <2>1. /\ toPlan' = {} /\ clearing' = {} /\ DOMAIN page' = {} /\ resolving'.key \notin Keys
        /\ UNCHANGED <<jira, issue, journal, others, ours>>
    BY <1>22, BoardMovesAssumption DEF Crash, Resting, store, drift
  <2>2. ASSUME NEW k \in Keys, NEW t \in MoveTypes, SeenAt(k, t) PROVE SeenAt(k, t)'
    <3>1. RowsAt(clearing', t, k, t) = {}
      BY <2>1 DEF RowsAt
    <3>. QED
      BY <2>1, <2>2, <3>1 DEF SeenAt
  <2>. QED
    BY <2>1, <2>2 DEF SeenAsItIs
<1>23. CASE UNCHANGED vars
  BY <1>23, <1>2 DEF vars, drift
<1>. QED
  BY <1>9, <1>10, <1>18, <1>19, <1>20, <1>21, <1>22, <1>23 DEF Next

\* Unless a conflict is resolved while a job runs, Commit holds a card back only
\* when somebody else moved it, or when Jira took a move of TAM's that TAM could
\* not close (HeldForAReason).
THEOREM HeldBackForAReason == ASSUME "late" \notin Env PROVE Spec => HeldForAReason
<1>. DEFINE IInv == TypeOK /\ RowsAreOld /\ MoveIsShown /\ JobsApart /\ SeenAsItIs
<1>1. Init => IInv
  <2>. SUFFICES ASSUME Init PROVE IInv
    OBVIOUS
  <2>1. /\ journal = {} /\ rows = {} /\ toPlan = {} /\ clearing = {} /\ DOMAIN page = {}
        /\ issue = jira /\ job = "none" /\ resolving.key \notin Keys
    BY BoardMovesAssumption DEF Init, Resting
  <2>2. SeenAsItIs
    BY <2>1 DEF SeenAsItIs, SeenAt, RowsAt
  <2>3. JobsApart
    BY <2>1 DEF JobsApart
  <2>4. RowsAreOld /\ MoveIsShown
    BY <2>1 DEF RowsAreOld, MoveIsShown, WellKeyed
  <2>. QED
    BY <2>2, <2>3, <2>4, InitTypeOK
<1>2. IInv /\ [Next]_vars => IInv'
  BY StepTypeOK, StepRowsAreOld, StepMoveIsShown, StepJobsApart, StepSeenAsItIs
<1>3. IInv /\ [Next]_vars =>
          [\A k \in held' \ held : \E t \in MoveTypes : <<k, t>> \in others \cup ours]_vars
  <2>. SUFFICES ASSUME IInv, [Next]_vars, NEW k \in held' \ held
                PROVE  \E t \in MoveTypes : <<k, t>> \in others \cup ours
    OBVIOUS
  <2>1. ASSUME NEW j \in Keys, Plan(j) PROVE \E t \in MoveTypes : <<k, t>> \in others \cup ours
    <3>1. /\ k = j /\ j \in toPlan
          /\ {r \in rows : r.key = j /\ classifyMove(r, jira[j][r.type]) = "conflict"} # {}
      BY <2>1 DEF Plan
    <3>2. PICK r \in rows : r.key = j /\ classifyMove(r, jira[j][r.type]) = "conflict"
      BY <3>1
    <3>3. r.before # jira[j][r.type]
      BY <3>2 DEF classifyMove
    <3>4. r.type \in MoveTypes /\ r \in RowsAt(rows, r.type, j, r.type)
      BY <3>2, RowFacts DEF TypeOK, RowsAt
    <3>5. <<j, r.type>> \in others \cup ours
      BY <2>1, <3>1, <3>3, <3>4 DEF SeenAsItIs, SeenAt
    <3>. QED
      BY <3>1, <3>4, <3>5
  <2>2. CASE ~\E j \in Keys : Plan(j)
    <3>1. UserStep => held' = held
      BY DEF UserStep, Move, Undo, DiscardPendingChange, OverrideRead, RebaseMoves, KeepRead,
         KeepDiscard, KeepReplace, ResolutionFails, engine, pass
    <3>2. CommitStart \/ CommitStep => held' \subseteq held
      BY <2>2 DEF CommitStart, CommitStep, PlanFails, ClearMove, ClearFails, PushSprints,
         PushSprintsFails, PushTransition, PushTransitionFails, Reread, Replace, RefreshFails,
         CommitEnds, pass
    <3>3. (\E full \in BOOLEAN : SyncStart(full)) \/ SyncStep \/ Crash \/ UNCHANGED vars
              => held' \subseteq held
      BY DEF SyncStart, SyncStep, SearchPage, UpsertPage, SyncEnds, Crash, vars, pass
    <3>4. (\E j \in Keys, t \in MoveTypes : \E place \in Places(t) : RemoteMove(j, t, place))
              => held' = held
      BY DEF RemoteMove, engine, pass
    <3>. QED
      BY <3>1, <3>2, <3>3, <3>4 DEF Next
  <2>. QED
    BY <2>1, <2>2
<1>. QED
  BY <1>1, <1>2, <1>3, PTL DEF Spec, HeldForAReason
=============================================================================
