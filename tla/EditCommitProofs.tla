-------------------------- MODULE EditCommitProofs --------------------------
(***************************************************************************)
(* What EditCommit promises for every set of issues, fields and values and *)
(* every mix of disturbances: its types, the two facts about the store     *)
(* that keep a local change visible, that it implements IntentLedger, and  *)
(* that a push replaces nothing the user has not seen.                     *)
(***************************************************************************)
EXTENDS EditCommit, JournalProofs

-----------------------------------------------------------------------------
\* The values the store's helpers return.

LEMMA AfterValType ==
    ASSUME NEW j \in SUBSET Rows, NEW k, NEW f, NEW D, NEW d \in D
    PROVE  AfterVal(j, EntityIssue, k, f, d) \in Values \cup D
BY RowAtIsThere DEF AfterVal, Rows, PendingChange

LEMMA BeforeValType ==
    ASSUME NEW j \in SUBSET Rows, NEW k, NEW f, NEW d \in Values
    PROVE  BeforeVal(j, EntityIssue, k, f, d) \in Values
BY RowAtIsThere DEF BeforeVal, Rows, PendingChange

LEMMA ReapplyType ==
    ASSUME NEW j \in SUBSET Rows, NEW k, NEW row \in IssueRow
    PROVE  reapplyPending(j, k, row) \in IssueRow
<1>1. \A f \in Fields : AfterVal(j, EntityIssue, k, f, row.val[f]) \in Values
  <2>1. \A f \in Fields : row.val[f] \in Values
    BY DEF IssueRow, FieldVals
  <2>. QED
    BY <2>1, AfterValType
<1>. QED
  BY <1>1 DEF reapplyPending, IssueRow, FieldVals

\* A fresh read is a row of the issue table, at a version of its history.
LEMMA FreshType ==
    ASSUME TypeOK, NEW k \in Keys
    PROVE  /\ Fresh(k) \in IssueRow
           /\ Version(k) \in Nat \ {0}
<1>1. jira[k] \in Seq(FieldVals) /\ jira[k] # <<>>
  BY DEF TypeOK
<1>2. Len(jira[k]) \in Nat \ {0}
  BY <1>1
<1>3. jira[k][Len(jira[k])] \in FieldVals
  BY <1>1, <1>2
<1>. QED
  BY <1>2, <1>3 DEF Fresh, Version, IssueRow

\* One more version keeps the history a history.
LEMMA AppendType ==
    ASSUME TypeOK, NEW k \in Keys, NEW v \in FieldVals
    PROVE  [jira EXCEPT ![k] = Append(@, v)] \in [Keys -> Seq(FieldVals) \ {<<>>}]
<1>1. jira[k] \in Seq(FieldVals) /\ jira \in [Keys -> Seq(FieldVals) \ {<<>>}]
  BY DEF TypeOK
<1>2. Append(jira[k], v) \in Seq(FieldVals)
  BY <1>1
<1>3. Len(Append(jira[k], v)) = Len(jira[k]) + 1 /\ Len(jira[k]) \in Nat
  BY <1>1
<1>4. Append(jira[k], v) # <<>>
  BY <1>3
<1>. QED
  BY <1>1, <1>2, <1>4

LEMMA DiscardedType ==
    ASSUME TypeOK, NEW S \in SUBSET journal, Discarded(S)
    PROVE  /\ issue' \in [Keys -> IssueRow \cup {None}]
           /\ journal' \subseteq journal
           /\ want' \in [Keys -> [Fields -> Values \cup {None}]]
<1>1. S \in SUBSET Rows
  BY DEF TypeOK
<1>2. ASSUME NEW k \in Keys, issue[k] # None
      PROVE  [issue[k] EXCEPT !.val =
                [f \in Fields |-> BeforeVal(S, EntityIssue, k, f, issue[k].val[f])]] \in IssueRow
  <2>1. issue[k] \in IssueRow
    BY <1>2 DEF TypeOK
  <2>2. \A f \in Fields : issue[k].val[f] \in Values
    BY <2>1 DEF IssueRow, FieldVals
  <2>3. \A f \in Fields : BeforeVal(S, EntityIssue, k, f, issue[k].val[f]) \in Values
    BY <1>1, <2>2, BeforeValType
  <2>. QED
    BY <2>1, <2>3 DEF IssueRow, FieldVals
<1>3. issue' \in [Keys -> IssueRow \cup {None}]
  BY <1>2 DEF Discarded
<1>4. journal' \subseteq journal
  BY DEF Discarded, Delete
<1>5. want' \in [Keys -> [Fields -> Values \cup {None}]]
  BY DEF Discarded, TypeOK
<1>. QED
  BY <1>3, <1>4, <1>5

LEMMA PushedType ==
    ASSUME TypeOK, NEW k \in Keys
    PROVE  Pushed(k) \in FieldVals
<1>1. \A f \in Fields : Fresh(k).val[f] \in Values
  BY FreshType DEF IssueRow, FieldVals
<1>2. \A f \in Fields : AfterVal(rows, EntityIssue, k, f, Fresh(k).val[f]) \in Values
  BY <1>1, AfterValType DEF TypeOK
<1>. QED
  BY <1>2 DEF Pushed, FieldVals

LEMMA LandType ==
    ASSUME TypeOK, NEW k \in Keys, Land(k)
    PROVE  /\ jira' \in [Keys -> Seq(FieldVals) \ {<<>>}]
           /\ want' \in [Keys -> [Fields -> Values \cup {None}]]
<1>1. jira' \in [Keys -> Seq(FieldVals) \ {<<>>}]
  BY PushedType, AppendType DEF Land
<1>2. want' \in [Keys -> [Fields -> Values \cup {None}]]
  BY DEF Land, TypeOK
<1>. QED
  BY <1>1, <1>2

-----------------------------------------------------------------------------
\* Whatever the disturbances, every variable keeps its type.

LEMMA InitTypeOK == Init => TypeOK
<1>. SUFFICES ASSUME Init PROVE TypeOK
  OBVIOUS
<1>1. jira \in [Keys -> Seq(FieldVals) \ {<<>>}]
  <2>1. {<<v>> : v \in FieldVals} \subseteq Seq(FieldVals) \ {<<>>}
    <3>1. \A v \in FieldVals : <<v>> \in Seq(FieldVals) /\ <<v>> # <<>>
      OBVIOUS
    <3>. QED
      BY <3>1
  <2>2. jira \in [Keys -> {<<v>> : v \in FieldVals}]
    BY DEF Init
  <2>. QED
    <3>. DEFINE first == {<<v>> : v \in FieldVals}
    <3>. HIDE DEF first
    <3>. QED BY <2>1, <2>2 DEF first
<1>2. issue \in [Keys -> IssueRow \cup {None}]
  <2>1. \A k \in Keys : \E v \in FieldVals : jira[k] = <<v>>
    BY DEF Init
  <2>2. \A k \in Keys : Fresh(k) \in IssueRow
    <3>. SUFFICES ASSUME NEW k \in Keys PROVE Fresh(k) \in IssueRow
      OBVIOUS
    <3>1. PICK v \in FieldVals : jira[k] = <<v>>
      BY <2>1
    <3>2. Len(jira[k]) = 1 /\ jira[k][1] = v
      BY <3>1
    <3>. QED
      BY <3>2 DEF Fresh, Version, IssueRow
  <2>. QED
    BY <2>2 DEF Init
<1>3. DOMAIN page = {}
  BY DEF Init
<1>4. /\ keeping = NotKeeping
      /\ want \in [Keys -> [Fields -> Values \cup {None}]]
  BY DEF Init
<1>5. /\ pc = "idle" /\ job = "none" /\ cur = None /\ read = None /\ nextId = 1
      /\ journal = {} /\ rows = {} /\ todo = {} /\ clear = FALSE
      /\ cards = {} /\ held = {}
  BY DEF Init
<1>6. /\ cur \in IF pc \in {"push", "mark", "reread", "replace"} THEN Keys ELSE {None}
      /\ read \in IF pc = "replace" THEN IssueRow ELSE {None}
      /\ nextId \in Nat \ {0}
  BY <1>5
<1>7. /\ journal \subseteq Rows /\ rows \subseteq Rows
      /\ \/ job = "none" /\ pc = "idle"
         \/ job = "commit" /\ pc \in {"next", "push", "mark", "reread", "replace"}
         \/ job = "sync" /\ pc \in {"search", "land"}
      /\ todo \subseteq Keys /\ clear \in BOOLEAN
      /\ cards \subseteq Card /\ held \subseteq Card
      /\ DOMAIN page \subseteq Keys /\ \A k \in DOMAIN page : page[k] \in IssueRow
  BY <1>3, <1>5
<1>. QED
  BY <1>1, <1>2, <1>4, <1>6, <1>7, Zenon DEF TypeOK

LEMMA UserTypeOK ==
    ASSUME TypeOK, UserStep PROVE TypeOK'
<1>1. ASSUME NEW k \in Keys, NEW f \in Fields, NEW v \in Values, EditField(k, f, v)
      PROVE  TypeOK'
  <2>1. issue[k] \in IssueRow /\ issue[k].val[f] \in Values /\ issue[k].updated \in Nat
    BY <1>1 DEF EditField, TypeOK, IssueRow, FieldVals
  <2>2. journal' \subseteq Rows
    BY <1>1, <2>1, UpsertType DEF EditField, TypeOK, Rows
  <2>3. issue' \in [Keys -> IssueRow \cup {None}]
    <3>1. [issue[k] EXCEPT !.val = [issue[k].val EXCEPT ![f] = v]] \in IssueRow
      BY <2>1 DEF IssueRow, FieldVals
    <3>. QED
      BY <1>1, <3>1 DEF EditField, TypeOK
  <2>4. want' \in [Keys -> [Fields -> Values \cup {None}]]
    BY <1>1 DEF EditField, TypeOK
  <2>. QED
    BY <1>1, <2>2, <2>3, <2>4 DEF EditField, remoteVars, engine, screen, TypeOK
<1>2. ASSUME NEW S \in SUBSET journal, Discarded(S),
             UNCHANGED <<remoteVars, nextId, engine, screen>>
      PROVE  TypeOK'
  BY <1>2, DiscardedType DEF remoteVars, engine, screen, TypeOK
<1>3. ASSUME NEW r \in journal, DiscardPendingChange(r) PROVE TypeOK'
  BY <1>3, <1>2 DEF DiscardPendingChange
<1>4. CASE DiscardAllPendingChanges
  BY <1>4, <1>2 DEF DiscardAllPendingChanges
<1>5. ASSUME NEW c \in cards, ResolveOverride(c) PROVE TypeOK'
  <2>1. journal' \subseteq Rows
    <3>1. c.remoteVersion \in Nat
      BY DEF TypeOK, Card
    <3>2. ASSUME NEW r \in journal PROVE [r EXCEPT !.base = c.remoteVersion] \in Rows
      BY <3>1 DEF TypeOK, Rows, PendingChange
    <3>. QED
      BY <1>5, <3>2 DEF ResolveOverride, SetBaseVersion, TypeOK
  <2>. QED
    BY <1>5, <2>1 DEF ResolveOverride, remoteVars, engine, TypeOK
<1>6. ASSUME NEW c \in cards, KeepRead(c) PROVE TypeOK'
  <2>1. c \in Card /\ Fresh(c.key) \in IssueRow
    BY FreshType DEF TypeOK, Card
  <2>. QED
    BY <1>6, <2>1 DEF KeepRead, remoteVars, store, engine, TypeOK
<1>. QED
  BY <1>1, <1>3, <1>4, <1>5, <1>6 DEF UserStep

LEMMA KeepTypeOK ==
    ASSUME TypeOK, KeepDiscard \/ KeepReplace \/ KeepFails PROVE TypeOK'
<1>1. CASE KeepDiscard
  <2>1. ListForKey(journal, keeping.card.key) \in SUBSET journal
    BY DEF ListForKey
  <2>2. Discarded(ListForKey(journal, keeping.card.key))
    BY <1>1 DEF KeepDiscard
  <2>3. keeping' \in [pc: {"discard", "replace"}, card: Card, read: IssueRow]
    <3>1. keeping \in [pc: {"discard", "replace"}, card: Card, read: IssueRow]
      BY <1>1 DEF KeepDiscard, TypeOK, NotKeeping
    <3>. QED
      BY <1>1, <3>1 DEF KeepDiscard
  <2>. QED
    BY <1>1, <2>1, <2>2, <2>3, DiscardedType DEF KeepDiscard, remoteVars, engine, TypeOK
<1>2. CASE KeepReplace
  <2>1. keeping.card.key \in Keys /\ keeping.read \in IssueRow
    BY <1>2 DEF KeepReplace, TypeOK, NotKeeping, Card
  <2>2. reapplyPending(journal, keeping.card.key, keeping.read) \in IssueRow
    BY <2>1, ReapplyType DEF TypeOK
  <2>3. issue' \in [Keys -> IssueRow \cup {None}]
    BY <1>2, <2>2 DEF KeepReplace, ReplaceRow, TypeOK
  <2>. QED
    BY <1>2, <2>3 DEF KeepReplace, remoteVars, engine, TypeOK, NotKeeping
<1>3. CASE KeepFails
  BY <1>3 DEF KeepFails, remoteVars, store, engine, TypeOK, NotKeeping
<1>. QED
  BY <1>1, <1>2, <1>3

LEMMA CommitTypeOK ==
    ASSUME TypeOK, CommitStart \/ CommitStep PROVE TypeOK'
<1>1. CASE CommitStart
  <2>1. {r.key : r \in journal} \subseteq Keys
    BY DEF TypeOK, Rows, PendingChange
  <2>. QED
    BY <1>1, <2>1 DEF CommitStart, Acquire, remoteVars, store, TypeOK
<1>2. ASSUME NEW k \in Keys, Check(k) PROVE TypeOK'
  <2>1. [key |-> k, remoteVersion |-> Version(k)] \in Card
    BY FreshType DEF Card
  <2>. QED
    BY <1>2, <2>1 DEF Check, remoteVars, store, screen, TypeOK
<1>3. ASSUME NEW k \in Keys, CheckFails(k) PROVE TypeOK'
  BY <1>3 DEF CheckFails, remoteVars, store, screen, TypeOK
<1>4. CASE Push
  <2>1. cur \in Keys
    BY <1>4 DEF Push, TypeOK
  <2>. QED
    BY <1>4, <2>1, LandType DEF Push, store, screen, TypeOK
<1>5. CASE PushFails
  <2>1. cur \in Keys
    BY <1>5 DEF PushFails, TypeOK
  <2>2. /\ jira' \in [Keys -> Seq(FieldVals) \ {<<>>}]
        /\ want' \in [Keys -> [Fields -> Values \cup {None}]]
    BY <1>5, <2>1, LandType DEF PushFails, remoteVars, TypeOK
  <2>. QED
    BY <1>5, <2>2 DEF PushFails, Advance, store, screen, TypeOK
<1>6. CASE MarkCommitted
  <2>1. journal' \subseteq journal
    BY <1>6 DEF MarkCommitted, Delete
  <2>. QED
    BY <1>6, <2>1 DEF MarkCommitted, remoteVars, screen, TypeOK
<1>7. CASE MarkFails
  BY <1>7 DEF MarkFails, Advance, remoteVars, store, screen, TypeOK
<1>8. CASE Reread
  <2>1. Fresh(cur) \in IssueRow
    BY <1>8, FreshType DEF Reread, TypeOK
  <2>. QED
    BY <1>8, <2>1 DEF Reread, remoteVars, store, screen, TypeOK
<1>9. CASE Replace
  <2>1. cur \in Keys /\ reapplyPending(journal, cur, read) \in IssueRow
    BY <1>9, ReapplyType DEF Replace, TypeOK
  <2>2. issue' \in [Keys -> IssueRow \cup {None}]
    BY <1>9, <2>1 DEF Replace, ReplaceRow, TypeOK
  <2>. QED
    BY <1>9, <2>2 DEF Replace, Advance, remoteVars, screen, TypeOK
<1>10. CASE RefreshFails
  BY <1>10 DEF RefreshFails, Advance, remoteVars, store, screen, TypeOK
<1>11. CASE CommitEnds
  BY <1>11 DEF CommitEnds, remoteVars, store, TypeOK
<1>. QED
  BY <1>1, <1>2, <1>3, <1>4, <1>5, <1>6, <1>7, <1>8, <1>9, <1>10, <1>11 DEF CommitStep

LEMMA SyncTypeOK ==
    ASSUME TypeOK, (\E full \in BOOLEAN : SyncStart(full)) \/ SyncStep PROVE TypeOK'
<1>1. ASSUME NEW full \in BOOLEAN, SyncStart(full) PROVE TypeOK'
  BY <1>1 DEF SyncStart, Acquire, remoteVars, store, screen, TypeOK
<1>2. ASSUME NEW K \in SUBSET Keys, SearchPage(K) PROVE TypeOK'
  <2>1. DOMAIN page' \subseteq Keys /\ \A k \in DOMAIN page' : page'[k] \in IssueRow
    BY <1>2, FreshType DEF SearchPage
  <2>. QED
    BY <1>2, <2>1 DEF SearchPage, remoteVars, store, screen, TypeOK
<1>3. CASE UpsertPage
  <2>1. \A k \in DOMAIN page : reapplyPending(journal, k, page[k]) \in IssueRow
    BY ReapplyType DEF TypeOK
  <2>2. issue' \in [Keys -> IssueRow \cup {None}]
    BY <1>3, <2>1 DEF UpsertPage, TypeOK
  <2>3. DOMAIN page' = {}
    BY <1>3 DEF UpsertPage
  <2>. QED
    BY <1>3, <2>2, <2>3 DEF UpsertPage, remoteVars, screen, TypeOK
<1>4. CASE SyncEnds
  BY <1>4 DEF SyncEnds, remoteVars, store, screen, TypeOK
<1>. QED
  BY <1>1, <1>2, <1>3, <1>4 DEF SyncStep

LEMMA RemoteTypeOK ==
    ASSUME TypeOK, NEW k \in Keys, NEW f \in Fields, NEW v \in Values, RemoteEdit(k, f, v)
    PROVE  TypeOK'
<1>1. Fresh(k).val \in FieldVals
  BY FreshType DEF IssueRow
<1>2. [Fresh(k).val EXCEPT ![f] = v] \in FieldVals
  BY <1>1 DEF FieldVals
<1>3. jira' = [jira EXCEPT ![k] = Append(@, [Fresh(k).val EXCEPT ![f] = v])]
  BY DEF RemoteEdit, Fresh, Version
<1>4. jira' \in [Keys -> Seq(FieldVals) \ {<<>>}]
  BY <1>2, <1>3, AppendType
<1>. QED
  BY <1>4 DEF RemoteEdit, store, engine, screen, TypeOK

LEMMA CrashTypeOK ==
    ASSUME TypeOK, Crash PROVE TypeOK'
<1>1. DOMAIN page' = {}
  BY DEF Crash
<1>. QED
  BY <1>1 DEF Crash, remoteVars, store, TypeOK, NotKeeping

LEMMA StutterTypeOK ==
    ASSUME TypeOK, UNCHANGED vars PROVE TypeOK'
BY DEF vars, TypeOK

\* Every variable keeps its type, whatever the disturbances and the bounds.
THEOREM TypeCorrect == Spec => []TypeOK
<1>1. Init => TypeOK
  BY InitTypeOK
<1>2. TypeOK /\ [Next]_vars => TypeOK'
  BY UserTypeOK, KeepTypeOK, CommitTypeOK, SyncTypeOK, RemoteTypeOK, CrashTypeOK,
     StutterTypeOK DEF Next
<1>. QED
  BY <1>1, <1>2, PTL DEF Spec

-----------------------------------------------------------------------------
\* The store: one row per change, and every pending change on show.  Each
\* needs the other: uniqueness picks the row reapplyPending writes, and a row
\* already on show is why an edit of it always asks for something new.

StoreInv == OneRowPerChange /\ PendingIsShown

\* A row of the journal is written back over whatever row lands under it.
LEMMA ReapplyShows ==
    ASSUME TypeOK, OneRowPerChange, NEW r \in journal, NEW row \in IssueRow
    PROVE  reapplyPending(journal, r.key, row).val[r.field] = r.after
<1>1. r.type = EntityIssue /\ r.field \in Fields /\ r.key \in Keys
  BY DEF TypeOK, Rows, PendingChange
<1>2. AfterVal(journal, EntityIssue, r.key, r.field, row.val[r.field]) = r.after
  BY <1>1, RowAtIsUnique DEF OneRowPerChange, AfterVal
<1>. QED
  BY <1>1, <1>2 DEF reapplyPending, IssueRow

\* A smaller journal over an issue table that changed under none of its rows.
LEMMA ShrinkStoreInv ==
    ASSUME TypeOK, StoreInv, journal' \subseteq journal, nextId' = nextId,
           \A r \in journal' : issue'[r.key] # None =>
               issue[r.key] # None /\ issue'[r.key].val[r.field] = issue[r.key].val[r.field]
    PROVE  StoreInv'
<1>1. OneRowPerChange'
  BY SubsetWellKeyed DEF StoreInv, OneRowPerChange
<1>2. PendingIsShown'
  BY DEF StoreInv, PendingIsShown
<1>. QED
  BY <1>1, <1>2 DEF StoreInv

LEMMA EditStoreInv ==
    ASSUME TypeOK, StoreInv,
           NEW k \in Keys, NEW f \in Fields, NEW v \in Values, EditField(k, f, v)
    PROVE  StoreInv'
<1>. DEFINE old == RowsAt(journal, EntityIssue, k, f)
<1>1. /\ issue[k] \in IssueRow /\ issue[k].val[f] \in Values /\ issue[k].updated \in Nat
      /\ issue[k].val[f] # v
      /\ journal \subseteq Rows /\ nextId \in Nat
  BY DEF EditField, TypeOK, IssueRow, FieldVals
<1>2. journal' = Upsert(journal, nextId, EntityIssue, k, f, issue[k].val[f], v, issue[k].updated)
  BY DEF EditField
<1>3. \A r \in journal : r.id < nextId /\ r.before # r.after /\ r.id \in Nat
  BY <1>1 DEF StoreInv, OneRowPerChange, Rows, PendingChange
<1>4. WellKeyed(journal')
  <2>1. WellKeyed(journal)
    BY DEF StoreInv, OneRowPerChange
  <2>. QED
    BY <1>1, <1>2, <1>3, <2>1, UpsertWellKeyed DEF Rows
<1>5. ASSUME NEW r \in journal'
      PROVE  \/ r \in journal /\ ~(r.type = EntityIssue /\ r.key = k /\ r.field = f)
             \/ /\ r.type = EntityIssue /\ r.key = k /\ r.field = f /\ r.after = v
                /\ \/ old = {} /\ r.before = issue[k].val[f] /\ r.id = nextId
                   \/ \E s \in old : r.id = s.id /\ r.before = s.before /\ s.before # v
  BY <1>1, <1>2, UpsertRows DEF Rows
<1>6. ASSUME NEW r \in journal' PROVE r.before # r.after /\ r.id < nextId'
  <2>1. nextId' = IF old = {} THEN nextId + 1 ELSE nextId
    BY DEF EditField
  <2>2. CASE r \in journal
    BY <1>1, <1>3, <2>1, <2>2
  <2>3. CASE r.after = v /\ old = {} /\ r.before = issue[k].val[f] /\ r.id = nextId
    BY <1>1, <2>1, <2>3
  <2>4. CASE r.after = v /\ \E s \in old : r.id = s.id /\ r.before = s.before /\ s.before # v
    <3>1. PICK s \in old : r.id = s.id /\ r.before = s.before /\ s.before # v
      BY <2>4
    <3>2. s \in journal /\ old # {}
      BY <3>1 DEF RowsAt
    <3>. QED
      BY <1>3, <2>1, <2>4, <3>1, <3>2
  <2>. QED
    BY <1>5, <2>2, <2>3, <2>4
<1>7. ASSUME NEW r \in journal', issue'[r.key] # None
      PROVE  issue'[r.key].val[r.field] = r.after
  <2>1. issue' = [issue EXCEPT ![k] = [issue[k] EXCEPT !.val = [issue[k].val EXCEPT ![f] = v]]]
    BY DEF EditField
  <2>2. issue'[k].val = [issue[k].val EXCEPT ![f] = v]
    BY <1>1, <2>1 DEF TypeOK, IssueRow
  <2>3. CASE r.key = k /\ r.field = f /\ r.after = v
    BY <1>1, <2>2, <2>3 DEF IssueRow, FieldVals
  <2>4. CASE r \in journal /\ ~(r.type = EntityIssue /\ r.key = k /\ r.field = f)
    <3>1. r.type = EntityIssue /\ r.key \in Keys /\ r.field \in Fields
      BY <1>1, <2>4 DEF Rows, PendingChange
    <3>2. CASE r.key = k
      <4>1. issue[k].val[r.field] = r.after
        BY <1>1, <2>4, <3>2 DEF StoreInv, PendingIsShown, EditField
      <4>. QED
        BY <1>1, <2>2, <2>4, <3>1, <3>2, <4>1 DEF IssueRow, FieldVals
    <3>3. CASE r.key # k
      <4>1. issue'[r.key] = issue[r.key]
        BY <2>1, <3>1, <3>3 DEF TypeOK
      <4>. QED
        BY <1>7, <2>4, <4>1 DEF StoreInv, PendingIsShown
    <3>. QED
      BY <3>2, <3>3
  <2>. QED
    BY <1>5, <2>3, <2>4
<1>. QED
  BY <1>4, <1>6, <1>7 DEF StoreInv, OneRowPerChange, PendingIsShown

LEMMA DiscardedStoreInv ==
    ASSUME TypeOK, StoreInv, NEW S \in SUBSET journal, Discarded(S), nextId' = nextId
    PROVE  StoreInv'
<1>1. journal' = {r \in journal : r.id \notin {s.id : s \in S}}
  BY DEF Discarded, Delete
<1>2. ASSUME NEW r \in journal', issue'[r.key] # None
      PROVE  issue[r.key] # None /\ issue'[r.key].val[r.field] = issue[r.key].val[r.field]
  <2>1. r \in journal /\ r \notin S
    BY <1>1
  <2>2. r.type = EntityIssue /\ r.key \in Keys /\ r.field \in Fields
    BY <2>1 DEF TypeOK, Rows, PendingChange
  <2>3. RowsAt(S, EntityIssue, r.key, r.field) = {}
    BY <2>1, <2>2 DEF RowsAt, StoreInv, OneRowPerChange, WellKeyed
  <2>4. issue'[r.key] = IF issue[r.key] = None THEN None
                        ELSE [issue[r.key] EXCEPT !.val =
                                [f \in Fields |-> BeforeVal(S, EntityIssue, r.key, f, issue[r.key].val[f])]]
    BY <2>2 DEF Discarded
  <2>5. issue[r.key] \in IssueRow
    BY <1>2, <2>2, <2>4 DEF TypeOK
  <2>6. issue'[r.key].val[r.field] = BeforeVal(S, EntityIssue, r.key, r.field, issue[r.key].val[r.field])
    BY <1>2, <2>2, <2>4, <2>5 DEF IssueRow
  <2>. QED
    BY <1>2, <2>3, <2>4, <2>6 DEF BeforeVal
<1>3. journal' \subseteq journal
  BY <1>1
<1>. QED
  BY <1>2, <1>3, ShrinkStoreInv

LEMMA OverrideStoreInv ==
    ASSUME TypeOK, StoreInv, NEW c \in cards, ResolveOverride(c)
    PROVE  StoreInv'
<1>. DEFINE rebased(r) == IF r.key = c.key THEN [r EXCEPT !.base = c.remoteVersion] ELSE r
<1>1. journal' = {rebased(r) : r \in journal}
  BY DEF ResolveOverride, SetBaseVersion
<1>2. \A r \in journal : /\ rebased(r).id = r.id /\ rebased(r).type = r.type
                         /\ rebased(r).key = r.key /\ rebased(r).field = r.field
                         /\ rebased(r).before = r.before /\ rebased(r).after = r.after
  BY DEF TypeOK, Rows, PendingChange
<1>3. \A n \in journal' : \E r \in journal : n = rebased(r)
  BY <1>1
<1>4. WellKeyed(journal')
  <2>. HIDE DEF rebased
  <2>. QED
    BY <1>2, <1>3 DEF StoreInv, OneRowPerChange, WellKeyed
<1>5. UNCHANGED <<issue, nextId>>
  BY DEF ResolveOverride
<1>. HIDE DEF rebased
<1>. QED
  BY <1>2, <1>3, <1>4, <1>5 DEF StoreInv, OneRowPerChange, PendingIsShown

\* A row that lands from Jira lands under the journal.
LEMMA ReplaceStoreInv ==
    ASSUME TypeOK, StoreInv, NEW k \in Keys, NEW fresh \in IssueRow,
           ReplaceRow(k, fresh), UNCHANGED <<journal, nextId>>
    PROVE  StoreInv'
<1>1. ASSUME NEW r \in journal, issue'[r.key] # None
      PROVE  issue'[r.key].val[r.field] = r.after
  <2>1. r.key \in Keys
    BY DEF TypeOK, Rows, PendingChange
  <2>2. CASE r.key = k
    BY <2>2, ReapplyShows DEF ReplaceRow, TypeOK, StoreInv
  <2>3. CASE r.key # k
    BY <1>1, <2>1, <2>3 DEF ReplaceRow, TypeOK, StoreInv, PendingIsShown
  <2>. QED
    BY <2>2, <2>3
<1>. QED
  BY <1>1 DEF StoreInv, OneRowPerChange, PendingIsShown

LEMMA UpsertPageStoreInv ==
    ASSUME TypeOK, StoreInv, UpsertPage PROVE StoreInv'
<1>1. ASSUME NEW r \in journal, issue'[r.key] # None
      PROVE  issue'[r.key].val[r.field] = r.after
  <2>1. r.key \in Keys
    BY DEF TypeOK, Rows, PendingChange
  <2>2. CASE r.key \in DOMAIN page
    <3>1. issue'[r.key] = reapplyPending(journal, r.key, page[r.key])
      BY <2>1, <2>2 DEF UpsertPage
    <3>. QED
      BY <2>2, <3>1, ReapplyShows DEF TypeOK, StoreInv
  <2>3. CASE r.key \notin DOMAIN page
    BY <1>1, <2>1, <2>3 DEF UpsertPage, StoreInv, PendingIsShown
  <2>. QED
    BY <2>2, <2>3
<1>. QED
  BY <1>1 DEF UpsertPage, StoreInv, OneRowPerChange, PendingIsShown

LEMMA StoreStep ==
    ASSUME TypeOK, StoreInv, [Next]_vars PROVE StoreInv'
<1>1. ASSUME UNCHANGED store PROVE StoreInv'
  BY <1>1 DEF store, StoreInv, OneRowPerChange, PendingIsShown
<1>2. CASE UserStep
  <2>1. ASSUME NEW k \in Keys, NEW f \in Fields, NEW v \in Values, EditField(k, f, v)
        PROVE  StoreInv'
    BY <2>1, EditStoreInv
  <2>2. ASSUME NEW r \in journal, DiscardPendingChange(r) PROVE StoreInv'
    BY <2>2, DiscardedStoreInv DEF DiscardPendingChange
  <2>3. CASE DiscardAllPendingChanges
    BY <2>3, DiscardedStoreInv DEF DiscardAllPendingChanges
  <2>4. ASSUME NEW c \in cards, ResolveOverride(c) PROVE StoreInv'
    BY <2>4, OverrideStoreInv
  <2>5. ASSUME NEW c \in cards, KeepRead(c) PROVE StoreInv'
    BY <2>5, <1>1 DEF KeepRead
  <2>. QED
    BY <1>2, <2>1, <2>2, <2>3, <2>4, <2>5 DEF UserStep
<1>3. CASE KeepDiscard
  <2>1. ListForKey(journal, keeping.card.key) \in SUBSET journal
    BY DEF ListForKey
  <2>. QED
    BY <1>3, <2>1, DiscardedStoreInv DEF KeepDiscard
<1>4. CASE KeepReplace
  <2>1. keeping.card.key \in Keys /\ keeping.read \in IssueRow
    BY <1>4 DEF KeepReplace, TypeOK, NotKeeping, Card
  <2>. QED
    BY <1>4, <2>1, ReplaceStoreInv DEF KeepReplace
<1>5. CASE CommitStep
  <2>1. CASE MarkCommitted
    BY <2>1, ShrinkStoreInv DEF MarkCommitted, Delete
  <2>2. CASE Replace
    <3>1. cur \in Keys /\ read \in IssueRow
      BY <2>2 DEF Replace, TypeOK
    <3>. QED
      BY <2>2, <3>1, ReplaceStoreInv DEF Replace
  <2>3. CASE (\E k \in Keys : Check(k) \/ CheckFails(k)) \/ Push \/ PushFails \/ MarkFails
             \/ Reread \/ RefreshFails \/ CommitEnds
    BY <2>3, <1>1 DEF Check, CheckFails, Push, PushFails, MarkFails, Reread, RefreshFails,
                      CommitEnds
  <2>. QED
    BY <1>5, <2>1, <2>2, <2>3 DEF CommitStep
<1>6. CASE SyncStep
  <2>1. CASE UpsertPage
    BY <2>1, UpsertPageStoreInv
  <2>2. CASE (\E K \in SUBSET Keys : SearchPage(K)) \/ SyncEnds
    BY <2>2, <1>1 DEF SearchPage, SyncEnds
  <2>. QED
    BY <1>6, <2>1, <2>2 DEF SyncStep
<1>7. CASE KeepFails \/ CommitStart \/ (\E full \in BOOLEAN : SyncStart(full))
           \/ (\E k \in Keys, f \in Fields, v \in Values : RemoteEdit(k, f, v)) \/ Crash
  BY <1>7, <1>1 DEF KeepFails, CommitStart, SyncStart, RemoteEdit, Crash
<1>8. CASE UNCHANGED vars
  BY <1>8, <1>1 DEF vars, store
<1>. QED
  BY <1>2, <1>3, <1>4, <1>5, <1>6, <1>7, <1>8 DEF Next

LEMMA StoreInvariant == Spec => []StoreInv
<1>1. Init => StoreInv
  BY DEF Init, StoreInv, OneRowPerChange, PendingIsShown, WellKeyed
<1>2. TypeOK /\ StoreInv /\ [Next]_vars => StoreInv'
  BY StoreStep
<1>. QED
  BY <1>1, <1>2, TypeCorrect, PTL DEF Spec

\* However a sync, a commit's refresh, a resolution and the user's own edits
\* interleave, a cached field with a pending row shows the value pending.
THEOREM PendingAlwaysShown == Spec => []PendingIsShown
<1>1. StoreInv => PendingIsShown
  BY DEF StoreInv
<1>. QED
  BY <1>1, StoreInvariant, PTL

\* The journal never holds two rows for a field, nor one that asks for the
\* value the field already had.
THEOREM JournalHoldsChanges == Spec => []OneRowPerChange
<1>1. StoreInv => OneRowPerChange
  BY DEF StoreInv
<1>. QED
  BY <1>1, StoreInvariant, PTL

-----------------------------------------------------------------------------
\* What is promised of the user's changes when nobody edits while a job runs:
\* none is lost, the versions they were made at keep their order, and the cache,
\* the versions and the steps in between implement IntentLedger.

\* The rows at a place, after the journal's helpers.

\* At most one row stands at a place, and an empty place owes nothing.
LEMMA AfterValOfRow ==
    ASSUME NEW j \in SUBSET Rows, WellKeyed(j), NEW k, NEW f, NEW d,
           NEW r \in RowsAt(j, EntityIssue, k, f)
    PROVE  /\ AfterVal(j, EntityIssue, k, f, d) = r.after
           /\ \A s \in RowsAt(j, EntityIssue, k, f) : s = r
<1>1. r \in j /\ r.type = EntityIssue /\ r.key = k /\ r.field = f
  BY DEF RowsAt
<1>2. RowsAt(j, EntityIssue, k, f) = {r} /\ RowAt(j, EntityIssue, k, f) = r
  BY <1>1, RowAtIsUnique
<1>. QED
  BY <1>2 DEF AfterVal

\* Deleting a set of rows empties their places and leaves the others alone.
LEMMA DeletedPlaces ==
    ASSUME NEW j \in SUBSET Rows, WellKeyed(j), NEW S \in SUBSET j, NEW k, NEW f
    PROVE  RowsAt(Delete(j, {r.id : r \in S}), EntityIssue, k, f)
             = IF RowsAt(S, EntityIssue, k, f) = {} THEN RowsAt(j, EntityIssue, k, f) ELSE {}
<1>1. Delete(j, {r.id : r \in S}) = j \ S
  BY DEF Delete, WellKeyed
<1>2. CASE RowsAt(S, EntityIssue, k, f) = {}
  BY <1>1, <1>2 DEF RowsAt
<1>3. CASE RowsAt(S, EntityIssue, k, f) # {}
  BY <1>1, <1>3 DEF RowsAt, WellKeyed
<1>. QED
  BY <1>2, <1>3

\* An upsert touches its own place only, and leaves the value there, or
\* nothing when the value is the one the row began with.
LEMMA UpsertPlaces ==
    ASSUME NEW j \in SUBSET Rows, WellKeyed(j),
           NEW id \in Nat, \A r \in j : r.id < id,
           NEW k \in Keys, NEW f \in Fields, NEW current \in Values, NEW v \in Values,
           NEW base \in Nat
    PROVE  LET up == Upsert(j, id, EntityIssue, k, f, current, v, base)
           IN  /\ \A q, g : ~(q = k /\ g = f) =>
                     RowsAt(up, EntityIssue, q, g) = RowsAt(j, EntityIssue, q, g)
               /\ \A r \in RowsAt(up, EntityIssue, k, f) : r.after = v
<1>. DEFINE up == Upsert(j, id, EntityIssue, k, f, current, v, base)
<1>2. \A r \in j : ~(r.type = EntityIssue /\ r.key = k /\ r.field = f) => r \in up
  BY DEF Upsert, Inserted, Overwritten, RowsAt
<1>1. ASSUME NEW r \in up
      PROVE  \/ r \in j /\ ~(r.type = EntityIssue /\ r.key = k /\ r.field = f)
             \/ r.type = EntityIssue /\ r.key = k /\ r.field = f /\ r.after = v
  <2>. DEFINE old == RowsAt(j, EntityIssue, k, f)
  <2>1. CASE old = {}
    BY <2>1 DEF Upsert, Inserted, RowsAt
  <2>2. CASE old # {} /\ \E s \in old : s.before = v
    BY <2>2 DEF Upsert, RowsAt
  <2>3. CASE old # {} /\ ~\E s \in old : s.before = v
    <3>1. r \in j \ old \/ \E s \in old : r = [s EXCEPT !.after = v]
      BY <2>3 DEF Upsert, Overwritten
    <3>. QED
      BY <3>1 DEF RowsAt, Rows, PendingChange
  <2>. QED
    BY <2>1, <2>2, <2>3
<1>. HIDE DEF up
<1>3. ASSUME NEW q, NEW g, ~(q = k /\ g = f)
      PROVE  RowsAt(up, EntityIssue, q, g) = RowsAt(j, EntityIssue, q, g)
  BY <1>1, <1>2, <1>3 DEF RowsAt
<1>4. \A r \in RowsAt(up, EntityIssue, k, f) : r.after = v
  BY <1>1 DEF RowsAt
<1>. QED
  BY <1>3, <1>4 DEF up

-----------------------------------------------------------------------------
\* Nothing asked for is lost.

\* What a Commit has still to send for an issue is exactly what is pending.
Unsent(k) == RowsOf(k) = ListForKey(journal, k) /\ ListForKey(journal, k) # {}

LedgerInv ==
    /\ job # "none" => keeping.pc = "idle"
    /\ job # "commit" => todo = {}
    /\ \A k \in todo : Unsent(k)
    /\ pc \in {"push", "mark"} => cur \notin todo /\ Unsent(cur)
    /\ pc = "mark" => \A f \in Fields : want[cur][f] = None
    /\ NoIntentLost

LEMMA UnsentRows ==
    ASSUME NEW k, Unsent(k), NEW f
    PROVE  RowsAt(rows, EntityIssue, k, f) = RowsAt(journal, EntityIssue, k, f)
BY DEF Unsent, RowsOf, ListForKey, RowsAt

\* While no job runs, only what is asked for can be disturbed.
LEMMA IdleLedgerInv ==
    ASSUME TypeOK, LedgerInv, job = "none", UNCHANGED <<job, pc, todo>>, NoIntentLost'
    PROVE  LedgerInv'
BY DEF LedgerInv, TypeOK

LEMMA FrameIntent ==
    ASSUME NoIntentLost, UNCHANGED <<journal, want>>
    PROVE  NoIntentLost'
BY DEF NoIntentLost

LEMMA EditIntent ==
    ASSUME TypeOK, StoreInv, NoIntentLost,
           NEW k \in Keys, NEW f \in Fields, NEW v \in Values, EditField(k, f, v)
    PROVE  NoIntentLost'
<1>1. /\ issue[k].val[f] \in Values /\ issue[k].updated \in Nat
      /\ journal \in SUBSET Rows /\ nextId \in Nat
      /\ WellKeyed(journal) /\ \A r \in journal : r.id < nextId
  BY DEF EditField, TypeOK, IssueRow, FieldVals, StoreInv, OneRowPerChange
<1>2. journal' = Upsert(journal, nextId, EntityIssue, k, f, issue[k].val[f], v, issue[k].updated)
  BY DEF EditField
<1>3. /\ \A q, g : ~(q = k /\ g = f) =>
            RowsAt(journal', EntityIssue, q, g) = RowsAt(journal, EntityIssue, q, g)
      /\ \A r \in RowsAt(journal', EntityIssue, k, f) : r.after = v
  BY <1>1, <1>2, UpsertPlaces
<1>4. want' = [want EXCEPT ![k] = [want[k] EXCEPT ![f] =
                  IF RowsAt(journal', EntityIssue, k, f) = {} THEN None ELSE v]]
  BY DEF EditField
<1>5. want \in [Keys -> [Fields -> Values \cup {None}]]
  BY DEF TypeOK
<1>6. ASSUME NEW q \in Keys, NEW g \in Fields, want'[q][g] # None
      PROVE  \E r \in RowsAt(journal', EntityIssue, q, g) : r.after = want'[q][g]
  <2>1. CASE q = k /\ g = f
    <3>1. want'[k][f] = IF RowsAt(journal', EntityIssue, k, f) = {} THEN None ELSE v
      BY <1>4, <1>5
    <3>. QED
      BY <1>3, <1>6, <2>1, <3>1
  <2>2. CASE ~(q = k /\ g = f)
    <3>1. want'[q][g] = want[q][g]
      BY <1>4, <1>5, <2>2
    <3>2. RowsAt(journal', EntityIssue, q, g) = RowsAt(journal, EntityIssue, q, g)
      BY <1>3, <2>2
    <3>. QED
      BY <1>6, <3>1, <3>2 DEF NoIntentLost
  <2>. QED
    BY <2>1, <2>2
<1>. QED
  BY <1>6 DEF NoIntentLost

LEMMA DiscardIntent ==
    ASSUME TypeOK, StoreInv, NoIntentLost, NEW S \in SUBSET journal, Discarded(S)
    PROVE  NoIntentLost'
<1>1. journal \in SUBSET Rows /\ WellKeyed(journal)
  BY DEF TypeOK, StoreInv, OneRowPerChange
<1>2. journal' = Delete(journal, {r.id : r \in S})
  BY DEF Discarded
<1>3. ASSUME NEW k \in Keys, NEW f \in Fields, want'[k][f] # None
      PROVE  \E r \in RowsAt(journal', EntityIssue, k, f) : r.after = want'[k][f]
  <2>1. RowsAt(S, EntityIssue, k, f) = {} /\ want'[k][f] = want[k][f]
    BY <1>3 DEF Discarded
  <2>2. RowsAt(journal', EntityIssue, k, f) = RowsAt(journal, EntityIssue, k, f)
    BY <1>1, <1>2, <2>1, DeletedPlaces
  <2>. QED
    BY <1>3, <2>1, <2>2 DEF NoIntentLost
<1>. QED
  BY <1>3 DEF NoIntentLost

\* What a rebased journal has at a place.
LEMMA RebasedPlaces ==
    ASSUME NEW j \in SUBSET Rows, NEW key, NEW version \in Nat, NEW k, NEW f
    PROVE  /\ \A r \in RowsAt(j, EntityIssue, k, f) :
                 \E n \in RowsAt(SetBaseVersion(j, key, version), EntityIssue, k, f) : n.after = r.after
           /\ \A n \in RowsAt(SetBaseVersion(j, key, version), EntityIssue, k, f) :
                 \E r \in RowsAt(j, EntityIssue, k, f) : n.after = r.after
<1>. DEFINE rebased(r) == IF r.key = key THEN [r EXCEPT !.base = version] ELSE r
<1>1. SetBaseVersion(j, key, version) = {rebased(r) : r \in j}
  BY DEF SetBaseVersion
<1>2. \A r \in j : /\ rebased(r).type = r.type /\ rebased(r).key = r.key
                   /\ rebased(r).field = r.field /\ rebased(r).after = r.after
  BY DEF Rows, PendingChange
<1>. HIDE DEF rebased
<1>. QED
  BY <1>1, <1>2 DEF RowsAt

LEMMA OverrideIntent ==
    ASSUME TypeOK, NoIntentLost, NEW c \in cards, ResolveOverride(c)
    PROVE  NoIntentLost'
<1>1. journal \in SUBSET Rows /\ c.remoteVersion \in Nat
  BY DEF TypeOK, Card
<1>2. journal' = SetBaseVersion(journal, c.key, c.remoteVersion) /\ want' = want
  BY DEF ResolveOverride
<1>3. ASSUME NEW k \in Keys, NEW f \in Fields, want[k][f] # None
      PROVE  \E n \in RowsAt(journal', EntityIssue, k, f) : n.after = want[k][f]
  <2>1. PICK r \in RowsAt(journal, EntityIssue, k, f) : r.after = want[k][f]
    BY <1>3 DEF NoIntentLost
  <2>. QED
    BY <1>1, <1>2, <2>1, RebasedPlaces
<1>. QED
  BY <1>2, <1>3 DEF NoIntentLost

\* A landed push leaves what it carried of the issue's wishes settled.
LEMMA LandIntent ==
    ASSUME TypeOK, LedgerInv, pc = "push", Land(cur), journal' = journal
    PROVE  /\ NoIntentLost'
           /\ \A f \in Fields : want'[cur][f] = None
<1>1. cur \in Keys /\ want \in [Keys -> [Fields -> Values \cup {None}]]
  BY DEF TypeOK
<1>2. \A f \in Fields : RowsAt(rows, EntityIssue, cur, f) = RowsAt(journal, EntityIssue, cur, f)
  BY UnsentRows DEF LedgerInv
<1>3. \A k \in Keys : k # cur => want'[k] = want[k]
  BY <1>1 DEF Land
<1>4. ASSUME NEW f \in Fields PROVE want'[cur][f] = None
  <2>1. want'[cur][f] = IF \E r \in RowsAt(rows, EntityIssue, cur, f) : r.after = want[cur][f]
                        THEN None ELSE want[cur][f]
    BY <1>1 DEF Land
  <2>2. CASE want[cur][f] # None
    BY <1>1, <1>2, <2>1, <2>2 DEF LedgerInv, NoIntentLost
  <2>. QED
    BY <2>1, <2>2
<1>5. NoIntentLost'
  BY <1>3, <1>4 DEF LedgerInv, NoIntentLost
<1>. QED
  BY <1>4, <1>5

\* Clearing the rows of an issue with nothing asked for loses nothing, and
\* touches no row of another issue.
LEMMA MarkIntent ==
    ASSUME TypeOK, StoreInv, LedgerInv, MarkCommitted
    PROVE  /\ NoIntentLost'
           /\ \A k \in todo : Unsent(k)'
           /\ \A k, f : RowsAt(journal', EntityIssue, k, f) =
                  IF k = cur THEN {} ELSE RowsAt(journal, EntityIssue, k, f)
<1>1. pc = "mark" /\ journal' = Delete(journal, {r.id : r \in RowsOf(cur)})
  BY DEF MarkCommitted
<1>2. RowsOf(cur) = ListForKey(journal, cur) /\ cur \notin todo
  BY <1>1 DEF LedgerInv, Unsent
<1>3. journal' = {r \in journal : r.key # cur}
  BY <1>1, <1>2 DEF Delete, ListForKey, StoreInv, OneRowPerChange, WellKeyed
<1>4. \A k, f : RowsAt(journal', EntityIssue, k, f) =
         IF k = cur THEN {} ELSE RowsAt(journal, EntityIssue, k, f)
  BY <1>3 DEF RowsAt
<1>5. ASSUME NEW k \in todo PROVE Unsent(k)'
  <2>1. k # cur /\ Unsent(k)
    BY <1>2 DEF LedgerInv
  <2>2. ListForKey(journal', k) = ListForKey(journal, k)
    BY <1>3, <2>1 DEF ListForKey
  <2>3. rows' = rows
    BY DEF MarkCommitted
  <2>. QED
    BY <2>1, <2>2, <2>3 DEF Unsent, RowsOf
<1>6. NoIntentLost'
  <2>1. want' = want /\ NoIntentLost
    BY DEF MarkCommitted, LedgerInv
  <2>2. ASSUME NEW k \in Keys, NEW f \in Fields, want[k][f] # None
        PROVE  \E r \in RowsAt(journal', EntityIssue, k, f) : r.after = want[k][f]
    <3>1. k # cur
      BY <1>1, <2>2 DEF LedgerInv
    <3>2. RowsAt(journal', EntityIssue, k, f) = RowsAt(journal, EntityIssue, k, f)
      BY <1>4, <3>1
    <3>. QED
      BY <2>1, <2>2, <3>2 DEF NoIntentLost
  <2>. QED
    BY <2>1, <2>2 DEF NoIntentLost
<1>. QED
  BY <1>4, <1>5, <1>6

LEMMA UserLedgerInv ==
    ASSUME "overlap" \notin Env, TypeOK, StoreInv, LedgerInv, UserStep
    PROVE  LedgerInv'
<1>1. ASSUME Unguarded, UNCHANGED engine, NoIntentLost' PROVE LedgerInv'
  BY <1>1, IdleLedgerInv DEF Unguarded, Quiet, engine
<1>2. NoIntentLost
  BY DEF LedgerInv
<1>3. ASSUME NEW k \in Keys, NEW f \in Fields, NEW v \in Values, EditField(k, f, v)
      PROVE  LedgerInv'
  BY <1>1, <1>2, <1>3, EditIntent DEF EditField
<1>4. ASSUME NEW r \in journal, DiscardPendingChange(r) PROVE LedgerInv'
  BY <1>1, <1>2, <1>4, DiscardIntent DEF DiscardPendingChange
<1>5. CASE DiscardAllPendingChanges
  BY <1>1, <1>2, <1>5, DiscardIntent DEF DiscardAllPendingChanges
<1>6. ASSUME NEW c \in cards, ResolveOverride(c) PROVE LedgerInv'
  BY <1>1, <1>2, <1>6, OverrideIntent DEF ResolveOverride
<1>7. ASSUME NEW c \in cards, KeepRead(c) PROVE LedgerInv'
  BY <1>1, <1>2, <1>7, FrameIntent DEF KeepRead, store, engine
<1>. QED
  BY <1>3, <1>4, <1>5, <1>6, <1>7 DEF UserStep

LEMMA KeepLedgerInv ==
    ASSUME TypeOK, StoreInv, LedgerInv, KeepDiscard \/ KeepReplace \/ KeepFails
    PROVE  LedgerInv'
<1>1. ASSUME keeping.pc # "idle", UNCHANGED engine, NoIntentLost' PROVE LedgerInv'
  <2>1. job = "none"
    BY <1>1 DEF LedgerInv
  <2>. QED
    BY <1>1, <2>1, IdleLedgerInv DEF engine
<1>2. NoIntentLost
  BY DEF LedgerInv
<1>3. CASE KeepDiscard
  <2>1. ListForKey(journal, keeping.card.key) \in SUBSET journal
    BY DEF ListForKey
  <2>. QED
    BY <1>1, <1>2, <1>3, <2>1, DiscardIntent DEF KeepDiscard
<1>4. CASE KeepReplace
  BY <1>1, <1>2, <1>4, FrameIntent DEF KeepReplace
<1>5. CASE KeepFails
  BY <1>1, <1>2, <1>5, FrameIntent DEF KeepFails, store
<1>. QED
  BY <1>3, <1>4, <1>5

LEMMA CommitLedgerInv ==
    ASSUME "overlap" \notin Env, TypeOK, StoreInv, LedgerInv, CommitStart \/ CommitStep
    PROVE  LedgerInv'
<1>1. CASE CommitStart
  <2>1. NoIntentLost'
    BY <1>1, FrameIntent DEF CommitStart, store, LedgerInv
  <2>2. \A k \in todo' : Unsent(k)'
    BY <1>1 DEF CommitStart, store, Unsent, RowsOf, ListForKey
  <2>. QED
    BY <1>1, <2>1, <2>2 DEF LedgerInv, CommitStart, Acquire, Unguarded, Quiet
<1>2. ASSUME UNCHANGED <<journal, rows>> PROVE \A k : Unsent(k)' = Unsent(k)
  BY <1>2 DEF Unsent, RowsOf, ListForKey
<1>3. ASSUME NEW k \in Keys, Check(k) PROVE LedgerInv'
  <2>1. UNCHANGED <<journal, rows, job, keeping, want>> /\ k \in todo /\ todo' = todo \ {k} /\ pc = "next"
    BY <1>3 DEF Check, store, screen
  <2>2. NoIntentLost' /\ Unsent(k)
    BY <2>1, FrameIntent DEF LedgerInv
  <2>3. \/ pc' = "push" /\ cur' = k
        \/ pc' = pc
    BY <1>3 DEF Check
  <2>. QED
    BY <1>2, <2>1, <2>2, <2>3 DEF LedgerInv
<1>4. ASSUME NEW k \in Keys, CheckFails(k) PROVE LedgerInv'
  <2>1. UNCHANGED <<journal, rows, job, keeping, want, pc>> /\ todo' = todo \ {k} /\ pc = "next"
    BY <1>4 DEF CheckFails, store, screen
  <2>. QED
    BY <1>2, <2>1, FrameIntent DEF LedgerInv
<1>5. CASE Push
  <2>1. UNCHANGED <<journal, rows, job, keeping, todo, cur>> /\ pc = "push" /\ pc' = "mark" /\ Land(cur)
    BY <1>5 DEF Push, store, screen
  <2>. QED
    BY <1>2, <2>1, LandIntent DEF LedgerInv
<1>6. ASSUME UNCHANGED <<journal, rows, job, keeping, todo>>, pc' \notin {"push", "mark"}, NoIntentLost'
      PROVE  LedgerInv'
  BY <1>2, <1>6 DEF LedgerInv
<1>7. CASE PushFails
  <2>1. /\ UNCHANGED <<journal, rows, job, keeping, todo>> /\ pc = "push" /\ pc' = "next"
        /\ Land(cur) \/ want' = want
    BY <1>7 DEF PushFails, store, screen, Advance
  <2>2. NoIntentLost'
    BY <2>1, LandIntent, FrameIntent DEF LedgerInv
  <2>. QED
    BY <1>6, <2>1, <2>2
<1>8. CASE MarkCommitted
  <2>1. /\ UNCHANGED <<job, keeping, todo>> /\ pc' = "reread"
    BY <1>8 DEF MarkCommitted, screen
  <2>. QED
    BY <1>8, <2>1, MarkIntent DEF LedgerInv
<1>9. CASE MarkFails \/ Reread \/ Replace \/ RefreshFails
  <2>1. UNCHANGED <<journal, rows, job, keeping, todo, want>> /\ pc' \notin {"push", "mark"}
    BY <1>9 DEF MarkFails, Reread, Replace, RefreshFails, Advance, store, screen
  <2>. QED
    BY <1>6, <2>1, FrameIntent DEF LedgerInv
<1>10. CASE CommitEnds
  <2>1. /\ UNCHANGED <<journal, keeping, todo, want>> /\ todo = {}
        /\ pc' = "idle" /\ job' = "none"
    BY <1>10 DEF CommitEnds, store
  <2>. QED
    BY <2>1, FrameIntent DEF LedgerInv
<1>. QED
  BY <1>1, <1>3, <1>4, <1>5, <1>7, <1>8, <1>9, <1>10 DEF CommitStep

LEMMA OtherLedgerInv ==
    ASSUME "overlap" \notin Env, TypeOK, LedgerInv,
           \/ \E full \in BOOLEAN : SyncStart(full)
           \/ SyncStep
           \/ \E k \in Keys, f \in Fields, v \in Values : RemoteEdit(k, f, v)
           \/ Crash
           \/ UNCHANGED vars
    PROVE  LedgerInv'
<1>1. NoIntentLost'
  <2>1. UNCHANGED <<journal, want>>
    BY DEF SyncStart, SyncStep, SearchPage, UpsertPage, SyncEnds, RemoteEdit, Crash, store, vars
  <2>. QED
    BY <2>1, FrameIntent DEF LedgerInv
<1>2. ASSUME UNCHANGED <<journal, rows>> PROVE \A k : Unsent(k)' = Unsent(k)
  BY <1>2 DEF Unsent, RowsOf, ListForKey
<1>3. ASSUME NEW full \in BOOLEAN, SyncStart(full) PROVE LedgerInv'
  <2>1. /\ job = "none" /\ keeping.pc = "idle" /\ job' = "sync" /\ pc' = "search"
        /\ UNCHANGED <<keeping, todo>>
    BY <1>3 DEF SyncStart, Acquire, Unguarded, Quiet, screen
  <2>. QED
    BY <1>1, <2>1 DEF LedgerInv
<1>4. CASE SyncStep
  <2>1. /\ job # "commit" /\ job' # "commit" /\ (job' # "none" => job # "none") /\ pc' \notin {"push", "mark"}
        /\ UNCHANGED <<keeping, todo>>
    BY <1>4 DEF SyncStep, SearchPage, UpsertPage, SyncEnds, TypeOK, screen
  <2>. QED
    BY <1>1, <2>1 DEF LedgerInv
<1>5. ASSUME NEW k \in Keys, NEW f \in Fields, NEW v \in Values, RemoteEdit(k, f, v) PROVE LedgerInv'
  <2>1. UNCHANGED <<journal, rows, job, pc, cur, todo, keeping, want>>
    BY <1>5 DEF RemoteEdit, store, engine, screen
  <2>. QED
    BY <1>1, <1>2, <2>1 DEF LedgerInv
<1>6. CASE Crash
  <2>1. job' = "none" /\ pc' = "idle" /\ todo' = {}
    BY <1>6 DEF Crash
  <2>. QED
    BY <1>1, <2>1 DEF LedgerInv
<1>7. CASE UNCHANGED vars
  BY <1>1, <1>2, <1>7 DEF vars, LedgerInv
<1>. QED
  BY <1>3, <1>4, <1>5, <1>6, <1>7

LEMMA LedgerInvariant ==
    ASSUME "overlap" \notin Env
    PROVE  Spec => []LedgerInv
<1>1. Init => LedgerInv
  BY DEF Init, LedgerInv, NoIntentLost
<1>2. TypeOK /\ StoreInv /\ LedgerInv /\ [Next]_vars => LedgerInv'
  BY UserLedgerInv, KeepLedgerInv, CommitLedgerInv, OtherLedgerInv DEF Next
<1>. QED
  BY <1>1, <1>2, TypeCorrect, StoreInvariant, PTL DEF Spec

\* While nobody edits under a job, no change the user asked for is dropped:
\* the journal carries it until Jira has it or the user takes it back.
THEOREM NoChangeIsLost ==
    ASSUME "overlap" \notin Env
    PROVE  Spec => []NoIntentLost
<1>1. LedgerInv => NoIntentLost
  BY DEF LedgerInv
<1>. QED
  BY <1>1, LedgerInvariant, PTL

-----------------------------------------------------------------------------
\* EditCommit implements IntentLedger.

Server == [k \in Keys |-> Fresh(k).val]
Debt   == [k \in Keys |-> Owed(k)]

\* What an issue owes, place by place.
LEMMA OwedAt ==
    ASSUME TypeOK, StoreInv, NEW k \in Keys, NEW f \in Fields
    PROVE  /\ Debt[k][f] = IF RowsAt(journal, EntityIssue, k, f) = {} THEN None
                           ELSE RowAt(journal, EntityIssue, k, f).after
           /\ \A r \in RowsAt(journal, EntityIssue, k, f) : Debt[k][f] = r.after /\ r.after \in Values
<1>1. Debt[k][f] = AfterVal(journal, EntityIssue, k, f, None)
  BY DEF Debt, Owed
<1>2. journal \in SUBSET Rows /\ WellKeyed(journal)
  BY DEF TypeOK, StoreInv, OneRowPerChange
<1>3. ASSUME NEW r \in RowsAt(journal, EntityIssue, k, f) PROVE Debt[k][f] = r.after /\ r.after \in Values
  <2>1. AfterVal(journal, EntityIssue, k, f, None) = r.after
    BY <1>2, AfterValOfRow
  <2>. QED
    BY <1>1, <1>2, <2>1 DEF RowsAt, Rows, PendingChange
<1>. QED
  BY <1>1, <1>3 DEF AfterVal

\* A place that keeps its rows keeps its debt.
LEMMA DebtKept ==
    ASSUME NEW k \in Keys, NEW f \in Fields,
           RowsAt(journal', EntityIssue, k, f) = RowsAt(journal, EntityIssue, k, f)
    PROVE  Debt'[k][f] = Debt[k][f]
<1>1. Debt[k][f] = AfterVal(journal, EntityIssue, k, f, None)
  BY DEF Debt, Owed
<1>2. Debt'[k][f] = AfterVal(journal', EntityIssue, k, f, None)
  BY DEF Debt, Owed
<1>. QED
  BY <1>1, <1>2 DEF AfterVal, RowAt

LEMMA DebtShape ==
    /\ Debt = [k \in Keys |-> [f \in Fields |-> Debt[k][f]]]
    /\ Debt' = [k \in Keys |-> [f \in Fields |-> Debt'[k][f]]]
BY DEF Debt, Owed

LEMMA LedgerStutter ==
    ASSUME UNCHANGED <<jira, journal, want>>
    PROVE  UNCHANGED Ledger!ledger
BY DEF Ledger!ledger, Fresh, Version, Owed

LEMMA EditAsks ==
    ASSUME TypeOK, StoreInv,
           NEW k \in Keys, NEW f \in Fields, NEW v \in Values, EditField(k, f, v)
    PROVE  Ledger!Ask(k, f, v) \/ Ledger!Withdraw({<<k, f>>})
<1>1. /\ issue[k].val[f] \in Values /\ issue[k].updated \in Nat
      /\ journal \in SUBSET Rows /\ nextId \in Nat
      /\ WellKeyed(journal) /\ \A r \in journal : r.id < nextId
  BY DEF EditField, TypeOK, IssueRow, FieldVals, StoreInv, OneRowPerChange
<1>2. journal' = Upsert(journal, nextId, EntityIssue, k, f, issue[k].val[f], v, issue[k].updated)
  BY DEF EditField
<1>3. /\ \A q, g : ~(q = k /\ g = f) =>
            RowsAt(journal', EntityIssue, q, g) = RowsAt(journal, EntityIssue, q, g)
      /\ \A r \in RowsAt(journal', EntityIssue, k, f) : r.after = v
  BY <1>1, <1>2, UpsertPlaces
<1>4. want' = [want EXCEPT ![k] = [want[k] EXCEPT ![f] =
                  IF RowsAt(journal', EntityIssue, k, f) = {} THEN None ELSE v]]
  BY DEF EditField
<1>0. want \in [Keys -> [Fields -> Values \cup {None}]]
  BY DEF TypeOK
<1>5. Server' = Server
  BY DEF Server, Fresh, Version, EditField, remoteVars
<1>6. \A q \in Keys, g \in Fields : ~(q = k /\ g = f) => Debt'[q][g] = Debt[q][g]
  BY <1>3, DebtKept
<1>7. CASE RowsAt(journal', EntityIssue, k, f) = {}
  <2>1. Debt'[k][f] = None
    BY <1>7 DEF Debt, Owed, AfterVal
  <2>2. Debt' = [q \in Keys |-> [g \in Fields |-> IF <<q, g>> \in {<<k, f>>} THEN None ELSE Debt[q][g]]]
    BY <1>6, <2>1, DebtShape
  <2>3. want' = [q \in Keys |-> [g \in Fields |-> IF <<q, g>> \in {<<k, f>>} THEN None ELSE want[q][g]]]
    BY <1>0, <1>4, <1>7
  <2>. QED
    BY <1>5, <2>2, <2>3 DEF Ledger!Withdraw, Server, Debt
<1>8. CASE RowsAt(journal', EntityIssue, k, f) # {}
  <2>1. Debt'[k][f] = v
    <3>1. RowAt(journal', EntityIssue, k, f) \in RowsAt(journal', EntityIssue, k, f)
      BY <1>8 DEF RowAt
    <3>. QED
      BY <1>3, <1>8, <3>1 DEF Debt, Owed, AfterVal
  <2>2. Debt' = [Debt EXCEPT ![k] = [Debt[k] EXCEPT ![f] = v]]
    BY <1>6, <2>1, DebtShape
  <2>3. want' = [want EXCEPT ![k] = [want[k] EXCEPT ![f] = v]]
    BY <1>4, <1>8
  <2>. QED
    BY <1>5, <2>2, <2>3 DEF Ledger!Ask, Server, Debt
<1>. QED
  BY <1>7, <1>8

LEMMA DiscardWithdraws ==
    ASSUME TypeOK, StoreInv, NEW S \in SUBSET journal, Discarded(S), jira' = jira
    PROVE  \E P \in SUBSET (Keys \X Fields) : Ledger!Withdraw(P)
<1>. DEFINE P == {p \in Keys \X Fields : RowsAt(S, EntityIssue, p[1], p[2]) # {}}
<1>1. journal \in SUBSET Rows /\ WellKeyed(journal)
  BY DEF TypeOK, StoreInv, OneRowPerChange
<1>2. journal' = Delete(journal, {r.id : r \in S})
  BY DEF Discarded
<1>3. ASSUME NEW k \in Keys, NEW f \in Fields
      PROVE  /\ Debt'[k][f] = IF <<k, f>> \in P THEN None ELSE Debt[k][f]
             /\ <<k, f>> \in P <=> RowsAt(S, EntityIssue, k, f) # {}
  <2>1. <<k, f>> \in P <=> RowsAt(S, EntityIssue, k, f) # {}
    OBVIOUS
  <2>2. CASE RowsAt(S, EntityIssue, k, f) = {}
    <3>1. RowsAt(journal', EntityIssue, k, f) = RowsAt(journal, EntityIssue, k, f)
      BY <1>1, <1>2, <2>2, DeletedPlaces
    <3>. QED
      BY <2>1, <2>2, <3>1, DebtKept
  <2>3. CASE RowsAt(S, EntityIssue, k, f) # {}
    <3>1. RowsAt(journal', EntityIssue, k, f) = {}
      BY <1>1, <1>2, <2>3, DeletedPlaces
    <3>2. Debt'[k][f] = None
      BY <3>1 DEF Debt, Owed, AfterVal
    <3>. QED
      BY <2>1, <2>3, <3>2
  <2>. QED
    BY <2>2, <2>3, <2>1
<1>. HIDE DEF P
<1>4. Debt' = [k \in Keys |-> [f \in Fields |-> IF <<k, f>> \in P THEN None ELSE Debt[k][f]]]
  BY <1>3, DebtShape
<1>5. want' = [k \in Keys |-> [f \in Fields |-> IF <<k, f>> \in P THEN None ELSE want[k][f]]]
  <2>1. want' = [k \in Keys |-> [f \in Fields |->
                   IF RowsAt(S, EntityIssue, k, f) = {} THEN want[k][f] ELSE None]]
    BY DEF Discarded
  <2>. QED
    BY <1>3, <2>1
<1>6. Server' = Server
  BY DEF Server, Fresh, Version
<1>7. P \in SUBSET (Keys \X Fields)
  BY DEF P
<1>8. Ledger!Withdraw(P)
  BY <1>4, <1>5, <1>6 DEF Ledger!Withdraw, Server, Debt
<1>. QED
  BY <1>7, <1>8

\* A rebased journal owes what it owed.
LEMMA OverrideStutters ==
    ASSUME TypeOK, StoreInv, NEW c \in cards, ResolveOverride(c)
    PROVE  UNCHANGED Ledger!ledger
<1>1. /\ journal \in SUBSET Rows /\ c.remoteVersion \in Nat
      /\ journal' = SetBaseVersion(journal, c.key, c.remoteVersion)
      /\ want' = want /\ jira' = jira
  BY DEF TypeOK, Card, ResolveOverride, remoteVars
<1>2. ASSUME NEW k \in Keys, NEW f \in Fields PROVE Debt'[k][f] = Debt[k][f]
  <2>0. Debt'[k][f] = AfterVal(journal', EntityIssue, k, f, None)
    BY DEF Debt, Owed
  <2>1. CASE RowsAt(journal', EntityIssue, k, f) = {}
    <3>1. RowsAt(journal, EntityIssue, k, f) = {}
      BY <1>1, <2>1, RebasedPlaces
    <3>. QED
      BY <2>0, <2>1, <3>1, OwedAt DEF AfterVal
  <2>2. CASE RowsAt(journal', EntityIssue, k, f) # {}
    <3>1. PICK n \in RowsAt(journal', EntityIssue, k, f) : n = RowAt(journal', EntityIssue, k, f)
      BY <2>2 DEF RowAt
    <3>2. PICK r \in RowsAt(journal, EntityIssue, k, f) : n.after = r.after
      BY <1>1, RebasedPlaces
    <3>3. Debt[k][f] = r.after
      BY OwedAt
    <3>. QED
      BY <2>0, <2>2, <3>1, <3>2, <3>3 DEF AfterVal
  <2>. QED
    BY <2>1, <2>2
<1>3. Debt' = Debt
  BY <1>2, DebtShape
<1>4. Server' = Server
  BY <1>1 DEF Server, Fresh, Version
<1>. QED
  BY <1>1, <1>3, <1>4 DEF Ledger!ledger, Server, Debt

\* What is pushed for an issue is its whole debt.
LEMMA PushLands ==
    ASSUME TypeOK, StoreInv, LedgerInv, pc = "push", Land(cur), journal' = journal
    PROVE  Ledger!Land(cur)
<1>1. /\ cur \in Keys /\ want \in [Keys -> [Fields -> Values \cup {None}]]
      /\ Unsent(cur) /\ None \notin Values
  BY EditCommitAssumption DEF TypeOK, LedgerInv
<1>2. \A f \in Fields : RowsAt(rows, EntityIssue, cur, f) = RowsAt(journal, EntityIssue, cur, f)
  BY <1>1, UnsentRows
<1>3. Debt' = Debt
  BY DebtKept, DebtShape
<1>4. Debt[cur] # [f \in Fields |-> None]
  <2>1. PICK r \in journal : r.key = cur
    BY <1>1 DEF Unsent, ListForKey
  <2>2. r.type = EntityIssue /\ r.field \in Fields /\ r \in RowsAt(journal, EntityIssue, cur, r.field)
    BY <2>1 DEF TypeOK, Rows, PendingChange, RowsAt
  <2>3. Debt[cur][r.field] \in Values
    BY <1>1, <2>2, OwedAt
  <2>. QED
    BY <1>1, <2>2, <2>3
<1>5. /\ jira' = [jira EXCEPT ![cur] = Append(jira[cur], Pushed(cur))]
      /\ jira \in [Keys -> Seq(FieldVals) \ {<<>>}] /\ Pushed(cur) \in FieldVals
  BY <1>1, PushedType DEF Land, TypeOK
<1>6. Server' = [Server EXCEPT ![cur] =
         [f \in Fields |-> IF Debt[cur][f] = None THEN Server[cur][f] ELSE Debt[cur][f]]]
  <2>1. Server'[cur] = Pushed(cur)
    <3>1. jira[cur] \in Seq(FieldVals) /\ jira'[cur] = Append(jira[cur], Pushed(cur))
      BY <1>1, <1>5
    <3>2. Len(jira'[cur]) = Len(jira[cur]) + 1 /\ jira'[cur][Len(jira[cur]) + 1] = Pushed(cur)
      BY <1>5, <3>1
    <3>. QED
      BY <1>1, <3>2 DEF Server, Fresh, Version
  <2>2. ASSUME NEW f \in Fields
        PROVE  Pushed(cur)[f] = IF Debt[cur][f] = None THEN Server[cur][f] ELSE Debt[cur][f]
    <3>1. Pushed(cur)[f] = AfterVal(rows, EntityIssue, cur, f, Server[cur][f])
      BY <1>1 DEF Pushed, Server
    <3>2. Pushed(cur)[f] = IF RowsAt(journal, EntityIssue, cur, f) = {} THEN Server[cur][f]
                           ELSE RowAt(journal, EntityIssue, cur, f).after
      BY <1>2, <3>1 DEF AfterVal, RowAt
    <3>3. CASE RowsAt(journal, EntityIssue, cur, f) = {}
      BY <1>1, <3>2, <3>3, OwedAt
    <3>4. CASE RowsAt(journal, EntityIssue, cur, f) # {}
      <4>1. RowAt(journal, EntityIssue, cur, f) \in RowsAt(journal, EntityIssue, cur, f)
        BY <3>4 DEF RowAt
      <4>. QED
        BY <1>1, <3>2, <3>4, <4>1, OwedAt
    <3>. QED
      BY <3>3, <3>4
  <2>3. Pushed(cur) = [f \in Fields |-> IF Debt[cur][f] = None THEN Server[cur][f] ELSE Debt[cur][f]]
    BY <2>2 DEF Pushed
  <2>4. \A k \in Keys : k # cur => Server'[k] = Server[k]
    BY <1>5 DEF Server, Fresh, Version
  <2>5. Server = [k \in Keys |-> Server[k]] /\ Server' = [k \in Keys |-> Server'[k]]
    BY DEF Server
  <2>. QED
    BY <1>1, <2>1, <2>3, <2>4, <2>5
<1>7. want' = [want EXCEPT ![cur] =
         [f \in Fields |-> IF want[cur][f] = Debt[cur][f] THEN None ELSE want[cur][f]]]
  <2>1. ASSUME NEW f \in Fields
        PROVE  (IF \E r \in RowsAt(rows, EntityIssue, cur, f) : r.after = want[cur][f]
                THEN None ELSE want[cur][f])
               = IF want[cur][f] = Debt[cur][f] THEN None ELSE want[cur][f]
    <3>1. CASE RowsAt(journal, EntityIssue, cur, f) = {}
      BY <1>1, <1>2, <3>1, OwedAt
    <3>2. CASE RowsAt(journal, EntityIssue, cur, f) # {}
      BY <1>1, <1>2, <3>2, OwedAt
    <3>. QED
      BY <3>1, <3>2
  <2>. QED
    BY <1>1, <2>1 DEF Land
<1>. QED
  BY <1>3, <1>4, <1>6, <1>7 DEF Ledger!Land, Ledger!Nothing, Server, Debt

LEMMA MarkSettles ==
    ASSUME TypeOK, StoreInv, LedgerInv, MarkCommitted
    PROVE  Ledger!Settle(cur)
<1>1. /\ pc = "mark" /\ cur \in Keys /\ UNCHANGED <<jira, want>>
      /\ want \in [Keys -> [Fields -> Values \cup {None}]]
  BY DEF MarkCommitted, TypeOK, remoteVars
<1>2. want[cur] = [f \in Fields |-> None]
  BY <1>1 DEF LedgerInv
<1>3. \A k \in Keys, f \in Fields : Debt'[k][f] = IF k = cur THEN None ELSE Debt[k][f]
  <2>1. ASSUME NEW k \in Keys, NEW f \in Fields, k # cur PROVE Debt'[k][f] = Debt[k][f]
    BY <2>1, MarkIntent, DebtKept
  <2>2. ASSUME NEW f \in Fields PROVE Debt'[cur][f] = None
    <3>1. RowsAt(journal', EntityIssue, cur, f) = {}
      BY MarkIntent
    <3>. QED
      BY <1>1, <3>1 DEF Debt, Owed, AfterVal
  <2>. QED
    BY <2>1, <2>2
<1>4. Debt' = [Debt EXCEPT ![cur] = [f \in Fields |-> None]]
  BY <1>1, <1>3, DebtShape
<1>5. Server' = Server
  BY <1>1 DEF Server, Fresh, Version
<1>. QED
  BY <1>1, <1>2, <1>4, <1>5 DEF Ledger!Settle, Ledger!Nothing, Server, Debt

LEMMA RemoteIsElsewhere ==
    ASSUME TypeOK, NEW k \in Keys, NEW f \in Fields, NEW v \in Values, RemoteEdit(k, f, v)
    PROVE  Ledger!Elsewhere(k)
<1>1. jira \in [Keys -> Seq(FieldVals) \ {<<>>}] /\ UNCHANGED <<journal, want>>
  BY DEF TypeOK, RemoteEdit, store
<1>2. Fresh(k).val \in FieldVals
  BY FreshType DEF IssueRow
<1>. DEFINE vals == [jira[k][Len(jira[k])] EXCEPT ![f] = v]
<1>3. vals \in FieldVals
  BY <1>2 DEF Fresh, Version, FieldVals
<1>4. jira' = [jira EXCEPT ![k] = Append(jira[k], vals)]
  BY DEF RemoteEdit
<1>. HIDE DEF vals
<1>5. jira[k] \in Seq(FieldVals) /\ jira'[k] = Append(jira[k], vals)
  BY <1>1, <1>4
<1>6. Len(jira'[k]) = Len(jira[k]) + 1 /\ jira'[k][Len(jira[k]) + 1] = vals
  BY <1>3, <1>5
<1>7. Server'[k] = vals /\ \A q \in Keys : q # k => Server'[q] = Server[q]
  BY <1>1, <1>4, <1>6 DEF Server, Fresh, Version
<1>8. Server' = [Server EXCEPT ![k] = vals]
  <2>1. Server = [q \in Keys |-> Server[q]] /\ Server' = [q \in Keys |-> Server'[q]]
    BY DEF Server
  <2>. QED
    BY <1>7, <2>1
<1>9. Debt' = Debt
  BY <1>1, DebtKept, DebtShape
<1>. QED
  BY <1>1, <1>3, <1>8, <1>9 DEF Ledger!Elsewhere, Server, Debt, FieldVals

LEMMA InitImplements == Init => Ledger!Init
<1>. SUFFICES ASSUME Init PROVE Ledger!Init
  OBVIOUS
<1>1. \A k \in Keys : \E v \in FieldVals : jira[k] = <<v>>
  BY DEF Init
<1>2. ASSUME NEW k \in Keys PROVE Fresh(k).val \in FieldVals
  <2>1. PICK v \in FieldVals : jira[k] = <<v>>
    BY <1>1
  <2>2. Len(jira[k]) = 1 /\ jira[k][1] = v
    BY <2>1
  <2>. QED
    BY <2>2 DEF Fresh, Version
<1>3. Server \in [Keys -> [Fields -> Values]]
  BY <1>2 DEF Server, FieldVals
<1>4. Debt = [k \in Keys |-> [f \in Fields |-> None]]
  BY DEF Init, Debt, Owed, AfterVal, RowsAt
<1>. QED
  BY <1>3, <1>4 DEF Init, Ledger!Init, Ledger!Nothing, Server, Debt

\* Every step asks, withdraws, lands, settles, is somebody else's, or is
\* invisible to the ledger.
LEMMA StepImplements ==
    ASSUME "overlap" \notin Env, TypeOK, StoreInv, LedgerInv, [Next]_vars
    PROVE  [Ledger!Next]_(Ledger!ledger)
<1>1. ASSUME UNCHANGED <<jira, journal, want>> PROVE UNCHANGED Ledger!ledger
  BY <1>1, LedgerStutter
<1>2. CASE UserStep
  <2>1. ASSUME NEW k \in Keys, NEW f \in Fields, NEW v \in Values, EditField(k, f, v)
        PROVE  Ledger!Next
    <3>1. {<<k, f>>} \in SUBSET (Keys \X Fields)
      OBVIOUS
    <3>. QED
      BY <2>1, <3>1, EditAsks DEF Ledger!Next
  <2>2. ASSUME NEW r \in journal, DiscardPendingChange(r) PROVE Ledger!Next
    BY <2>2, DiscardWithdraws DEF DiscardPendingChange, remoteVars, Ledger!Next
  <2>3. CASE DiscardAllPendingChanges
    BY <2>3, DiscardWithdraws DEF DiscardAllPendingChanges, remoteVars, Ledger!Next
  <2>4. ASSUME NEW c \in cards, ResolveOverride(c) PROVE UNCHANGED Ledger!ledger
    BY <2>4, OverrideStutters
  <2>5. ASSUME NEW c \in cards, KeepRead(c) PROVE UNCHANGED Ledger!ledger
    BY <1>1, <2>5 DEF KeepRead, remoteVars, store
  <2>. QED
    BY <1>2, <2>1, <2>2, <2>3, <2>4, <2>5 DEF UserStep
<1>3. CASE KeepDiscard
  <2>1. ListForKey(journal, keeping.card.key) \in SUBSET journal
    BY DEF ListForKey
  <2>. QED
    BY <1>3, <2>1, DiscardWithdraws DEF KeepDiscard, remoteVars, Ledger!Next
<1>4. CASE KeepReplace \/ KeepFails \/ CommitStart
  BY <1>1, <1>4 DEF KeepReplace, KeepFails, CommitStart, remoteVars, store
<1>5. CASE CommitStep
  <2>1. CASE Push \/ PushFails
    <3>1. pc = "push" /\ cur \in Keys /\ journal' = journal /\ (Land(cur) \/ UNCHANGED <<jira, want>>)
      BY <2>1 DEF Push, PushFails, TypeOK, remoteVars, store
    <3>2. CASE Land(cur)
      BY <3>1, <3>2, PushLands DEF Ledger!Next
    <3>3. CASE UNCHANGED <<jira, want>>
      BY <1>1, <3>1, <3>3
    <3>. QED
      BY <3>1, <3>2, <3>3
  <2>2. CASE MarkCommitted
    <3>1. cur \in Keys
      BY <2>2 DEF MarkCommitted, TypeOK
    <3>. QED
      BY <2>2, <3>1, MarkSettles DEF Ledger!Next
  <2>3. CASE (\E k \in Keys : Check(k) \/ CheckFails(k)) \/ MarkFails \/ Reread \/ Replace
             \/ RefreshFails \/ CommitEnds
    <3>1. UNCHANGED <<jira, journal, want>>
      BY <2>3 DEF Check, CheckFails, MarkFails, Reread, Replace, RefreshFails, CommitEnds,
                  remoteVars, store
    <3>. QED
      BY <1>1, <3>1
  <2>. QED
    BY <1>5, <2>1, <2>2, <2>3 DEF CommitStep
<1>6. CASE (\E full \in BOOLEAN : SyncStart(full)) \/ SyncStep \/ Crash \/ UNCHANGED vars
  <2>1. UNCHANGED <<jira, journal, want>>
    BY <1>6 DEF SyncStart, SyncStep, SearchPage, UpsertPage, SyncEnds, Crash, remoteVars, store, vars
  <2>. QED
    BY <1>1, <2>1
<1>7. ASSUME NEW k \in Keys, NEW f \in Fields, NEW v \in Values, RemoteEdit(k, f, v)
      PROVE  Ledger!Next
  BY <1>7, RemoteIsElsewhere DEF Ledger!Next
<1>. QED
  BY <1>2, <1>3, <1>4, <1>5, <1>6, <1>7 DEF Next

\* The cache, the versions, the failures and the steps in between implement
\* the promise of IntentLedger: a debt lands whole, and leaves the journal
\* only when it has landed or the user took it back.
THEOREM LedgerImplemented ==
    ASSUME "overlap" \notin Env
    PROVE  Spec => ImplementsLedger
<1>1. Init => Ledger!Init
  BY InitImplements
<1>2. TypeOK /\ StoreInv /\ LedgerInv /\ [Next]_vars => [Ledger!Next]_(Ledger!ledger)
  BY StepImplements
<1>. QED
  BY <1>1, <1>2, TypeCorrect, StoreInvariant, LedgerInvariant, PTL
     DEF Spec, ImplementsLedger, Ledger!Spec

-----------------------------------------------------------------------------
\* The oldest row of an issue has its lowest base.  What an edit is made
\* against never runs behind the rows that are there: neither the cache nor
\* anything about to land in it is older than they are.

Since(k, row) == row.updated <= Version(k) /\ \A r \in journal : r.key = k => r.base <= row.updated

BaseInv ==
    /\ \A r \in journal : r.base <= Version(r.key)
    /\ \A k \in Keys : issue[k] # None => Since(k, issue[k])
    /\ pc = "land" => \A k \in DOMAIN page : Since(k, page[k])
    /\ pc = "replace" => Since(cur, read)
    /\ keeping.pc # "idle" => Since(keeping.card.key, keeping.read)
    /\ OldestBaseIsLowest

\* Jira's versions only grow.
LEMMA VersionsGrow ==
    ASSUME TypeOK, [Next]_vars, NEW k \in Keys
    PROVE  Version(k) \in Nat /\ Version(k)' \in Nat /\ Version(k) <= Version(k)'
<1>1. jira[k] \in Seq(FieldVals) /\ jira \in [Keys -> Seq(FieldVals) \ {<<>>}]
  BY DEF TypeOK
<1>2. ASSUME jira'[k] = jira[k] PROVE Version(k)' = Version(k)
  BY <1>2 DEF Version
<1>3. Version(k) \in Nat
  BY FreshType
<1>4. ASSUME NEW q \in Keys, NEW x \in FieldVals, jira' = [jira EXCEPT ![q] = Append(jira[q], x)]
      PROVE  Version(k)' \in Nat /\ Version(k) <= Version(k)'
  <2>1. CASE q = k
    <3>1. jira'[k] = Append(jira[k], x)
      BY <1>1, <1>4, <2>1
    <3>2. Len(jira'[k]) = Len(jira[k]) + 1
      BY <1>1, <3>1
    <3>. QED
      BY <1>3, <3>2 DEF Version
  <2>2. CASE q # k
    BY <1>1, <1>2, <1>3, <1>4, <2>2
  <2>. QED
    BY <2>1, <2>2
<1>5. ASSUME UNCHANGED jira PROVE Version(k)' = Version(k)
  BY <1>2, <1>5
<1>6. CASE Push \/ PushFails
  <2>1. cur \in Keys /\ (Land(cur) \/ UNCHANGED jira)
    BY <1>6 DEF Push, PushFails, TypeOK, remoteVars
  <2>2. CASE Land(cur)
    BY <1>3, <1>4, <2>1, <2>2, PushedType DEF Land
  <2>. QED
    BY <1>3, <1>5, <2>1, <2>2
<1>7. ASSUME NEW q \in Keys, NEW f \in Fields, NEW v \in Values, RemoteEdit(q, f, v)
      PROVE  Version(k)' \in Nat /\ Version(k) <= Version(k)'
  <2>. DEFINE vals == [jira[q][Len(jira[q])] EXCEPT ![f] = v]
  <2>1. Fresh(q).val \in FieldVals
    BY FreshType DEF IssueRow
  <2>2. vals \in FieldVals
    BY <2>1 DEF Fresh, Version, FieldVals
  <2>3. jira' = [jira EXCEPT ![q] = Append(jira[q], vals)]
    BY <1>7 DEF RemoteEdit
  <2>. HIDE DEF vals
  <2>. QED
    BY <1>4, <2>2, <2>3
<1>8. \/ UNCHANGED jira
      \/ Push \/ PushFails
      \/ \E q \in Keys, f \in Fields, v \in Values : RemoteEdit(q, f, v)
  BY DEF Next, vars, UserStep, CommitStep, SyncStep, EditField, DiscardPendingChange,
         DiscardAllPendingChanges, ResolveOverride, KeepRead, KeepDiscard, KeepReplace, KeepFails,
         CommitStart, Check, CheckFails, MarkCommitted, MarkFails, Reread, Replace, RefreshFails,
         CommitEnds, SyncStart, SearchPage, UpsertPage, SyncEnds, Crash, remoteVars
<1>. QED
  BY <1>3, <1>5, <1>6, <1>7, <1>8

\* A row that lands is as new as what it was read from.
LEMMA ReapplyKeepsVersion ==
    ASSUME NEW j, NEW k, NEW row \in IssueRow
    PROVE  reapplyPending(j, k, row).updated = row.updated
BY DEF reapplyPending, IssueRow

\* Where every row left was there before with its base, and Jira only grew,
\* what was new enough stays so.
BasesKept == \A n \in journal' : \E s \in journal : n.id = s.id /\ n.key = s.key /\ n.base = s.base

LEMMA SinceKept ==
    ASSUME TypeOK, [Next]_vars, BasesKept, NEW k \in Keys, NEW row \in IssueRow, Since(k, row)
    PROVE  row.updated <= Version(k)' /\ \A r \in journal' : r.key = k => r.base <= row.updated
<1>1. row.updated \in Nat
  BY DEF IssueRow
<1>2. row.updated <= Version(k)'
  BY <1>1, VersionsGrow DEF Since
<1>3. \A r \in journal' : r.key = k => r.base <= row.updated
  BY DEF BasesKept, Since
<1>. QED
  BY <1>2, <1>3

LEMMA OrderKept ==
    ASSUME TypeOK, TypeOK', [Next]_vars, BaseInv, BasesKept
    PROVE  /\ OldestBaseIsLowest'
           /\ \A r \in journal' : r.base <= Version(r.key)'
<1>1. OldestBaseIsLowest'
  BY DEF BasesKept, BaseInv, OldestBaseIsLowest
<1>2. ASSUME NEW r \in journal' PROVE r.base <= Version(r.key)'
  <2>1. PICK s \in journal : r.key = s.key /\ r.base = s.base
    BY DEF BasesKept
  <2>2. s.key \in Keys /\ s.base \in Nat /\ s.base <= Version(s.key)
    BY DEF TypeOK, Rows, PendingChange, BaseInv
  <2>3. Version(s.key) \in Nat /\ Version(s.key)' \in Nat /\ Version(s.key) <= Version(s.key)'
    BY <2>2, VersionsGrow
  <2>4. s.base <= Version(s.key)'
    BY <2>2, <2>3
  <2>. QED
    BY <2>1, <2>4 DEF Version
<1>. QED
  BY <1>1, <1>2

\* A version at least as new as all an issue's rows were made against.
Current(k, version) == \E row \in IssueRow : Since(k, row) /\ row.updated = version

LEMMA FreshIsCurrent ==
    ASSUME TypeOK, BaseInv, NEW k \in Keys
    PROVE  Current(k, Fresh(k).updated)
<1>1. Fresh(k) \in IssueRow /\ Fresh(k).updated = Version(k) /\ Version(k) \in Nat
  BY FreshType DEF Fresh
<1>2. Since(k, Fresh(k))
  BY <1>1 DEF Since, BaseInv
<1>. QED
  BY <1>1, <1>2 DEF Current

LEMMA CachedIsCurrent ==
    ASSUME TypeOK, BaseInv, NEW k \in Keys, issue[k] # None
    PROVE  Current(k, issue[k].updated)
BY DEF TypeOK, BaseInv, Current

\* Where no row is new, the invariant rests on what lands being current.
LEMMA BaseFrame ==
    ASSUME TypeOK, TypeOK', [Next]_vars, BaseInv, BasesKept,
           \A k \in Keys : issue'[k] # None => Current(k, issue'[k].updated),
           pc' = "land" => \A k \in DOMAIN page' : Current(k, page'[k].updated),
           pc' = "replace" => Current(cur', read'.updated),
           keeping'.pc # "idle" => Current(keeping'.card.key, keeping'.read.updated)
    PROVE  BaseInv'
<1>1. ASSUME NEW k \in Keys, NEW row, Current(k, row.updated)
      PROVE  row.updated <= Version(k)' /\ \A r \in journal' : r.key = k => r.base <= row.updated
  BY <1>1, SinceKept DEF Current
<1>2. ASSUME NEW k \in Keys, issue'[k] # None PROVE Since(k, issue[k])'
  BY <1>1, <1>2 DEF Since
<1>3. ASSUME pc' = "land", NEW k \in DOMAIN page' PROVE Since(k, page[k])'
  <2>1. k \in Keys
    BY <1>3 DEF TypeOK
  <2>. QED
    BY <1>1, <1>3, <2>1 DEF Since
<1>4. ASSUME pc' = "replace" PROVE Since(cur, read)'
  <2>1. PICK k \in Keys : k = cur'
    BY <1>4 DEF TypeOK
  <2>2. Current(k, read'.updated)
    BY <1>4, <2>1
  <2>3. read'.updated <= Version(k)' /\ \A r \in journal' : r.key = k => r.base <= read'.updated
    BY <1>1, <2>2
  <2>. QED
    BY <2>1, <2>3 DEF Since, Version
<1>5. ASSUME keeping'.pc # "idle" PROVE Since(keeping.card.key, keeping.read)'
  <2>1. PICK k \in Keys : k = keeping'.card.key
    BY <1>5 DEF TypeOK, NotKeeping, Card
  <2>2. Current(k, keeping'.read.updated)
    BY <1>5, <2>1
  <2>3. /\ keeping'.read.updated <= Version(k)'
        /\ \A r \in journal' : r.key = k => r.base <= keeping'.read.updated
    BY <1>1, <2>2
  <2>. QED
    BY <2>1, <2>3 DEF Since, Version
<1>6. OldestBaseIsLowest' /\ \A r \in journal' : r.base <= Version(r.key)'
  BY OrderKept
<1>7. \A r \in journal' : (r.base <= Version(r.key))'
  BY <1>6 DEF Version
<1>. QED
  BY <1>2, <1>3, <1>4, <1>5, <1>6, <1>7 DEF BaseInv

\* An edit takes the version its issue is cached at, and the newest id.
LEMMA EditBaseInv ==
    ASSUME TypeOK, TypeOK', StoreInv, BaseInv, Quiet,
           NEW k \in Keys, NEW f \in Fields, NEW v \in Values, EditField(k, f, v)
    PROVE  BaseInv'
<1>1. /\ issue[k] \in IssueRow /\ issue[k] # None /\ issue[k].val[f] \in Values
      /\ issue[k].updated \in Nat /\ journal \subseteq Rows /\ nextId \in Nat
      /\ \A r \in journal : r.id < nextId /\ r.id \in Nat /\ r.base \in Nat /\ r.key \in Keys
  <2>1. issue[k] \in IssueRow /\ issue[k] # None
    BY DEF EditField, TypeOK
  <2>2. issue[k].val[f] \in Values /\ issue[k].updated \in Nat
    BY <2>1 DEF IssueRow, FieldVals
  <2>3. journal \subseteq Rows /\ nextId \in Nat
    BY DEF TypeOK
  <2>4. \A r \in journal : r.id \in Nat /\ r.base \in Nat /\ r.key \in Keys
    BY <2>3 DEF Rows, PendingChange
  <2>5. \A r \in journal : r.id < nextId
    BY DEF StoreInv, OneRowPerChange
  <2>. QED
    BY <2>1, <2>2, <2>3, <2>4, <2>5
<1>2. journal' = Upsert(journal, nextId, EntityIssue, k, f, issue[k].val[f], v, issue[k].updated)
  BY DEF EditField
<1>3. ASSUME NEW r \in journal'
      PROVE  \/ \E s \in journal : r.id = s.id /\ r.key = s.key /\ r.base = s.base
             \/ r.id = nextId /\ r.key = k /\ r.base = issue[k].updated
  <2>1. \/ r \in journal
        \/ r.key = k /\ r.base = issue[k].updated /\ r.id = nextId
        \/ r.key = k /\ \E s \in RowsAt(journal, EntityIssue, k, f) : r.id = s.id /\ r.base = s.base
    BY <1>1, <1>2, UpsertRows DEF Rows
  <2>. QED
    BY <2>1 DEF RowsAt
<1>4. /\ issue' = [issue EXCEPT ![k] = [issue[k] EXCEPT !.val = [issue[k].val EXCEPT ![f] = v]]]
      /\ jira' = jira /\ pc' = pc /\ keeping' = keeping
  BY DEF EditField, remoteVars, engine, screen
<1>5. \A q \in Keys : issue'[q] # None =>
          issue[q] # None /\ issue'[q].updated = issue[q].updated
  <2>1. issue'[k].updated = issue[k].updated
    BY <1>1, <1>4 DEF TypeOK, IssueRow
  <2>2. \A q \in Keys : q # k => issue'[q] = issue[q]
    BY <1>4 DEF TypeOK
  <2>. QED
    BY <1>1, <2>1, <2>2
<1>6. pc' = "idle" /\ keeping'.pc = "idle"
  BY <1>4 DEF Quiet, TypeOK
<1>7. Since(k, issue[k]) /\ Version(k) \in Nat
  BY <1>1, FreshType DEF BaseInv
<1>8. ASSUME NEW r \in journal' PROVE (r.base <= Version(r.key))'
  BY <1>3, <1>4, <1>7 DEF BaseInv, Since, Version
<1>9. ASSUME NEW q \in Keys, issue'[q] # None PROVE Since(q, issue[q])'
  <2>1. issue[q] # None /\ issue'[q].updated = issue[q].updated
    BY <1>5, <1>9
  <2>4. Since(q, issue[q])
    BY <2>1 DEF BaseInv
  <2>2. issue[q].updated \in Nat
    BY <2>1 DEF TypeOK, IssueRow
  <2>3. ASSUME NEW r \in journal', r.key = q PROVE r.base <= issue[q].updated
    BY <1>3, <2>2, <2>3, <2>4 DEF Since
  <2>. QED
    BY <1>4, <2>1, <2>3, <2>4 DEF Since, Version
<1>10. ASSUME NEW r \in journal', NEW s \in journal', r.key = s.key, r.id < s.id
       PROVE  r.base <= s.base
  <2>1. CASE r.id = nextId
    BY <1>1, <1>3, <1>10, <2>1
  <2>2. CASE r.id # nextId
    <3>1. PICK p \in journal : r.id = p.id /\ r.key = p.key /\ r.base = p.base
      BY <1>3, <2>2
    <3>2. CASE \E q \in journal : s.id = q.id /\ s.key = q.key /\ s.base = q.base
      BY <1>10, <3>1, <3>2 DEF BaseInv, OldestBaseIsLowest
    <3>3. CASE s.key = k /\ s.base = issue[k].updated
      BY <1>7, <1>10, <3>1, <3>3 DEF Since
    <3>. QED
      BY <1>3, <3>2, <3>3
  <2>. QED
    BY <2>1, <2>2
<1>. QED
  BY <1>6, <1>8, <1>9, <1>10 DEF BaseInv, OldestBaseIsLowest

\* What is about to land is current already.
LEMMA HeldIsCurrent ==
    ASSUME TypeOK, BaseInv
    PROVE  /\ pc = "land" => \A k \in DOMAIN page : Current(k, page[k].updated)
           /\ pc = "replace" => Current(cur, read.updated)
           /\ keeping.pc # "idle" => Current(keeping.card.key, keeping.read.updated)
<1>1. pc = "land" => \A k \in DOMAIN page : page[k] \in IssueRow /\ Since(k, page[k])
  BY DEF TypeOK, BaseInv
<1>2. pc = "replace" => read \in IssueRow /\ Since(cur, read)
  BY DEF TypeOK, BaseInv
<1>3. keeping.pc # "idle" => keeping.read \in IssueRow /\ Since(keeping.card.key, keeping.read)
  BY DEF TypeOK, BaseInv, NotKeeping
<1>. QED
  BY <1>1, <1>2, <1>3 DEF Current

\* Discarding takes rows away and leaves every cached version alone.
LEMMA DiscardKeepsBases ==
    ASSUME TypeOK, BaseInv, NEW S \in SUBSET journal, Discarded(S)
    PROVE  /\ BasesKept
           /\ \A k \in Keys : issue'[k] # None => Current(k, issue'[k].updated)
<1>1. BasesKept
  BY DiscardedType DEF BasesKept
<1>2. ASSUME NEW k \in Keys, issue'[k] # None PROVE Current(k, issue'[k].updated)
  <2>1. issue[k] # None
    BY <1>2 DEF Discarded
  <2>2. issue[k] \in IssueRow
    BY <2>1 DEF TypeOK
  <2>3. issue'[k] = [issue[k] EXCEPT !.val =
                      [f \in Fields |-> BeforeVal(S, EntityIssue, k, f, issue[k].val[f])]]
    BY <2>1 DEF Discarded
  <2>4. issue'[k].updated = issue[k].updated
    BY <2>2, <2>3 DEF IssueRow
  <2>. QED
    BY <2>1, <2>4, CachedIsCurrent
<1>. QED
  BY <1>1, <1>2

\* A row that lands is as new as what was read.
LEMMA ReplaceIsCurrent ==
    ASSUME TypeOK, BaseInv, NEW k \in Keys, NEW fresh \in IssueRow, ReplaceRow(k, fresh),
           Current(k, fresh.updated), NEW q \in Keys, issue'[q] # None
    PROVE  Current(q, issue'[q].updated)
<1>1. CASE q = k
  <2>1. issue'[q] = reapplyPending(journal, k, fresh)
    BY <1>1 DEF ReplaceRow, TypeOK
  <2>2. issue'[q].updated = fresh.updated
    BY <2>1, ReapplyKeepsVersion
  <2>. QED
    BY <1>1, <2>2
<1>2. CASE q # k
  <2>1. issue'[q] = issue[q]
    BY <1>2 DEF ReplaceRow, TypeOK
  <2>. QED
    BY <2>1, CachedIsCurrent
<1>. QED
  BY <1>1, <1>2

LEMMA PageIsCurrent ==
    ASSUME TypeOK, BaseInv, UpsertPage, NEW q \in Keys, issue'[q] # None
    PROVE  Current(q, issue'[q].updated)
<1>1. CASE q \in DOMAIN page
  <2>1. page[q] \in IssueRow
    BY <1>1 DEF TypeOK
  <2>2. issue'[q] = reapplyPending(journal, q, page[q])
    BY <1>1 DEF UpsertPage
  <2>3. issue'[q].updated = page[q].updated
    BY <2>1, <2>2, ReapplyKeepsVersion
  <2>4. Current(q, page[q].updated)
    BY <1>1, HeldIsCurrent DEF UpsertPage
  <2>. QED
    BY <2>3, <2>4
<1>2. CASE q \notin DOMAIN page
  <2>1. issue'[q] = issue[q]
    BY <1>2 DEF UpsertPage
  <2>. QED
    BY <2>1, CachedIsCurrent
<1>. QED
  BY <1>1, <1>2

\* The user's steps, and the steps of a resolution.
LEMMA UserBaseInv ==
    ASSUME "overlap" \notin Env, "override" \notin Env, TypeOK, TypeOK', StoreInv, BaseInv,
           UserStep \/ KeepDiscard \/ KeepReplace \/ KeepFails
    PROVE  BaseInv'
<1>1. [Next]_vars
  BY DEF Next
<1>2. ASSUME NEW k \in Keys, NEW f \in Fields, NEW v \in Values, EditField(k, f, v) PROVE BaseInv'
  BY <1>2, EditBaseInv DEF EditField, Unguarded
<1>3. ASSUME NEW S \in SUBSET journal, Discarded(S), UNCHANGED <<jira, engine>>,
             keeping'.pc # "idle" =>
                 /\ keeping.pc # "idle" /\ keeping'.card = keeping.card /\ keeping'.read = keeping.read
      PROVE  BaseInv'
  <2>1. pc' = pc /\ page' = page /\ cur' = cur /\ read' = read
    BY <1>3 DEF engine
  <2>2. BasesKept /\ \A k \in Keys : issue'[k] # None => Current(k, issue'[k].updated)
    BY <1>3, DiscardKeepsBases
  <2>. QED
    BY <1>1, <1>3, <2>1, <2>2, HeldIsCurrent, BaseFrame
<1>4. ASSUME NEW r \in journal, DiscardPendingChange(r) PROVE BaseInv'
  BY <1>3, <1>4 DEF DiscardPendingChange, remoteVars, screen
<1>5. CASE DiscardAllPendingChanges
  BY <1>3, <1>5 DEF DiscardAllPendingChanges, remoteVars, screen
<1>6. CASE KeepDiscard
  <2>1. keeping \in [pc: {"discard", "replace"}, card: Card, read: IssueRow]
    BY <1>6 DEF KeepDiscard, TypeOK, NotKeeping
  <2>2. keeping'.card = keeping.card /\ keeping'.read = keeping.read
    BY <1>6, <2>1 DEF KeepDiscard
  <2>. QED
    BY <1>3, <1>6, <2>2 DEF KeepDiscard, ListForKey, remoteVars
<1>7. ASSUME NEW c \in cards, KeepRead(c) PROVE BaseInv'
  <2>1. c.key \in Keys
    BY DEF TypeOK, Card
  <2>2. /\ keeping' = [pc |-> "discard", card |-> c, read |-> Fresh(c.key)]
        /\ UNCHANGED <<jira, issue, journal, pc, cur, read, page>>
    BY <1>7 DEF KeepRead, remoteVars, store, engine
  <2>3. BasesKept
    BY <2>2 DEF BasesKept
  <2>4. Current(keeping'.card.key, keeping'.read.updated)
    BY <2>1, <2>2, FreshIsCurrent
  <2>. QED
    BY <1>1, <2>2, <2>3, <2>4, HeldIsCurrent, CachedIsCurrent, BaseFrame
<1>8. CASE KeepReplace
  <2>1. keeping.card.key \in Keys /\ keeping.read \in IssueRow /\ keeping.pc # "idle"
    BY <1>8 DEF KeepReplace, TypeOK, NotKeeping, Card
  <2>2. ReplaceRow(keeping.card.key, keeping.read) /\ keeping'.pc = "idle"
        /\ UNCHANGED <<journal, pc, cur, read, page>>
    BY <1>8 DEF KeepReplace, NotKeeping, engine
  <2>3. BasesKept
    BY <2>2 DEF BasesKept
  <2>4. Current(keeping.card.key, keeping.read.updated)
    BY <2>1, HeldIsCurrent
  <2>5. \A k \in Keys : issue'[k] # None => Current(k, issue'[k].updated)
    BY <2>1, <2>2, <2>4, ReplaceIsCurrent
  <2>. QED
    BY <1>1, <2>2, <2>3, <2>5, HeldIsCurrent, BaseFrame
<1>9. CASE KeepFails
  <2>1. keeping'.pc = "idle" /\ UNCHANGED <<issue, journal, pc, cur, read, page>>
    BY <1>9 DEF KeepFails, NotKeeping, store, engine
  <2>2. BasesKept
    BY <2>1 DEF BasesKept
  <2>. QED
    BY <1>1, <2>1, <2>2, HeldIsCurrent, CachedIsCurrent, BaseFrame
<1>. QED
  BY <1>2, <1>4, <1>5, <1>6, <1>7, <1>8, <1>9 DEF UserStep, ResolveOverride

\* A Commit's steps.
LEMMA CommitBaseInv ==
    ASSUME TypeOK, TypeOK', BaseInv, CommitStart \/ CommitStep PROVE BaseInv'
<1>1. [Next]_vars
  BY DEF Next
<1>2. keeping' = keeping /\ page' = page
  BY DEF CommitStart, CommitStep, Check, CheckFails, Push, PushFails, MarkCommitted, MarkFails,
         Reread, Replace, RefreshFails, CommitEnds, screen
<1>3. ASSUME journal' \subseteq journal, issue' = issue, pc' \notin {"land", "replace"}
      PROVE  BaseInv'
  <2>1. BasesKept
    BY <1>3 DEF BasesKept
  <2>. QED
    BY <1>1, <1>2, <1>3, <2>1, HeldIsCurrent, CachedIsCurrent, BaseFrame
<1>4. CASE CommitStart \/ (\E k \in Keys : CheckFails(k)) \/ Push \/ PushFails \/ MarkFails
           \/ RefreshFails \/ CommitEnds
  <2>1. journal' = journal /\ issue' = issue
    BY <1>4 DEF CommitStart, CheckFails, Push, PushFails, MarkFails, RefreshFails, CommitEnds, store
  <2>2. pc' \notin {"land", "replace"}
    BY <1>4 DEF CommitStart, CheckFails, Push, PushFails, MarkFails, RefreshFails, CommitEnds, Advance
  <2>. QED
    BY <1>3, <2>1, <2>2
<1>5. ASSUME NEW k \in Keys, Check(k) PROVE BaseInv'
  <2>1. journal' = journal /\ issue' = issue
    BY <1>5 DEF Check, store
  <2>2. pc' \notin {"land", "replace"}
    BY <1>5 DEF Check
  <2>. QED
    BY <1>3, <2>1, <2>2
<1>6. CASE MarkCommitted
  BY <1>3, <1>6 DEF MarkCommitted, Delete
<1>7. CASE Reread
  <2>1. /\ cur \in Keys /\ read' = Fresh(cur) /\ cur' = cur /\ pc' = "replace"
        /\ UNCHANGED <<issue, journal>>
    BY <1>7 DEF Reread, TypeOK, store
  <2>2. BasesKept
    BY <2>1 DEF BasesKept
  <2>3. Current(cur', read'.updated)
    BY <2>1, FreshIsCurrent
  <2>. QED
    BY <1>1, <1>2, <2>1, <2>2, <2>3, HeldIsCurrent, CachedIsCurrent, BaseFrame
<1>8. CASE Replace
  <2>1. cur \in Keys /\ read \in IssueRow /\ pc = "replace"
    BY <1>8 DEF Replace, TypeOK
  <2>2. ReplaceRow(cur, read) /\ journal' = journal /\ pc' = "next"
    BY <1>8 DEF Replace, Advance
  <2>3. BasesKept
    BY <2>2 DEF BasesKept
  <2>4. Current(cur, read.updated)
    BY <2>1, HeldIsCurrent
  <2>5. \A k \in Keys : issue'[k] # None => Current(k, issue'[k].updated)
    BY <2>1, <2>2, <2>4, ReplaceIsCurrent
  <2>. QED
    BY <1>1, <1>2, <2>2, <2>3, <2>5, HeldIsCurrent, BaseFrame
<1>. QED
  BY <1>4, <1>5, <1>6, <1>7, <1>8 DEF CommitStep

\* The steps of a sync, of Jira's other users, and a crash.
LEMMA OtherBaseInv ==
    ASSUME TypeOK, TypeOK', BaseInv, [Next]_vars,
           \/ (\E full \in BOOLEAN : SyncStart(full)) \/ SyncStep
           \/ (\E k \in Keys, f \in Fields, v \in Values : RemoteEdit(k, f, v))
           \/ Crash \/ UNCHANGED vars
    PROVE  BaseInv'
<1>1. journal' = journal
  BY DEF SyncStart, SyncStep, SearchPage, UpsertPage, SyncEnds, RemoteEdit, Crash, store, vars
<1>2. BasesKept
  BY <1>1 DEF BasesKept
<1>3. keeping' = keeping \/ keeping'.pc = "idle"
  <2>1. CASE Crash
    BY <2>1 DEF Crash, NotKeeping
  <2>2. CASE ~Crash
    BY <2>2 DEF SyncStart, SyncStep, SearchPage, UpsertPage, SyncEnds, RemoteEdit, screen, vars
  <2>. QED
    BY <2>1, <2>2
<1>4. ASSUME issue' = issue,
             \/ pc' \notin {"land", "replace"}
             \/ pc' = pc /\ cur' = cur /\ read' = read /\ page' = page
      PROVE  BaseInv'
  BY <1>2, <1>3, <1>4, HeldIsCurrent, CachedIsCurrent, BaseFrame
<1>5. CASE (\E full \in BOOLEAN : SyncStart(full)) \/ SyncEnds \/ Crash
  <2>1. issue' = issue
    BY <1>5 DEF SyncStart, SyncEnds, Crash, store
  <2>2. pc' \notin {"land", "replace"}
    BY <1>5 DEF SyncStart, SyncEnds, Crash
  <2>. QED
    BY <1>4, <2>1, <2>2
<1>6. CASE (\E k \in Keys, f \in Fields, v \in Values : RemoteEdit(k, f, v)) \/ UNCHANGED vars
  BY <1>4, <1>6 DEF RemoteEdit, store, engine, vars
<1>7. ASSUME NEW K \in SUBSET Keys, SearchPage(K) PROVE BaseInv'
  <2>1. issue' = issue /\ pc' = "land" /\ page' = [k \in K |-> Fresh(k)]
    BY <1>7 DEF SearchPage, store
  <2>2. \A k \in DOMAIN page' : Current(k, page'[k].updated)
    BY <2>1, FreshIsCurrent
  <2>. QED
    BY <1>2, <1>3, <2>1, <2>2, HeldIsCurrent, CachedIsCurrent, BaseFrame
<1>8. CASE UpsertPage
  <2>1. pc' = "search"
    BY <1>8 DEF UpsertPage
  <2>2. \A k \in Keys : issue'[k] # None => Current(k, issue'[k].updated)
    BY <1>8, PageIsCurrent
  <2>. QED
    BY <1>2, <1>3, <2>1, <2>2, HeldIsCurrent, BaseFrame
<1>. QED
  BY <1>5, <1>6, <1>7, <1>8 DEF SyncStep

LEMMA BaseInvariant ==
    ASSUME "overlap" \notin Env, "override" \notin Env
    PROVE  Spec => []BaseInv
<1>1. Init => BaseInv
  <2>. SUFFICES ASSUME Init PROVE BaseInv
    OBVIOUS
  <2>1. journal = {} /\ pc = "idle" /\ keeping.pc = "idle"
    BY DEF Init, NotKeeping
  <2>2. \A k \in Keys : issue[k].updated = Version(k) /\ Version(k) \in Nat
    BY InitTypeOK, FreshType DEF Init, Fresh
  <2>3. \A k \in Keys : Since(k, issue[k])
    BY <2>1, <2>2 DEF Since
  <2>. QED
    BY <2>1, <2>3 DEF BaseInv, OldestBaseIsLowest
<1>2. TypeOK /\ TypeOK' /\ StoreInv /\ BaseInv /\ [Next]_vars => BaseInv'
  BY UserBaseInv, CommitBaseInv, OtherBaseInv DEF Next
<1>. QED
  BY <1>1, <1>2, TypeCorrect, StoreInvariant, PTL DEF Spec

\* The version check may read the oldest row alone: among the rows of an
\* issue none that came later was made against an earlier version.  Nobody
\* edits while a job runs, and no conflict is overridden: an override rebases
\* the rows past the version the cache still holds.
THEOREM OldestIsLowest ==
    ASSUME "overlap" \notin Env, "override" \notin Env
    PROVE  Spec => []OldestBaseIsLowest
<1>1. BaseInv => OldestBaseIsLowest
  BY DEF BaseInv
<1>. QED
  BY <1>1, BaseInvariant, PTL
-----------------------------------------------------------------------------
\* What a push replaces is what the user saw.  An issue cached at its last
\* version shows, under the pending edits, what Jira has; every edit of it
\* was made against that version.

ReadOf(k, row) == row.updated <= Version(k) /\ (row.updated = Version(k) => row.val = Fresh(k).val)

Original(k, f) == BeforeVal(journal, EntityIssue, k, f, issue[k].val[f])

Honest(k) ==
    /\ issue[k] # None
    /\ issue[k].updated <= Version(k)
    /\ \A r \in ListForKey(journal, k) : r.base = issue[k].updated
    /\ issue[k].updated = Version(k) => \A f \in Fields : Original(k, f) = Fresh(k).val[f]

SeenInv ==
    /\ job # "sync"
    /\ \A k \in Keys : Honest(k)
    /\ pc = "push" => Version(cur) = issue[cur].updated
    /\ pc = "mark" => issue[cur].updated < Version(cur)
    /\ pc \in {"reread", "replace"} => ListForKey(journal, cur) = {}
    /\ pc = "replace" => ReadOf(cur, read)
    /\ keeping.pc # "idle" => ReadOf(keeping.card.key, keeping.read)
    /\ keeping.pc = "replace" => ListForKey(journal, keeping.card.key) = {}

\* A step leaves an issue's history alone or adds to it; nobody adds to the
\* one about to be pushed but the push.
LEMMA HistoryGrows ==
    ASSUME TypeOK, [Next]_vars, NEW k \in Keys
    PROVE  \/ jira'[k] = jira[k]
           \/ /\ Version(k)' = Version(k) + 1
              /\ "race" \notin Env /\ pc = "push" /\ cur = k => Push \/ PushFails
<1>1. jira[k] \in Seq(FieldVals) /\ jira \in [Keys -> Seq(FieldVals) \ {<<>>}]
  BY DEF TypeOK
<1>2. ASSUME NEW q \in Keys, NEW x \in FieldVals, jira' = [jira EXCEPT ![q] = Append(jira[q], x)]
      PROVE  jira'[k] = jira[k] \/ (q = k /\ Version(k)' = Version(k) + 1)
  <2>1. CASE q = k
    <3>1. jira'[k] = Append(jira[k], x)
      BY <1>1, <1>2, <2>1
    <3>2. Len(jira'[k]) = Len(jira[k]) + 1
      BY <1>1, <3>1
    <3>. QED
      BY <2>1, <3>2 DEF Version
  <2>2. CASE q # k
    BY <1>1, <1>2, <2>2
  <2>. QED
    BY <2>1, <2>2
<1>3. CASE Push \/ PushFails
  <2>1. cur \in Keys /\ (Land(cur) \/ UNCHANGED jira)
    BY <1>3 DEF Push, PushFails, TypeOK, remoteVars
  <2>. QED
    BY <1>2, <1>3, <2>1, PushedType DEF Land
<1>4. ASSUME NEW q \in Keys, NEW f \in Fields, NEW v \in Values, RemoteEdit(q, f, v)
      PROVE  \/ jira'[k] = jira[k]
             \/ /\ Version(k)' = Version(k) + 1
                /\ "race" \notin Env /\ pc = "push" /\ cur = k => Push \/ PushFails
  <2>. DEFINE vals == [jira[q][Len(jira[q])] EXCEPT ![f] = v]
  <2>1. Fresh(q).val \in FieldVals
    BY FreshType DEF IssueRow
  <2>2. vals \in FieldVals
    BY <2>1 DEF Fresh, Version, FieldVals
  <2>3. jira' = [jira EXCEPT ![q] = Append(jira[q], vals)]
    BY <1>4 DEF RemoteEdit
  <2>4. "race" \notin Env /\ pc = "push" => cur # q
    BY <1>4 DEF RemoteEdit
  <2>. HIDE DEF vals
  <2>. QED
    BY <1>2, <2>2, <2>3, <2>4
<1>5. \/ UNCHANGED jira
      \/ Push \/ PushFails
      \/ \E q \in Keys, f \in Fields, v \in Values : RemoteEdit(q, f, v)
  BY DEF Next, vars, UserStep, CommitStep, SyncStep, EditField, DiscardPendingChange,
         DiscardAllPendingChanges, ResolveOverride, KeepRead, KeepDiscard, KeepReplace, KeepFails,
         CommitStart, Check, CheckFails, MarkCommitted, MarkFails, Reread, Replace, RefreshFails,
         CommitEnds, SyncStart, SearchPage, UpsertPage, SyncEnds, Crash, remoteVars
<1>. QED
  BY <1>3, <1>4, <1>5

\* What was read of an issue stays what Jira had at that version.
LEMMA ReadKept ==
    ASSUME TypeOK, [Next]_vars, NEW k \in Keys, NEW row \in IssueRow, ReadOf(k, row)
    PROVE  /\ row.updated <= Version(k)'
           /\ row.updated = Version(k)' => row.val = Fresh(k)'.val
<1>1. Version(k) \in Nat /\ row.updated \in Nat
  BY FreshType DEF IssueRow
<1>2. CASE jira'[k] = jira[k]
  <2>1. Version(k)' = Version(k) /\ Fresh(k)' = Fresh(k)
    BY <1>2 DEF Version, Fresh
  <2>. QED
    BY <2>1 DEF ReadOf
<1>3. CASE Version(k)' = Version(k) + 1
  BY <1>1, <1>3 DEF ReadOf
<1>. QED
  BY <1>2, <1>3, HistoryGrows

LEMMA FreshIsRead ==
    ASSUME TypeOK, NEW k \in Keys
    PROVE  Fresh(k) \in IssueRow /\ ReadOf(k, Fresh(k))
BY FreshType DEF ReadOf, Fresh

\* An issue no step of the store is about stays as honest as it was.
LEMMA HonestKept ==
    ASSUME TypeOK, [Next]_vars, NEW k \in Keys, Honest(k), issue'[k] = issue[k],
           ListForKey(journal', k) = ListForKey(journal, k)
    PROVE  Honest(k)'
<1>1. Version(k) \in Nat /\ issue[k] \in IssueRow /\ issue[k].updated \in Nat
  BY FreshType DEF Honest, TypeOK, IssueRow
<1>2. ASSUME NEW f \in Fields PROVE Original(k, f)' = Original(k, f)
  <2>1. RowsAt(journal', EntityIssue, k, f) = RowsAt(journal, EntityIssue, k, f)
    BY DEF RowsAt, ListForKey
  <2>. QED
    BY <2>1 DEF Original, BeforeVal, RowAt
<1>3. CASE jira'[k] = jira[k]
  <2>1. Version(k)' = Version(k) /\ Fresh(k)' = Fresh(k)
    BY <1>3 DEF Version, Fresh
  <2>. QED
    BY <1>2, <2>1 DEF Honest
<1>4. CASE Version(k)' = Version(k) + 1
  BY <1>1, <1>4 DEF Honest
<1>. QED
  BY <1>3, <1>4, HistoryGrows

\* An issue Jira has a later version of owes nothing to what is cached.
LEMMA HonestOld ==
    ASSUME TypeOK, NEW k \in Keys, Honest(k), issue'[k] = issue[k], jira' = jira,
           ListForKey(journal', k) \subseteq ListForKey(journal, k), issue[k].updated < Version(k)
    PROVE  Honest(k)'
<1>1. Version(k) \in Nat /\ issue[k] \in IssueRow /\ issue[k].updated \in Nat
  BY FreshType DEF Honest, TypeOK, IssueRow
<1>2. Version(k)' = Version(k)
  BY DEF Version
<1>. QED
  BY <1>1, <1>2 DEF Honest

\* A row landing where nothing is pending is as honest as what was read.
LEMMA HonestLanded ==
    ASSUME TypeOK, NEW k \in Keys, NEW row \in IssueRow, ReadOf(k, row), jira' = jira,
           journal' = journal, issue'[k] = reapplyPending(journal, k, row),
           ListForKey(journal, k) = {}
    PROVE  Honest(k)'
<1>1. Version(k)' = Version(k) /\ Fresh(k)' = Fresh(k)
  BY DEF Version, Fresh
<1>2. \A f \in Fields : RowsAt(journal, EntityIssue, k, f) = {}
  BY DEF RowsAt, ListForKey
<1>3. issue'[k] \in IssueRow /\ issue'[k].updated = row.updated
  BY ReapplyType, ReapplyKeepsVersion DEF TypeOK
<1>4. ASSUME NEW f \in Fields PROVE Original(k, f)' = row.val[f]
  <2>1. Original(k, f)' = issue'[k].val[f]
    BY <1>2 DEF Original, BeforeVal
  <2>2. issue'[k].val[f] = AfterVal(journal, EntityIssue, k, f, row.val[f])
    BY DEF reapplyPending, IssueRow
  <2>. QED
    BY <1>2, <2>1, <2>2 DEF AfterVal
<1>5. issue'[k] # None
  BY <1>3, EditCommitAssumption
<1>. QED
  BY <1>1, <1>3, <1>4, <1>5 DEF Honest, ReadOf

\* An edit keeps what its field had, in the row and in no other place.
LEMMA HonestEdit ==
    ASSUME TypeOK, StoreInv, NEW k \in Keys, NEW f \in Fields, NEW v \in Values,
           EditField(k, f, v), Honest(k)
    PROVE  Honest(k)'
<1>. DEFINE old == RowsAt(journal, EntityIssue, k, f)
            new == [id |-> nextId, type |-> EntityIssue, key |-> k, field |-> f,
                    before |-> issue[k].val[f], after |-> v, base |-> issue[k].updated]
<1>1. /\ issue[k] \in IssueRow /\ issue[k].val \in [Fields -> Values] /\ journal \subseteq Rows
      /\ WellKeyed(journal)
  BY DEF EditField, TypeOK, IssueRow, FieldVals, StoreInv, OneRowPerChange
<1>2. /\ issue' = [issue EXCEPT ![k] = [issue[k] EXCEPT !.val = [issue[k].val EXCEPT ![f] = v]]]
      /\ jira' = jira
  BY DEF EditField, remoteVars
<1>3. /\ issue'[k].updated = issue[k].updated /\ issue'[k] \in IssueRow
      /\ issue'[k].val[f] = v /\ \A g \in Fields \ {f} : issue'[k].val[g] = issue[k].val[g]
  BY <1>1, <1>2 DEF TypeOK, IssueRow, FieldVals
<1>4. \/ old = {} /\ journal' = journal \cup {new}
      \/ \E s \in old : s.before = v /\ old = {s} /\ journal' = journal \ {s}
      \/ \E s \in old : old = {s} /\ journal' = (journal \ {s}) \cup {[s EXCEPT !.after = v]}
  <2>1. journal' = Upsert(journal, nextId, EntityIssue, k, f, issue[k].val[f], v, issue[k].updated)
    BY DEF EditField
  <2>2. CASE old = {}
    BY <2>1, <2>2 DEF Upsert, Inserted
  <2>3. ASSUME NEW s \in old PROVE old = {s}
    BY <1>1 DEF RowsAt, WellKeyed
  <2>4. ASSUME NEW s \in old, s.before = v PROVE journal' = journal \ {s}
    BY <2>1, <2>3, <2>4 DEF Upsert
  <2>5. ASSUME NEW s \in old, s.before # v
        PROVE  journal' = (journal \ {s}) \cup {[s EXCEPT !.after = v]}
    <3>1. old = {s}
      BY <2>3
    <3>2. journal' = Overwritten(journal, {s}, v)
      BY <2>1, <2>5, <3>1 DEF Upsert
    <3>. QED
      BY <3>2 DEF Overwritten
  <2>. QED
    BY <2>2, <2>3, <2>4, <2>5
<1>5. \A r \in ListForKey(journal', k) : r.base = issue'[k].updated
  BY <1>1, <1>3, <1>4 DEF ListForKey, Honest, RowsAt, Rows, PendingChange
<1>6. ASSUME NEW g \in Fields PROVE Original(k, g)' = Original(k, g)
  <2>1. CASE g # f
    <3>1. RowsAt(journal', EntityIssue, k, g) = RowsAt(journal, EntityIssue, k, g)
      BY <1>1, <1>4, <2>1 DEF RowsAt, Rows, PendingChange
    <3>. QED
      BY <1>3, <2>1, <3>1 DEF Original, BeforeVal, RowAt
  <2>2. CASE g = f /\ old = {} /\ journal' = journal \cup {new}
    <3>1. RowsAt(journal', EntityIssue, k, f) = {new}
      BY <2>2 DEF RowsAt
    <3>2. BeforeVal(journal', EntityIssue, k, f, issue'[k].val[f]) = new.before
      BY <3>1, RowAtIsThere DEF BeforeVal, RowAt
    <3>. QED
      BY <2>2, <3>2 DEF Original, BeforeVal
  <2>3. ASSUME g = f, NEW s \in old, old = {s} PROVE Original(k, f) = s.before
    BY <2>3, RowAtIsThere DEF Original, BeforeVal, RowAt
  <2>4. ASSUME g = f, NEW s \in old, s.before = v, old = {s}, journal' = journal \ {s}
        PROVE  Original(k, g)' = Original(k, g)
    <3>1. RowsAt(journal', EntityIssue, k, f) = {}
      BY <2>4 DEF RowsAt
    <3>. QED
      BY <1>3, <2>3, <2>4, <3>1 DEF Original, BeforeVal
  <2>5. ASSUME g = f, NEW s \in old, old = {s},
               journal' = (journal \ {s}) \cup {[s EXCEPT !.after = v]}
        PROVE  Original(k, g)' = Original(k, g)
    <3>1. /\ [s EXCEPT !.after = v].before = s.before /\ [s EXCEPT !.after = v].type = EntityIssue
          /\ [s EXCEPT !.after = v].key = k /\ [s EXCEPT !.after = v].field = f
      BY <1>1 DEF RowsAt, Rows, PendingChange
    <3>2. RowsAt(journal', EntityIssue, k, f) = {[s EXCEPT !.after = v]}
      BY <2>5, <3>1 DEF RowsAt
    <3>3. BeforeVal(journal', EntityIssue, k, f, issue'[k].val[f]) = s.before
      BY <3>1, <3>2 DEF BeforeVal, RowAt
    <3>. QED
      BY <2>3, <2>5, <3>3 DEF Original
  <2>. QED
    BY <1>4, <2>1, <2>2, <2>4, <2>5
<1>7. Version(k)' = Version(k) /\ Fresh(k)' = Fresh(k)
  BY <1>2 DEF Version, Fresh
<1>8. issue'[k] # None
  BY <1>3, EditCommitAssumption
<1>. QED
  BY <1>3, <1>5, <1>6, <1>7, <1>8 DEF Honest

\* A discard puts back what the row kept.
LEMMA HonestDiscard ==
    ASSUME TypeOK, StoreInv, NEW S \in SUBSET journal, Discarded(S), jira' = jira,
           NEW k \in Keys, Honest(k)
    PROVE  Honest(k)'
<1>1. issue[k] \in IssueRow /\ journal \subseteq Rows /\ WellKeyed(journal)
  BY DEF Honest, TypeOK, StoreInv, OneRowPerChange
<1>2. issue'[k] = [issue[k] EXCEPT !.val =
                     [f \in Fields |-> BeforeVal(S, EntityIssue, k, f, issue[k].val[f])]]
  BY DEF Discarded, Honest
<1>3. issue'[k].updated = issue[k].updated /\ issue' \in [Keys -> IssueRow \cup {None}]
  BY <1>1, <1>2, DiscardedType DEF IssueRow
<1>4. ASSUME NEW f \in Fields PROVE Original(k, f)' = Original(k, f)
  <2>1. issue'[k].val[f] = BeforeVal(S, EntityIssue, k, f, issue[k].val[f])
    BY <1>1, <1>2 DEF IssueRow
  <2>2. RowsAt(journal', EntityIssue, k, f)
          = IF RowsAt(S, EntityIssue, k, f) = {} THEN RowsAt(journal, EntityIssue, k, f) ELSE {}
    BY <1>1, DeletedPlaces DEF Discarded
  <2>3. CASE RowsAt(S, EntityIssue, k, f) = {}
    BY <2>1, <2>2, <2>3 DEF Original, BeforeVal, RowAt
  <2>4. CASE RowsAt(S, EntityIssue, k, f) # {}
    <3>1. RowsAt(S, EntityIssue, k, f) = RowsAt(journal, EntityIssue, k, f)
      BY <1>1, <2>4 DEF RowsAt, WellKeyed
    <3>. QED
      BY <2>1, <2>2, <2>4, <3>1 DEF Original, BeforeVal, RowAt
  <2>. QED
    BY <2>3, <2>4
<1>5. Version(k)' = Version(k) /\ Fresh(k)' = Fresh(k)
  BY DEF Version, Fresh
<1>6. issue'[k] # None /\ ListForKey(journal', k) \subseteq ListForKey(journal, k)
  <2>1. issue'[k] \in IssueRow
    BY <1>1, <1>2, <1>3, BeforeValType DEF IssueRow, FieldVals
  <2>. QED
    BY <2>1, EditCommitAssumption DEF Discarded, Delete, ListForKey
<1>. QED
  BY <1>3, <1>4, <1>5, <1>6 DEF Honest

\* Everything but the issues the step is about stays as it was read.
LEMMA SeenFrame ==
    ASSUME TypeOK, [Next]_vars, SeenInv, \A k \in Keys : Honest(k)', job' # "sync",
           pc' \in {"push", "mark", "reread", "replace"} => pc' = pc /\ cur' = cur /\ read' = read,
           pc' = "push" => jira' = jira /\ issue' = issue,
           pc' = "mark" => issue' = issue,
           pc' \in {"reread", "replace"} => journal' = journal,
           keeping'.pc # "idle" => keeping' = keeping,
           keeping'.pc = "replace" => journal' = journal
    PROVE  SeenInv'
<1>1. ASSUME pc' = "push" PROVE (Version(cur) = issue[cur].updated)'
  BY <1>1 DEF SeenInv, Version
<1>2. ASSUME pc' = "mark" PROVE (issue[cur].updated < Version(cur))'
  <2>1. pc = "mark" /\ cur' = cur /\ cur \in Keys /\ issue[cur].updated < Version(cur) /\ issue' = issue
    BY <1>2 DEF SeenInv, TypeOK
  <2>2. issue[cur] \in IssueRow
    BY <2>1 DEF SeenInv, Honest, TypeOK
  <2>3. issue[cur].updated \in Nat /\ Version(cur) \in Nat
    BY <2>1, <2>2, FreshType DEF IssueRow
  <2>4. PICK c \in Keys : c = cur
    BY <2>1
  <2>5. issue[c].updated < Version(c)'
    <3>1. Version(c)' = Version(c) \/ Version(c)' = Version(c) + 1
      BY HistoryGrows DEF Version
    <3>. QED
      BY <2>1, <2>3, <2>4, <3>1
  <2>. QED
    BY <2>1, <2>4, <2>5 DEF Version
<1>3. ASSUME pc' \in {"reread", "replace"} PROVE (ListForKey(journal, cur) = {})'
  BY <1>3 DEF SeenInv, ListForKey
<1>4. ASSUME pc' = "replace" PROVE ReadOf(cur, read)'
  <2>1. pc = "replace" /\ cur' = cur /\ read' = read /\ cur \in Keys /\ read \in IssueRow /\ ReadOf(cur, read)
    BY <1>4 DEF SeenInv, TypeOK
  <2>2. PICK c \in Keys, row \in IssueRow : c = cur /\ row = read
    BY <2>1
  <2>3. row.updated <= Version(c)' /\ (row.updated = Version(c)' => row.val = Fresh(c)'.val)
    BY <2>1, <2>2, ReadKept
  <2>. QED
    BY <2>1, <2>2, <2>3 DEF ReadOf, Version, Fresh
<1>5. ASSUME keeping'.pc # "idle" PROVE ReadOf(keeping.card.key, keeping.read)'
  <2>1. keeping' = keeping /\ keeping.card.key \in Keys /\ keeping.read \in IssueRow
        /\ ReadOf(keeping.card.key, keeping.read)
    BY <1>5 DEF SeenInv, TypeOK, NotKeeping, Card
  <2>2. PICK c \in Keys, row \in IssueRow : c = keeping.card.key /\ row = keeping.read
    BY <2>1
  <2>3. row.updated <= Version(c)' /\ (row.updated = Version(c)' => row.val = Fresh(c)'.val)
    BY <2>1, <2>2, ReadKept
  <2>. QED
    BY <2>1, <2>2, <2>3 DEF ReadOf, Version, Fresh
<1>6. ASSUME keeping'.pc = "replace" PROVE (ListForKey(journal, keeping.card.key) = {})'
  BY <1>6 DEF SeenInv
<1>. QED
  BY <1>1, <1>2, <1>3, <1>4, <1>5, <1>6 DEF SeenInv

\* Nothing is done to the store.
LEMMA HonestFrame ==
    ASSUME TypeOK, [Next]_vars, SeenInv, journal' = journal, issue' = issue
    PROVE  \A k \in Keys : Honest(k)'
BY HonestKept DEF SeenInv

LEMMA UserSeen ==
    ASSUME "overlap" \notin Env, "override" \notin Env, TypeOK, StoreInv, SeenInv, UserStep
    PROVE  SeenInv'
<1>1. [Next]_vars
  BY DEF Next
<1>2. ASSUME NEW k \in Keys, NEW f \in Fields, NEW v \in Values, EditField(k, f, v) PROVE SeenInv'
  <2>1. job' = "none" /\ pc' = "idle" /\ keeping'.pc = "idle"
    BY <1>2 DEF EditField, Unguarded, Quiet, engine, screen, TypeOK
  <2>2. Honest(k)'
    BY <1>2, HonestEdit DEF SeenInv
  <2>3. ASSUME NEW q \in Keys, q # k PROVE Honest(q)'
    <3>1. issue'[q] = issue[q]
      BY <1>2, <2>3 DEF EditField, TypeOK
    <3>2. ListForKey(journal', q) = ListForKey(journal, q)
      <4>1. journal' = Upsert(journal, nextId, EntityIssue, k, f, issue[k].val[f], v, issue[k].updated)
        BY <1>2 DEF EditField
      <4>. QED
        BY <2>3, <4>1 DEF ListForKey, Upsert, Inserted, Overwritten, RowsAt, TypeOK, Rows, PendingChange
    <3>. QED
      BY <1>1, <3>1, <3>2, HonestKept DEF SeenInv
  <2>. QED
    BY <1>1, <2>1, <2>2, <2>3, SeenFrame
<1>3. ASSUME NEW S \in SUBSET journal, Discarded(S), UNCHANGED <<remoteVars, nextId, engine, screen>>,
             Unguarded
      PROVE  SeenInv'
  <2>1. job' = "none" /\ pc' = "idle" /\ keeping'.pc = "idle" /\ jira' = jira
    BY <1>3 DEF Unguarded, Quiet, engine, screen, remoteVars, TypeOK
  <2>2. \A k \in Keys : Honest(k)'
    BY <1>3, <2>1, HonestDiscard DEF SeenInv
  <2>. QED
    BY <1>1, <2>1, <2>2, SeenFrame
<1>4. ASSUME NEW r \in journal, DiscardPendingChange(r) PROVE SeenInv'
  BY <1>3, <1>4 DEF DiscardPendingChange
<1>5. CASE DiscardAllPendingChanges
  BY <1>3, <1>5 DEF DiscardAllPendingChanges
<1>6. ASSUME NEW c \in cards, KeepRead(c) PROVE SeenInv'
  <2>1. c.key \in Keys
    BY DEF TypeOK, Card
  <2>2. /\ job' = "none" /\ pc' = "idle"
        /\ keeping' = [pc |-> "discard", card |-> c, read |-> Fresh(c.key)]
        /\ jira' = jira /\ journal' = journal /\ issue' = issue
    BY <1>6 DEF KeepRead, Unguarded, Quiet, engine, remoteVars, store, TypeOK
  <2>3. \A k \in Keys : Honest(k)'
    BY <1>1, <2>2, HonestFrame
  <2>4. ReadOf(keeping.card.key, keeping.read)'
    BY <2>1, <2>2, FreshIsRead DEF ReadOf, Fresh, Version
  <2>. QED
    BY <2>2, <2>3, <2>4 DEF SeenInv
<1>. QED
  BY <1>2, <1>4, <1>5, <1>6 DEF UserStep, ResolveOverride

LEMMA KeepSeen ==
    ASSUME TypeOK, StoreInv, LedgerInv, SeenInv, KeepDiscard \/ KeepReplace \/ KeepFails
    PROVE  SeenInv'
<1>1. [Next]_vars
  BY DEF Next
<1>2. CASE KeepDiscard
  <2>1. /\ keeping \in [pc: {"discard", "replace"}, card: Card, read: IssueRow]
        /\ pc' = "idle" /\ job' = "none" /\ jira' = jira
    BY <1>2 DEF KeepDiscard, TypeOK, NotKeeping, LedgerInv, engine, remoteVars
  <2>2. /\ keeping'.card = keeping.card /\ keeping'.read = keeping.read /\ keeping.card.key \in Keys
        /\ keeping.read \in IssueRow
    BY <1>2, <2>1 DEF KeepDiscard, Card
  <2>3. PICK c \in Keys, row \in IssueRow : c = keeping.card.key /\ row = keeping.read
    BY <2>2
  <2>. DEFINE S == ListForKey(journal, c)
  <2>4. S \in SUBSET journal /\ Discarded(S)
    BY <1>2, <2>3 DEF KeepDiscard, ListForKey
  <2>5. \A k \in Keys : Honest(k)'
    BY <2>1, <2>4, HonestDiscard DEF SeenInv
  <2>6. ReadOf(keeping.card.key, keeping.read)'
    BY <1>2, <2>1, <2>2 DEF SeenInv, KeepDiscard, ReadOf, Fresh, Version
  <2>7. ListForKey(journal', c) = {}
    BY <2>4 DEF Discarded, Delete, ListForKey
  <2>. QED
    BY <2>1, <2>2, <2>3, <2>5, <2>6, <2>7 DEF SeenInv
<1>3. CASE KeepReplace
  <2>1. keeping.card.key \in Keys /\ keeping.read \in IssueRow
    BY <1>3 DEF KeepReplace, TypeOK, NotKeeping, Card
  <2>2. PICK c \in Keys, row \in IssueRow : c = keeping.card.key /\ row = keeping.read
    BY <2>1
  <2>3. /\ issue' = [issue EXCEPT ![c] = reapplyPending(journal, c, row)] /\ journal' = journal
        /\ jira' = jira /\ keeping'.pc = "idle" /\ pc' = "idle" /\ job' = "none"
    BY <1>3, <2>2 DEF KeepReplace, ReplaceRow, NotKeeping, remoteVars, engine, LedgerInv, TypeOK
  <2>4. ReadOf(c, row) /\ ListForKey(journal, c) = {}
    BY <1>3, <2>2 DEF SeenInv, KeepReplace
  <2>5. Honest(c)'
    BY <2>3, <2>4, HonestLanded DEF TypeOK
  <2>6. ASSUME NEW k \in Keys, k # c PROVE Honest(k)'
    BY <1>1, <2>3, <2>6, HonestKept DEF SeenInv, TypeOK
  <2>. QED
    BY <1>1, <2>3, <2>5, <2>6, SeenFrame
<1>4. CASE KeepFails
  <2>1. /\ journal' = journal /\ issue' = issue /\ jira' = jira /\ keeping'.pc = "idle"
        /\ pc' = "idle" /\ job' = "none"
    BY <1>4 DEF KeepFails, NotKeeping, remoteVars, store, engine, LedgerInv, TypeOK
  <2>. QED
    BY <1>1, <2>1, HonestFrame, SeenFrame
<1>. QED
  BY <1>2, <1>3, <1>4

LEMMA CommitSeen ==
    ASSUME "overlap" \notin Env, TypeOK, StoreInv, LedgerInv, SeenInv, CommitStart \/ CommitStep
    PROVE  SeenInv'
<1>1. [Next]_vars
  BY DEF Next
<1>2. keeping' = keeping /\ job' # "sync"
  BY DEF CommitStart, CommitStep, Acquire, Check, CheckFails, Push, PushFails, MarkCommitted, MarkFails,
         Reread, Replace, RefreshFails, CommitEnds, screen, SeenInv
<1>3. keeping.pc = "idle"
  <2>1. CASE CommitStart
    BY <2>1 DEF CommitStart, Acquire, Unguarded, Quiet
  <2>2. CASE CommitStep
    <3>1. job = "commit" \/ pc \notin {"idle", "search", "land"}
      BY <2>2 DEF CommitStep, Check, CheckFails, Push, PushFails, MarkCommitted, MarkFails, Reread,
                  Replace, RefreshFails, CommitEnds
    <3>. QED
      BY <3>1 DEF LedgerInv, TypeOK
  <2>. QED
    BY <2>1, <2>2
<1>4. CASE CommitStart \/ (\E k \in Keys : CheckFails(k)) \/ PushFails \/ MarkFails
           \/ RefreshFails \/ CommitEnds
  <2>1. journal' = journal /\ issue' = issue /\ pc' \notin {"push", "mark", "reread", "replace"}
    BY <1>4 DEF CommitStart, CheckFails, PushFails, MarkFails, RefreshFails, CommitEnds, Advance, store
  <2>. QED
    BY <1>1, <1>2, <1>3, <2>1, HonestFrame, SeenFrame
<1>5. ASSUME NEW k \in Keys, Check(k) PROVE SeenInv'
  <2>1. journal' = journal /\ issue' = issue /\ jira' = jira
    BY <1>5 DEF Check, store, remoteVars
  <2>2. \A q \in Keys : Honest(q)'
    BY <1>1, <2>1, HonestFrame
  <2>3. CASE pc' = "next"
    BY <1>1, <1>2, <1>3, <2>1, <2>2, <2>3, SeenFrame
  <2>4. CASE pc' = "push"
    <3>1. PICK oldest \in RowsOf(k) : Version(k) = oldest.base /\ cur' = k
      BY <1>5, <2>4 DEF Check
    <3>2. oldest \in ListForKey(journal, k)
      BY <1>5, <3>1 DEF Check, LedgerInv, Unsent
    <3>3. Version(k) = issue[k].updated
      BY <3>1, <3>2 DEF SeenInv, Honest
    <3>. QED
      BY <1>2, <1>3, <2>1, <2>2, <2>4, <3>1, <3>3 DEF SeenInv, Version
  <2>. QED
    BY <1>5, <2>3, <2>4 DEF Check
<1>6. CASE Push
  <2>1. /\ journal' = journal /\ issue' = issue /\ cur' = cur /\ pc' = "mark" /\ cur \in Keys
        /\ Version(cur) = issue[cur].updated
    BY <1>6 DEF Push, store, TypeOK, SeenInv
  <2>2. PICK c \in Keys : c = cur
    BY <2>1
  <2>3. jira' = [jira EXCEPT ![c] = Append(jira[c], Pushed(c))]
    BY <1>6, <2>2 DEF Push, Land
  <2>4. jira[c] \in Seq(FieldVals) /\ Pushed(c) \in FieldVals
    BY PushedType DEF TypeOK
  <2>5. jira'[c] = Append(jira[c], Pushed(c))
    BY <2>3 DEF TypeOK
  <2>6. Len(jira'[c]) = Len(jira[c]) + 1 /\ Len(jira[c]) \in Nat
    BY <2>4, <2>5
  <2>7. (issue[cur].updated < Version(cur))'
    BY <2>1, <2>2, <2>6 DEF Version
  <2>. QED
    BY <1>1, <1>2, <1>3, <2>1, <2>7, HonestFrame DEF SeenInv
<1>7. CASE MarkCommitted
  <2>1. /\ issue' = issue /\ cur' = cur /\ pc' = "reread" /\ cur \in Keys /\ jira' = jira
        /\ issue[cur].updated < Version(cur) /\ Unsent(cur)
    BY <1>7 DEF MarkCommitted, TypeOK, SeenInv, LedgerInv, remoteVars
  <2>2. PICK c \in Keys : c = cur
    BY <2>1
  <2>3. journal' = Delete(journal, {r.id : r \in ListForKey(journal, c)})
    BY <1>7, <2>1, <2>2 DEF MarkCommitted, Unsent
  <2>4. ListForKey(journal', c) = {}
    BY <2>3 DEF Delete, ListForKey
  <2>5. ASSUME NEW k \in Keys, k # c PROVE ListForKey(journal', k) = ListForKey(journal, k)
    BY <2>3, <2>5 DEF Delete, ListForKey, StoreInv, OneRowPerChange, WellKeyed
  <2>6. Honest(c)'
    BY <2>1, <2>2, <2>4, HonestOld DEF SeenInv
  <2>7. ASSUME NEW k \in Keys, k # c PROVE Honest(k)'
    BY <1>1, <2>1, <2>5, <2>7, HonestKept DEF SeenInv
  <2>. QED
    BY <1>2, <1>3, <2>1, <2>2, <2>4, <2>6, <2>7 DEF SeenInv
<1>8. CASE Reread
  <2>1. /\ journal' = journal /\ issue' = issue /\ jira' = jira /\ cur' = cur /\ pc' = "replace"
        /\ cur \in Keys /\ read' = Fresh(cur) /\ ListForKey(journal, cur) = {}
    BY <1>8 DEF Reread, store, remoteVars, TypeOK, SeenInv
  <2>2. ReadOf(cur, read)'
    BY <2>1, FreshIsRead DEF ReadOf, Fresh, Version
  <2>. QED
    BY <1>1, <1>2, <1>3, <2>1, <2>2, HonestFrame DEF SeenInv
<1>9. CASE Replace
  <2>1. /\ cur \in Keys /\ read \in IssueRow /\ ReadOf(cur, read) /\ ListForKey(journal, cur) = {}
        /\ journal' = journal /\ jira' = jira /\ pc' = "next"
    BY <1>9 DEF Replace, Advance, remoteVars, TypeOK, SeenInv
  <2>2. PICK c \in Keys, row \in IssueRow : c = cur /\ row = read
    BY <2>1
  <2>3. issue' = [issue EXCEPT ![c] = reapplyPending(journal, c, row)]
    BY <1>9, <2>2 DEF Replace, ReplaceRow
  <2>4. Honest(c)'
    BY <2>1, <2>2, <2>3, HonestLanded DEF TypeOK
  <2>5. ASSUME NEW k \in Keys, k # c PROVE Honest(k)'
    BY <1>1, <2>1, <2>3, <2>5, HonestKept DEF SeenInv, TypeOK
  <2>. QED
    BY <1>1, <1>2, <1>3, <2>1, <2>4, <2>5, SeenFrame
<1>. QED
  BY <1>4, <1>5, <1>6, <1>7, <1>8, <1>9 DEF CommitStep

\* Jira's other users, a crash, and the sync there is none of.
LEMMA OtherSeen ==
    ASSUME "sync" \notin Env, "race" \notin Env, TypeOK, LedgerInv, SeenInv, [Next]_vars,
           \/ (\E full \in BOOLEAN : SyncStart(full)) \/ SyncStep
           \/ (\E k \in Keys, f \in Fields, v \in Values : RemoteEdit(k, f, v))
           \/ Crash \/ UNCHANGED vars
    PROVE  SeenInv'
<1>1. CASE (\E full \in BOOLEAN : SyncStart(full)) \/ SyncStep
  BY <1>1 DEF SyncStart, SyncStep, SearchPage, UpsertPage, SyncEnds, SeenInv, TypeOK
<1>2. ASSUME NEW k \in Keys, NEW f \in Fields, NEW v \in Values, RemoteEdit(k, f, v) PROVE SeenInv'
  <2>1. /\ journal' = journal /\ issue' = issue /\ keeping' = keeping /\ job' = job
        /\ pc' = pc /\ cur' = cur /\ read' = read
    BY <1>2 DEF RemoteEdit, store, engine, screen
  <2>2. ASSUME pc' = "push" PROVE (Version(cur) = issue[cur].updated)'
    <3>1. pc = "push" /\ cur \in Keys /\ Version(cur) = issue[cur].updated /\ cur # k
      BY <1>2, <2>1, <2>2 DEF RemoteEdit, SeenInv, TypeOK
    <3>2. jira'[cur] = jira[cur]
      BY <1>2, <3>1 DEF RemoteEdit, TypeOK
    <3>. QED
      BY <2>1, <3>1, <3>2 DEF Version
  <2>3. \A q \in Keys : Honest(q)'
    BY <2>1, HonestFrame
  <2>4. CASE pc = "push"
    <3>1. keeping.pc = "idle"
      BY <2>4 DEF LedgerInv, TypeOK
    <3>. QED
      BY <2>1, <2>2, <2>3, <2>4, <3>1 DEF SeenInv
  <2>5. CASE pc # "push"
    <3>1. job' # "sync"
      BY <2>1 DEF SeenInv
    <3>. QED
      BY <2>1, <2>3, <2>5, <3>1, SeenFrame
  <2>. QED
    BY <2>4, <2>5
<1>3. CASE Crash
  <2>1. journal' = journal /\ issue' = issue /\ pc' = "idle" /\ job' = "none" /\ keeping'.pc = "idle"
    BY <1>3 DEF Crash, store, NotKeeping
  <2>. QED
    BY <2>1, HonestFrame, SeenFrame
<1>4. CASE UNCHANGED vars
  <2>1. /\ journal' = journal /\ issue' = issue /\ keeping' = keeping /\ job' = job
        /\ pc' = pc /\ cur' = cur /\ read' = read /\ jira' = jira
    BY <1>4 DEF vars
  <2>2. job' # "sync"
    BY <2>1 DEF SeenInv
  <2>. QED
    BY <2>1, <2>2, HonestFrame, SeenFrame
<1>. QED
  BY <1>1, <1>2, <1>3, <1>4

LEMMA SeenInvariant ==
    ASSUME "overlap" \notin Env, "override" \notin Env, "sync" \notin Env, "race" \notin Env
    PROVE  Spec => []SeenInv
<1>1. Init => SeenInv
  <2>. SUFFICES ASSUME Init PROVE SeenInv
    OBVIOUS
  <2>1. journal = {} /\ pc = "idle" /\ job = "none" /\ keeping.pc = "idle"
        /\ \A k \in Keys : issue[k] = Fresh(k)
    BY DEF Init, NotKeeping
  <2>2. ASSUME NEW k \in Keys PROVE Honest(k)
    <3>1. Fresh(k) \in IssueRow /\ Version(k) \in Nat
      BY InitTypeOK, FreshType
    <3>2. issue[k] # None /\ issue[k].updated = Version(k)
      BY <2>1, <3>1, EditCommitAssumption DEF Fresh
    <3>3. \A f \in Fields : Original(k, f) = Fresh(k).val[f]
      BY <2>1 DEF Original, BeforeVal, RowsAt
    <3>. QED
      BY <2>1, <3>1, <3>2, <3>3 DEF Honest, ListForKey
  <2>. QED
    BY <2>1, <2>2 DEF SeenInv
<1>2. TypeOK /\ StoreInv /\ LedgerInv /\ SeenInv /\ [Next]_vars => SeenInv'
  BY UserSeen, KeepSeen, CommitSeen, OtherSeen DEF Next
<1>. QED
  BY <1>1, <1>2, TypeCorrect, StoreInvariant, LedgerInvariant, PTL DEF Spec

\* When nobody edits while a job runs, nothing is synced under an edit or
\* overridden, and Jira is quiet between the check and the push: a push
\* replaces, in every field, the value its edit began from, whatever calls
\* fail, for any issues, fields and values.
THEOREM NothingIsOverwrittenBlindly ==
    ASSUME "overlap" \notin Env, "override" \notin Env, "sync" \notin Env, "race" \notin Env
    PROVE  Spec => NoBlindOverwrite
<1>1. ASSUME TypeOK, StoreInv, LedgerInv, SeenInv, [Next]_vars, pc = "push", pc' = "mark",
             NEW r \in RowsOf(cur)
      PROVE  Fresh(cur).val[r.field] \in {r.before, r.after}
  <2>1. cur \in Keys /\ r \in ListForKey(journal, cur) /\ journal \subseteq Rows
    BY <1>1 DEF TypeOK, LedgerInv, Unsent
  <2>2. r \in journal /\ r.key = cur /\ r.type = EntityIssue /\ r.field \in Fields
    BY <2>1 DEF ListForKey, Rows, PendingChange
  <2>3. Original(cur, r.field) = r.before
    <3>1. /\ RowsAt(journal, EntityIssue, cur, r.field) = {r}
          /\ RowAt(journal, EntityIssue, cur, r.field) = r
      BY <1>1, <2>2, RowAtIsUnique DEF StoreInv, OneRowPerChange
    <3>. QED
      BY <3>1 DEF Original, BeforeVal
  <2>4. Original(cur, r.field) = Fresh(cur).val[r.field]
    BY <1>1, <2>1, <2>2 DEF SeenInv, Honest
  <2>. QED
    BY <2>3, <2>4
<1>2. TypeOK /\ StoreInv /\ LedgerInv /\ SeenInv /\ [Next]_vars
        => [pc = "push" /\ pc' = "mark" =>
              \A r \in RowsOf(cur) : Fresh(cur).val[r.field] \in {r.before, r.after}]_vars
  BY <1>1
<1>. QED
  BY <1>2, TypeCorrect, StoreInvariant, LedgerInvariant, SeenInvariant, PTL
     DEF Spec, NoBlindOverwrite
=============================================================================
