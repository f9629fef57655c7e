---------------------------- MODULE EditCommit ----------------------------
(***************************************************************************)
(* TAM's offline-first loop for the fields of an issue: the cached rows and *)
(* the journal of the local store (tam/internal/issuerepo), the edits      *)
(* phase of Commit and the two conflict resolutions (committer), and the   *)
(* pages of a sync (syncer), over a Jira other people edit.                *)
(*                                                                         *)
(* Every store transaction and every Jira call is one step.  A commit and  *)
(* a sync exclude each other through the app's per-profile busy guard;     *)
(* edits, discards and resolutions take no guard and may fall between any  *)
(* two of their steps.  Jira keeps every version of an issue, so its       *)
(* `updated' stamp is the length of its history.                           *)
(*                                                                         *)
(* Env says which disturbances a behaviour may contain:                    *)
(*   "overlap"   bindings that take no guard run while a job runs          *)
(*   "race"      someone edits an issue between TAM's check and its push   *)
(*   "fault"     a call fails, an answer is lost, or the app is killed     *)
(*   "sync", "discard", "override", "keep"   the user does this            *)
(***************************************************************************)
EXTENDS Journal, Sequences

CONSTANTS Keys,        \* issue keys, numbered in the order Commit takes them
          Fields,      \* the editable fields
          Values,      \* what a field can hold
          None,        \* no row, no value, no issue
          MaxVersion,  \* bound on the versions Jira gives an issue
          MaxId,       \* bound on the journal ids handed out
          Env

Disturbances ==
    {"overlap", "race", "fault", "sync", "discard", "override", "keep"}

EntityIssue == "issue"

FieldVals == [Fields -> Values]
Rows      == PendingChange({EntityIssue}, Keys, Fields, Values)
IssueRow  == [val: FieldVals, updated: Nat]
Card      == [key: Keys, remoteVersion: Nat]

ASSUME EditCommitAssumption ==
    /\ Keys \subseteq Nat
    /\ None \notin Values \cup Keys \cup IssueRow \cup Card
    /\ MaxVersion \in Nat \ {0} /\ MaxId \in Nat
    /\ Env \subseteq Disturbances

VARIABLES
    jira,      \* for each issue, the field values of every version it has had
    issue,     \* the issue table: the cached row of each key
    journal,   \* the pending_change table
    nextId,    \* the next AUTOINCREMENT id
    job,       \* what holds the profile's busy guard
    pc,        \* the next step of the job
    rows,      \* commitRun.rows, the edits the phase started from
    cur,       \* the issue the phase is at
    todo,      \* the issues it has still to take
    read,      \* the row of cur the refresh read back
    page,      \* the rows a sync's search answered
    clear,     \* the sync's next page clears the table first
    cards,     \* the conflict cards the last Commit left on screen
    held,      \* the cards of the Commit under way
    keeping,   \* the keep-remote resolution under way
    want       \* history: what the user last asked each field to be

remoteVars == <<jira>>
store      == <<issue, journal, nextId>>
engine     == <<job, pc, rows, cur, todo, read, page, clear, held>>
screen     == <<cards, keeping>>
vars == <<jira, issue, journal, nextId, job, pc, rows, cur, todo, read,
          page, clear, cards, held, keeping, want>>

NotKeeping == [pc |-> "idle", card |-> None, read |-> None]

\* An issue as GetIssue and the search answer it now.
Version(k) == Len(jira[k])
Fresh(k)   == [val |-> jira[k][Version(k)], updated |-> Version(k)]

-----------------------------------------------------------------------------
\* The store's helpers.

\* Mutant of reapplyPending: what Jira answered replaces the row outright.
reapplyNothing(j, k, row) == row

\* reapplyPending for one row: every pending edit is written back over it.
reapplyPending(j, k, row) ==
    [row EXCEPT !.val = [f \in Fields |-> AfterVal(j, EntityIssue, k, f, row.val[f])]]

\* ReplaceRow: one row overwritten from a fresh read, then reapplied.
ReplaceRow(k, fresh) == issue' = [issue EXCEPT ![k] = reapplyPending(journal, k, fresh)]

\* discardOne over a set of edits: each field still cached goes back to its
\* before value, and the rows go.
Discarded(S) ==
    /\ issue' = [k \in Keys |->
          IF issue[k] = None THEN None
          ELSE [issue[k] EXCEPT !.val =
                  [f \in Fields |-> BeforeVal(S, EntityIssue, k, f, issue[k].val[f])]]]
    /\ journal' = Delete(journal, {r.id : r \in S})
    /\ want' = [k \in Keys |-> [f \in Fields |->
                  IF RowsAt(S, EntityIssue, k, f) = {} THEN want[k][f] ELSE None]]

-----------------------------------------------------------------------------
Init ==
    /\ jira \in [Keys -> {<<v>> : v \in FieldVals}]
    /\ issue = [k \in Keys |-> Fresh(k)]
    /\ journal = {} /\ nextId = 1
    /\ job = "none" /\ pc = "idle"
    /\ rows = {} /\ cur = None /\ todo = {} /\ read = None
    /\ page = <<>> /\ clear = FALSE
    /\ cards = {} /\ held = {}
    /\ keeping = NotKeeping
    /\ want = [k \in Keys |-> [f \in Fields |-> None]]

Quiet == job = "none" /\ keeping.pc = "idle"

\* A binding without the guard may run.
Unguarded == "overlap" \in Env \/ Quiet

\* acquire: refused while any other job holds the guard.
Acquire(what) == job = "none" /\ Unguarded /\ job' = what

-----------------------------------------------------------------------------
\* The user.

\* Repository.EditField on a synced row: the column and the journal change in
\* one transaction, and a value that is already there changes nothing.
EditField(k, f, v) ==
    /\ Unguarded
    /\ issue[k] # None
    /\ issue[k].val[f] # v
    /\ RowsAt(journal, EntityIssue, k, f) = {} => nextId <= MaxId
    /\ journal' = Upsert(journal, nextId, EntityIssue, k, f,
                         issue[k].val[f], v, issue[k].updated)
    /\ nextId' = IF RowsAt(journal, EntityIssue, k, f) = {} THEN nextId + 1 ELSE nextId
    /\ issue' = [issue EXCEPT ![k].val[f] = v]
    /\ want' = [want EXCEPT ![k][f] =
                   IF RowsAt(journal', EntityIssue, k, f) = {} THEN None ELSE v]
    /\ UNCHANGED <<remoteVars, engine, screen>>

\* Repository.DiscardPendingChange on a field edit.
DiscardPendingChange(r) ==
    /\ "discard" \in Env /\ Unguarded
    /\ Discarded({r})
    /\ UNCHANGED <<remoteVars, nextId, engine, screen>>

\* Repository.DiscardAllPendingChanges.
DiscardAllPendingChanges ==
    /\ "discard" \in Env /\ Unguarded
    /\ journal # {}
    /\ Discarded(journal)
    /\ UNCHANGED <<remoteVars, nextId, engine, screen>>

\* Engine.ResolveOverride with no board row pending: the issue's rows are
\* rebased onto the version its card shows.
ResolveOverride(c) ==
    /\ "override" \in Env /\ Unguarded
    /\ journal' = SetBaseVersion(journal, c.key, c.remoteVersion)
    /\ cards' = cards \ {c}
    /\ UNCHANGED <<remoteVars, issue, nextId, engine, keeping, want>>

\* Engine.ResolveKeepRemote: read Jira first, then drop the edits, then
\* replace the row, three steps.
KeepRead(c) ==
    /\ "keep" \in Env /\ Unguarded
    /\ keeping.pc = "idle"
    /\ keeping' = [pc |-> "discard", card |-> c, read |-> Fresh(c.key)]
    /\ UNCHANGED <<remoteVars, store, engine, cards, want>>

KeepDiscard ==
    /\ keeping.pc = "discard"
    /\ Discarded(ListForKey(journal, keeping.card.key))
    /\ keeping' = [keeping EXCEPT !.pc = "replace"]
    /\ UNCHANGED <<remoteVars, nextId, engine, cards>>

KeepReplace ==
    /\ keeping.pc = "replace"
    /\ ReplaceRow(keeping.card.key, keeping.read)
    /\ cards' = cards \ {keeping.card}
    /\ keeping' = NotKeeping
    /\ UNCHANGED <<remoteVars, journal, nextId, engine, want>>

\* One of its three calls failed: what was done stays done.
KeepFails ==
    /\ "fault" \in Env
    /\ keeping.pc # "idle"
    /\ keeping' = NotKeeping
    /\ UNCHANGED <<remoteVars, store, engine, cards, want>>

\* Somebody else edits the issue in Jira.
RemoteEdit(k, f, v) ==
    /\ Version(k) < (IF job = "commit" THEN MaxVersion - 1 ELSE MaxVersion)
    /\ Fresh(k).val[f] # v
    /\ "race" \in Env \/ ~(pc = "push" /\ cur = k)
    /\ jira' = [jira EXCEPT ![k] = Append(@, [@[Len(@)] EXCEPT ![f] = v])]
    /\ UNCHANGED <<store, engine, screen, want>>

-----------------------------------------------------------------------------
\* Commit.  Only field edits are pending here, so the phases before and after
\* the edits find nothing to do.

RowsOf(k) == {r \in rows : r.key = k}

\* CommitPendingChanges: take the guard and read the journal.  MaxVersion
\* leaves every issue about to be pushed a version to be pushed as.
CommitStart ==
    /\ Acquire("commit")
    /\ \A r \in journal : Version(r.key) < MaxVersion
    /\ pc' = "next"
    /\ rows' = journal
    /\ todo' = {r.key : r \in journal}
    /\ held' = {}
    /\ cards' = {}
    /\ UNCHANGED <<remoteVars, store, cur, read, page, clear, keeping, want>>

\* Mutant of Advance: the last issue's row is kept for the next one.
AdvanceOnly == /\ pc' = "next" /\ cur' = None /\ UNCHANGED read

\* The phase is done with cur and goes on to the next key.
Advance == /\ pc' = "next" /\ cur' = None /\ read' = None

\* Mutant of Check: pushes without comparing the version.
CheckNothing(k) ==
    /\ pc = "next"
    /\ k \in todo /\ \A other \in todo : k <= other
    /\ todo' = todo \ {k}
    /\ pc' = "push" /\ cur' = k
    /\ UNCHANGED <<remoteVars, store, job, rows, read, page, clear, held, screen, want>>

\* commitEdit up to the version check: GetIssue, and the oldest row's base
\* against the stamp read.
Check(k) ==
    /\ pc = "next"
    /\ k \in todo /\ \A other \in todo : k <= other
    /\ todo' = todo \ {k}
    /\ \E oldest \in RowsOf(k) :
        /\ \A r \in RowsOf(k) : oldest.id <= r.id
        /\ \/ /\ Version(k) = oldest.base
              /\ pc' = "push" /\ cur' = k
              /\ UNCHANGED held
           \/ /\ Version(k) # oldest.base
              /\ held' = held \cup {[key |-> k, remoteVersion |-> Version(k)]}
              /\ UNCHANGED <<pc, cur>>
    /\ UNCHANGED <<remoteVars, store, job, rows, read, page, clear, screen, want>>

\* GetIssue failed: the rows stay for the next Commit.
CheckFails(k) ==
    /\ "fault" \in Env
    /\ pc = "next"
    /\ k \in todo /\ \A other \in todo : k <= other
    /\ todo' = todo \ {k}
    /\ UNCHANGED <<remoteVars, store, job, pc, rows, cur, read, page, clear,
                   held, screen, want>>

\* Mutant of Pushed: one edited field per request.
PushedFirst(k) ==
    [f \in Fields |->
        IF f = (CHOOSE r \in RowsOf(k) : TRUE).field
        THEN AfterVal(rows, EntityIssue, k, f, Fresh(k).val[f]) ELSE Fresh(k).val[f]]

\* What UpdateIssue makes of an issue: every edited field in one request.
Pushed(k) ==
    [f \in Fields |-> AfterVal(rows, EntityIssue, k, f, Fresh(k).val[f])]

\* UpdateIssue landed in Jira: what it carried is no longer only asked for.
Land(k) ==
    /\ jira' = [jira EXCEPT ![k] = Append(@, Pushed(k))]
    /\ want' = [want EXCEPT ![k] = [f \in Fields |->
                  IF \E r \in RowsAt(rows, EntityIssue, k, f) : r.after = want[k][f]
                  THEN None ELSE want[k][f]]]

Push ==
    /\ pc = "push"
    /\ Land(cur)
    /\ pc' = "mark"
    /\ UNCHANGED <<store, job, rows, cur, todo, read, page, clear, held, screen>>

\* Mutant of PushFails: the rows are cleared whatever UpdateIssue answered.
PushFailsCleared ==
    /\ "fault" \in Env
    /\ pc = "push"
    /\ Land(cur) \/ UNCHANGED <<remoteVars, want>>
    /\ pc' = "mark"
    /\ UNCHANGED <<store, job, rows, cur, todo, read, page, clear, held, screen>>

\* UpdateIssue answered with an error: refused, or landed and the answer lost.
PushFails ==
    /\ "fault" \in Env
    /\ pc = "push"
    /\ Land(cur) \/ UNCHANGED <<remoteVars, want>>
    /\ Advance
    /\ UNCHANGED <<store, job, rows, todo, page, clear, held, screen>>

\* MarkCommitted: the rows that were pushed are deleted by id.
MarkCommitted ==
    /\ pc = "mark"
    /\ journal' = Delete(journal, {r.id : r \in RowsOf(cur)})
    /\ pc' = "reread"
    /\ UNCHANGED <<remoteVars, issue, nextId, job, rows, cur, todo, read, page,
                   clear, held, screen, want>>

\* The journal could not be cleared: the issue is not refreshed either.
MarkFails ==
    /\ "fault" \in Env
    /\ pc = "mark"
    /\ Advance
    /\ UNCHANGED <<remoteVars, store, job, rows, todo, page, clear, held, screen, want>>

\* refresh: read the issue back, then replace its row.
Reread ==
    /\ pc = "reread"
    /\ read' = Fresh(cur)
    /\ pc' = "replace"
    /\ UNCHANGED <<remoteVars, store, job, rows, cur, todo, page, clear, held,
                   screen, want>>

Replace ==
    /\ pc = "replace"
    /\ ReplaceRow(cur, read)
    /\ Advance
    /\ UNCHANGED <<remoteVars, journal, nextId, job, rows, todo, page, clear,
                   held, screen, want>>

\* A refresh that fails is only logged.
RefreshFails ==
    /\ "fault" \in Env
    /\ pc \in {"reread", "replace"}
    /\ Advance
    /\ UNCHANGED <<remoteVars, store, job, rows, todo, page, clear, held, screen, want>>

\* Mutant of CommitEnds: a Commit with conflicts returns without releasing.
CommitEndsClean ==
    /\ job = "commit" /\ pc = "next" /\ todo = {} /\ held = {}
    /\ job' = "none" /\ pc' = "idle" /\ rows' = {}
    /\ cards' = held
    /\ UNCHANGED <<remoteVars, store, cur, todo, read, page, clear, held, keeping, want>>

\* Commit returns: the guard is released and the cards are shown.
CommitEnds ==
    /\ job = "commit" /\ pc = "next" /\ todo = {}
    /\ job' = "none" /\ pc' = "idle" /\ rows' = {}
    /\ cards' = held /\ held' = {}
    /\ UNCHANGED <<remoteVars, store, cur, todo, read, page, clear, keeping, want>>

-----------------------------------------------------------------------------
\* Sync, one search page and one transaction at a time.  Which issues a page
\* carries is the search's business (module SyncPaging).

SyncStart(full) ==
    /\ "sync" \in Env
    /\ Acquire("sync")
    /\ pc' = "search" /\ clear' = full
    /\ UNCHANGED <<remoteVars, store, rows, cur, todo, read, page, held, screen, want>>

SearchPage(K) ==
    /\ pc = "search"
    /\ page' = [k \in K |-> Fresh(k)]
    /\ pc' = "land"
    /\ UNCHANGED <<remoteVars, store, job, rows, cur, todo, read, clear, held,
                   screen, want>>

\* UpsertPage: clear, upsert, reapply, in one transaction.
UpsertPage ==
    /\ pc = "land"
    /\ issue' = [k \in Keys |->
          IF k \in DOMAIN page THEN reapplyPending(journal, k, page[k])
          ELSE IF clear THEN None ELSE issue[k]]
    /\ clear' = FALSE /\ page' = <<>>
    /\ pc' = "search"
    /\ UNCHANGED <<remoteVars, journal, nextId, job, rows, cur, todo, read, held,
                   screen, want>>

\* The last page landed, or a page failed: the rows that landed stay.
SyncEnds ==
    /\ job = "sync" /\ pc = "search"
    /\ job' = "none" /\ pc' = "idle" /\ clear' = FALSE
    /\ UNCHANGED <<remoteVars, store, rows, cur, todo, read, page, held, screen, want>>

\* The app is killed: the store is on disk, everything else is gone.
Crash ==
    /\ "fault" \in Env
    /\ ~Quiet
    /\ job' = "none" /\ pc' = "idle"
    /\ rows' = {} /\ cur' = None /\ todo' = {} /\ read' = None
    /\ page' = <<>> /\ clear' = FALSE
    /\ cards' = {} /\ held' = {} /\ keeping' = NotKeeping
    /\ UNCHANGED <<remoteVars, store, want>>

-----------------------------------------------------------------------------
UserStep ==
    \/ \E k \in Keys, f \in Fields, v \in Values : EditField(k, f, v)
    \/ \E r \in journal : DiscardPendingChange(r)
    \/ DiscardAllPendingChanges
    \/ \E c \in cards : ResolveOverride(c) \/ KeepRead(c)

CommitStep ==
    \/ \E k \in Keys : Check(k) \/ CheckFails(k)
    \/ Push \/ PushFails \/ MarkCommitted \/ MarkFails
    \/ Reread \/ Replace \/ RefreshFails \/ CommitEnds

SyncStep ==
    \/ \E K \in SUBSET Keys : SearchPage(K)
    \/ UpsertPage \/ SyncEnds

Next ==
    \/ UserStep
    \/ KeepDiscard \/ KeepReplace \/ KeepFails
    \/ CommitStart \/ CommitStep
    \/ \E full \in BOOLEAN : SyncStart(full)
    \/ SyncStep
    \/ \E k \in Keys, f \in Fields, v \in Values : RemoteEdit(k, f, v)
    \/ Crash

Spec == Init /\ [][Next]_vars

-----------------------------------------------------------------------------
\* What is promised.

TypeOK ==
    /\ jira \in [Keys -> Seq(FieldVals) \ {<<>>}]
    /\ issue \in [Keys -> IssueRow \cup {None}]
    /\ journal \subseteq Rows /\ rows \subseteq Rows
    /\ nextId \in Nat \ {0}
    /\ \/ job = "none" /\ pc = "idle"
       \/ job = "commit" /\ pc \in {"next", "push", "mark", "reread", "replace"}
       \/ job = "sync" /\ pc \in {"search", "land"}
    /\ cur \in IF pc \in {"push", "mark", "reread", "replace"} THEN Keys ELSE {None}
    /\ read \in IF pc = "replace" THEN IssueRow ELSE {None}
    /\ todo \subseteq Keys
    /\ DOMAIN page \subseteq Keys /\ \A k \in DOMAIN page : page[k] \in IssueRow
    /\ clear \in BOOLEAN
    /\ cards \subseteq Card /\ held \subseteq Card
    /\ keeping \in [pc: {"discard", "replace"}, card: Card, read: IssueRow]
                      \cup {NotKeeping}
    /\ want \in [Keys -> [Fields -> Values \cup {None}]]

\* A sync, a refresh and a resolution never hide a local change: whatever
\* landed last, a cached field with a pending row shows the value pending.
PendingIsShown ==
    \A r \in journal : issue[r.key] # None => issue[r.key].val[r.field] = r.after

\* The journal keeps one row per field and never one that asks for nothing:
\* the value asked for differs from the one the field had.
OneRowPerChange ==
    /\ WellKeyed(journal)
    /\ \A r \in journal : r.before # r.after /\ r.id < nextId

\* No change the user asked for is dropped: until Jira holds it or the user
\* takes it back, a pending row carries it.
NoIntentLost ==
    \A k \in Keys, f \in Fields :
        want[k][f] # None =>
            \E r \in RowsAt(journal, EntityIssue, k, f) : r.after = want[k][f]

\* A push never overwrites what somebody else put in a field after the value
\* the edit started from: at the moment it lands the field still holds the
\* row's before value, or already the value pushed.
NoBlindOverwrite ==
    [][pc = "push" /\ pc' = "mark" =>
          \A r \in RowsOf(cur) : Fresh(cur).val[r.field] \in {r.before, r.after}]_vars

\* The version check reads the oldest row alone because no later row has an
\* earlier base (the comment in commitEdit).
OldestBaseIsLowest ==
    \A r, s \in journal : r.key = s.key /\ r.id < s.id => r.base <= s.base

\* A Commit that starts ends.
CommitTerminates == job = "commit" ~> job = "none"

\* Nothing but a call to Jira stands between two steps of a Commit, so once
\* started it keeps going.  Nothing says the user ever starts another.
Fairness == WF_vars(CommitStep)
FairSpec == Spec /\ Fairness

\* What the journal will send for an issue.
Owed(k) ==
    [f \in Fields |-> AfterVal(journal, EntityIssue, k, f, None)]

Ledger == INSTANCE IntentLedger WITH
              server <- [k \in Keys |-> Fresh(k).val],
              owed   <- [k \in Keys |-> Owed(k)]

\* The cache, the versions and the steps in between implement the promise:
\* what is pending for an issue lands whole, and leaves the journal only when
\* it has landed or the user took it back.
ImplementsLedger == Ledger!Spec
=============================================================================
