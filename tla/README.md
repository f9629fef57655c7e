# The offline-first core of TAM and XTM, in TLA+

The repository (`src/`) is a suite of desktop applications over Jira Data Center, written in Go with
React front ends. This project models and verifies the core of the one called **TAM** (Task Activity
Manager, `tam/`): a local SQLite cache of a Jira project, a journal of what the user changed while
offline, a **Commit** that pushes the journal to Jira, and a **Sync** that reads Jira back. Of **XTM**
(`xtm/`), which has the same loop over Xray Tests, it covers the edits and the Commit of one Test. PIE, the
third application, shares the journal.

Everything is plain TLA+: modules model-checked with TLC on small instances, and theorems checked with
TLAPS for every value of the constants.

    tlc -workers 2 -config EditCommitAll.cfg MCEditCommit     a run (the others alike)
    tlapm BoardMovesProofs.tla                                a proof module

Contents: 1 the system · 2 the modules, and how state and actions correspond to the code ·
3 the runs, their bounds and what they show · 4 fairness · 5 what is proved · 6 where the code and its
documents disagree · 7 behaviours seen without a run · 8 what is not modelled · 9 the plan.

## 1. The system

### 1.1 The loop

    user ──► bindings (tam/app*.go) ──► store (tam/internal/issuerepo, boardrepo + core/journal)
                    │                           ▲                      │
                    │ busy guard                │ UpsertPage,          │ List, MarkCommitted,
                    ▼                           │ ReplaceRow           ▼ Rekey, MarkMoveCommitted
               Sync engine ─── pages ───────────┘                Commit engine
               (syncer)                                          (committer)
                    ▲                                                  │
                    └──────────────── Jira (backend) ◄─────────────────┘

* The **store** is one SQLite file per profile. Every binding changes it in one transaction that
  touches both the entity and the journal (`pending_change`), so the two never disagree half way.
* The **journal** has one row per (entity type, entity key, field): the value before the first edit, the
  value asked for, and the Jira version (`updated`) the edit was made against.
* **Commit** reads the journal and goes through eleven phases (boards, board adds, sprints, sprint
  changes, epics, issues, sub-tasks, edits, board moves, links, worklogs), reading the journal again
  between them. Each row is checked against Jira, pushed, cleared, and its issue refreshed. What Jira
  disagrees with becomes a conflict card the user resolves (override, or keep the remote).
* **Sync** pages through a JQL search, incrementally from a watermark or in full, and writes what is
  pending back over every row that lands.
* A per-profile **busy guard** (`acquire`, app_writes.go:26) keeps two jobs apart. Commit and Sync take
  it. Edits, drags, drafts, links, discards, conflict resolutions and settings **do not**: they may fall
  between any two steps of a job. Most of what is hard about this code follows from that.

### 1.2 Components

State in brackets; the operations that matter; what is hard; what makes it correct.

| component | state and operations | hard | correct when |
|---|---|---|---|
| pending-change journal (`core/journal`) | [pending_change] Upsert, Put, Delete, ListForKey, SetBaseVersion | long histories of edits, edits back and deletes | one row per place, the first before value and base kept, no row that asks for nothing |
| issue cache, field edits (`issuerepo` writes, issues, discard, rekey) | [issue] EditField, discards, UpsertPage, ReplaceRow, reapplyPending | a page, a refresh and an edit land in any order | what is pending is always shown |
| commit: edits and conflicts (`committer.go`, `phases.go`) | [conflict cards] commitEdit, refresh, ResolveOverride, ResolveKeepRemote | check and push are two calls; lost answers; edits under a push | nothing asked for is lost, nothing of others overwritten unseen, it ends |
| commit: drafts and placeholders (`held.go`, `firewall.go`, `rekey.go`) | [TAM-NEW keys in rows, JSON and links] create phases, blocked/hold, Rekey | renames must reach every reference; partial failure; chains of any shape | what is sent names what was meant, no draft lost or doubled, one Commit is enough |
| commit: board moves and ranks (`boards.go`, `ranks.go`) | [movePlan] planBoardMoves, pushSprints, pushTransitions, pushBoardRanks | half of an intent; re-drags during the push; order of a whole board | no drop lost, no push from a place unseen, cards held only for a reason |
| commit: sprints (`phases.go`, `sprintwrites.go`, `issuerepo` sprint files) | [draft sprints, queued starts, completions, deletes] createSprints, RekeySprint, pushSprintWrites | a rename under a drag; a rename that fails; rows queued on a state Jira has since changed | every placeholder becomes real or goes; each ceremony does what was queued or nothing |
| sprint service (`sprints`) | [sprint] CheckComplete, CheckDelete, Start, Complete, Delete, the re-reads | a completion in batches, stopped and retried; a cached state that is stale | a completion moves the unfinished cards and no others, a delete takes no sprint anybody started |
| commit: boards, worklogs | [draft boards, board adds, worklogs] | duplicates after lost answers | not modelled |
| sync: issues (`syncer.go`, `state.go`) | [sync_state] Sync, sinceClause, watermark | offset paging over a moving result; clocks; failing half way | a finished sync leaves the cache at what the watermark claims |
| sync: boards (`syncer/boards.go`, `boardrepo`) | [board, board_issue, sprint] per-board transactions | partial failure; backfill of closed sprints | partly: the order and membership of a board |
| board read model (`boardrepo/view.go`, `cellorder.go`) | derived | pending ranks laid over Jira's order | partly: the order of cells, column statuses |
| bindings and busy guard (`app*.go`) | [busy] acquire, release | what runs without it | jobs exclude each other |
| ritual pages (`ritualrepo`, `ritualsync`) | [ritual_document] the editor's save, both resolutions, deleting and forgetting a page, SyncRituals | a save under a pass; a page edited, removed or renamed in Confluence; lost answers | no text anybody wrote is replaced by one that does not account for it |
| XTM: edits and Commit of a Test (`xtm/internal/testrepo`, `syncer/commit.go`) | [test_case, test_step, pending_change] edits, adds, deletes and reorders of steps, discards, the merge of a conflict, the pushing call by call | rows that name each other by temporary id, by index and by real id; half a push; a cache older than the check | nothing unseen is replaced, what is cleared stands in Jira, the rows add up to what the user sees |
| importer | batches of drafts | several entities per operation | planned |
| backends, demo data, schemas, profiles, reports, connections, the rest of XTM, PIE, front ends | I/O, CRUD, read-only, presentation | | not modelled (section 8) |

`PROJECT.json` lists every component with its files, and the hazards, each at its line.

## 2. The modules

| module | models | builds on |
|---|---|---|
| `Journal` | `core/journal/journal.go`: the table as a set of rows and its helpers as operators | |
| `EditCommit` | field edits, the edits phase of Commit, both resolutions, sync pages landing | `Journal` |
| `IntentLedger` | the abstract promise of an edit: asked, owed, landed | |
| `DraftCommit` | drafts, parents and links naming them, the create, edit and link phases, Rekey | `Journal` |
| `SyncPaging` | which issues a sync leaves in the cache: paging, cut-off, clearing, watermark | |
| `BoardMoves` | column and sprint moves, their plan, pushes, resolutions and refreshes | `Journal` |
| `RankOrder` | ranks: drops, the board as drawn, the order they are pushed in | `Journal` |
| `RitualSync` | ritual documents, the editor, and the pass that brings them into step with Confluence | |
| `TestCommit` | XTM: the queued changes of one Test and the pass that pushes them | `Journal` |
| `SprintCommit` | draft sprints, queued ceremonies, cards dragged between sprints, and the phases that send them | `Journal` |
| `JournalProofs`, `EditCommitProofs`, `DraftCommitProofs`, `SyncProofs`, `BoardMovesProofs`, `RankOrderProofs`, `SprintCommitProofs`, `TestCommitProofs` | the theorems and their lemmas; `SyncProofs` those of both modules about a sync, `RitualSync` and `SyncPaging` | the modules they are about |
| `MC*` | the instances TLC explores | one model each |

Conventions. Every store transaction and every Jira call is one step; computation between two of them
belongs to the step that precedes or follows it. Each module has a constant `Env` (`PagingEnv` in `SyncPaging`), the set of
disturbances a behaviour may contain ("overlap": bindings without the guard run under a job; "fault": a
call fails, its answer is lost, or the app is killed; "race": somebody changes the issue in Jira between
TAM's check and its push; and the user's own choices). A property is checked under the largest `Env` it
holds for; the theorems are about every `Env`, or name what they exclude. A definition whose comment
begins "Mutant of" is not part of the specification: it is the form a plausible bug would give the
definition it stands before, and each property is known to fail under one of them. Identifiers keep the
source's names.

### 2.1 Journal

A row is a record; `WellKeyed` is what the UNIQUE index and the AUTOINCREMENT key promise. `Upsert`
inserts, overwrites in place (id, before and base stay), or deletes the row when an edit returns to the
before value; `Put` never deletes. The distinction matters: field edits and parent edits use `Upsert`,
drafts, moves, links and ranks use `Put`.

### 2.2 EditCommit and IntentLedger

| variable | code |
|---|---|
| `jira` | every version an issue has had; `updated` is its length |
| `issue`, `journal`, `nextId` | the issue and pending_change tables, the AUTOINCREMENT counter |
| `job`, `pc`, `cur`, `todo`, `rows` | the busy guard; where `commitEdit` or the sync loop is; the rows the phase read |
| `read`, `page`, `clear` | a refresh's and a page's answer before they land; `clearFirst` |
| `cards`, `held`, `keeping` | conflicts on screen, conflicts of the Commit under way, a keep-remote between its calls |
| `want` | history: what the user last asked of a field and has neither got nor taken back |

`EditField`, `DiscardPendingChange`, `DiscardAllPendingChanges`, `ResolveOverride`, `KeepRead /
KeepDiscard / KeepReplace` are the bindings; `CommitStart, Check, Push, MarkCommitted, Reread, Replace,
CommitEnds`, each with the form in which it fails, are `commitEdit` and the refresh; `SyncStart,
SearchPage, UpsertPage, SyncEnds` the landing side of a sync; `Crash` loses everything but the store.

`IntentLedger` knows no cache, version or step: the user asks, the journal owes, an issue's whole debt
lands at once, and a debt is struck out only when withdrawn or when nothing asked for is left in it.
`EditCommit` implements it (`ImplementsLedger`) with `server` the newest version and `owed` the after
values of the journal.

### 2.3 DraftCommit

A key is a number: n for an issue, −n for `TAM-NEW-n`. Three levels (epic, issue, sub-task) give the
create phases; a draft's parent, a parent edit of a synced issue, and a link are the three ways to name a
draft. `Take` is the dependency decision of one row (left, held, failed for good, or sent), `Send /
Refused` the call, `Rekey / RekeyFails` and `MarkCreatedWithoutRekey` what follows a create,
`MarkCommitted / ClearFails`, `Refresh / RefreshFails`, `NextPhase`. Each row remembers which draft it was
of and which it named when the user asked (`of`, `meant`), so that a property can tell a reused
placeholder from the draft it used to be. Whether an edit conflicts is left to `EditCommit`.

### 2.4 SyncPaging

`SearchIssuesPage` answers at most `PageSize` issues from an offset in the result as it is *now*: those before
which as many matching issues come in the order of their keys (`Offset`), as rows;
`UpsertPage` clears with the first page of a full sync and decides whether another page is due;
`SetSyncState` writes the watermark; `SyncFails` writes back the state that was read when the sync began, or not
even that, which undoes a reset of the cursor made meanwhile. Jira's clock moves with every change, the
app's may be `Skew` ahead, `sinceClause` moves the cut-off back by `Backdate` (an hour in the code), and
`Skew <= Backdate` is the assumption nothing in the code enforces.

### 2.5 BoardMoves

Two kinds of move, `issue_transition` and `issue_sprint`, share one rule: satisfied when Jira has the card
where the row wants it, to be pushed when Jira has it where the row says it came from, in conflict
otherwise, and an issue with a conflict is held back whole. `Plan` is `planBoardMoves` for one issue;
`PushSprints` one batch of `SprintBatch` cards; `PushTransition` one issue, which may land on a sibling
status of the column (`ColumnStatuses`); `ClearMove` is `clearMoveRow`, by id **and** by the value pushed;
`Reread`/`Replace` the refresh. `Undo` is a card dragged home. The override is `OverrideRead`, then
`RebaseMoves`. The history variables say where the user last dropped each card (`want`), which moves were
made by somebody else (`others`), and which of TAM's own moves landed without being closed (`ours`).

### 2.6 RankOrder

One order over all cards in Jira, and the board read from it. `rankCards` lays the pending ranks over that
order, `CellOrder` lists the columns left to right, and the rank group walks that list: each card goes
after the card above it, the topmost before the next one, and a card whose rank failed anchors nothing.
Every card has a column: one whose status no column collects is not drawn and anchors nothing (cellorder.go:88),
and is left out.
`ReadOrder` is apart from `CommitStart` because the code reads the order after the other groups pushed.

### 2.7 RitualSync

| variable | code |
|---|---|
| `doc` | the ritual_document table; `body`, `base`, `page`, `version`, `cbody`, `cversion`, `status` are its columns |
| `page` | the space in Confluence: every version of every page, what hangs under what |
| `shown` | the document the editor or the conflict banner was opened on |
| `pc`, `listed`, `read`, `todo`, `cur`, `parent`, `ans` | where `Run` is, the documents it listed, the page children hang under, the answer still to be written |

`EnsureRituals`, `SaveBody`, `ResolveMine`, `ResolveTheirs`, `ForgetPage`, `DeleteDocument` are the bindings,
none of which takes the guard. `ReadAgreement, Ensure, Documents, Take` are the order of `Run`;
`FindPageByTitle, CreatePage` are `place`; `GetPageStorage, UpdatePage, UpdateConflict, GetPageAgain` are
`reconcile` and `push`; `Apply` is the compare-and-set write each ends in (`ApplyCreated`, `ApplyPushed`,
`ApplyPulled`, `ApplyConflict`, `MarkGone`). `CallFails` is a call refused, or landed and its answer lost.
Confluence keeps a text in its own normal form (`Stored`), so that what is read back is not what was sent. Two
history columns of a document say which template it goes back to and the newest version of its page the user
took in or chose to replace; they are what "unseen" means.

### 2.8 TestCommit

| variable | code |
|---|---|
| `jira`, `born` | the Test in Xray: version, fields, steps in their order; the step ids given out |
| `test`, `steps` | test_case and test_step; a placeholder (`new-N`) is a negative id |
| `pending`, `lastRow` | pending_change; a row's values are a text, an order of ids, or the snapshot of a step |
| `conflict` | the conflict the last Commit left on the screen |
| `pc`, `rows`, `only`, `version`, `left`, `idMap`, `moves`, `content` | the pass of `commitChanges` over this Test |

The user's actions are the bindings with every row they touch: an edit of an added step folds into the row
that adds it, a deleted step drops its edits, a cancelled add leaves the queued order (`Pruned`), a reorder
saves the whole order. `RemoteVersion` and `DetectConflicts` are the two checks, by version and, when that
fails, by value; then `UpdateIssue`, `ApplyTransition`, `RemoteDeleteStep`, `UpdateTestStep`, `CreateStep`,
`MoveTestStep` in the code's order, `ClearRows` by id, `RebaseRest` after a selective Commit. `Refused` is
what Xray or the client refuses by rule (an unknown step, a blank one), `Fault` a call that fails or whose
answer is lost, or the end of the app. `met` remembers which disturbances the behaviour has met, so that one
run claims each property of the behaviours it holds for (section 3.2).

### 2.9 SprintCommit

| variable | code |
|---|---|
| `sprint`, `born`, `place`, `finished` | Jira: the state of each sprint, the ids given out, the sprint of each card, the cards done |
| `cached`, `column` | the sprint table, drafts (negative ids) included; `sprint_id` of each cached card |
| `journal`, `nextId`, `lowest` | pending_change, its counter, and `draftSprintSeq` |
| `pc`, `todo`, `doing`, `made`, `unsent` | the phase, its rows, the row under way, Jira's answer to a create, the cards a completion has still to move |

Four phases of one Commit, each on the journal as the one before left it. *Sprints*: `RemoteCreate`, then
`RekeySprint` in one transaction, or `ForgetSprint` (`MarkSprintCreatedWithoutRekey`) when that fails or Jira
gave no id. *Sprint changes*, starts before completions before deletes (`NextChange`): `PushStart`;
`ReadSprint`, `MoveBatch`, `CloseSprint`; `ReadDoomed`, `RemoteDelete`; each ends in `Settle`, the re-reading
of the list and the clearing of the row, any part of which may fail. *Board moves*: `PushCard`, the rule of
`BoardMoves` in one step a card. What a dialog queues takes the guard (`Guarded`); drags and discards do not
(`Unguarded`). `PendingInSprint` is asked when a completion or delete is queued and again before it is pushed;
it counts moves and transitions, not the edits, ranks, links and worklogs of a card, so the model refuses
fewer. A completion then trusts the cached state and Jira's cards, which it reads in one step though the code
takes them by the page; a delete trusts Jira's state. The history variables
name the drafts TAM lost sight of (`forgotten`, `unknown`), what was made of each (`makes`), and the cards
touched since a sprint was read (`disturbed`).

## 3. The runs

| run | disturbances | instance | shows |
|---|---|---|---|
| EditCommitAll | all | 1 issue, 2 fields, 2 values, 3 versions, 2 rows | whatever lands last, a pending field shows what is pending (PendingIsShown); a Commit that starts ends (CommitTerminates) |
| EditCommitLedger | all but overlap and override | 1 issue, 2 fields, 3 values, 3 versions, 3 rows | no change asked for is dropped (NoIntentLost); the oldest row has the lowest base, so comparing it alone is enough (OldestBaseIsLowest); EditCommit implements IntentLedger |
| EditCommitChecked | fault, discard, keep | 1 issue, 2 fields, 3 values, 4 versions, 3 rows | a push replaces only the value its edit started from (NoBlindOverwrite) |
| DraftCommitAll | all; of discard, overlap, lost, clear and crash: discard with overlap, lost with clear, or crash | 1 issue, 3 draft numbers, 3 issues | what is sent names what was meant (MeantIsSent); no reference dangles through a rename (NoDanglingReference); one Commit sends everything nothing refused, and what it reports beyond retrying is (CommitLeavesOnlyWhatFailed); a draft becomes one issue even when its rename failed (CreatedAtMostOnce); Commit drops no draft Jira has not got (NoDraftLost) |
| SyncPagingAll | none of the three | 2 issues, pages of 1, 4 changes, skew 1 | a finished sync leaves the cache at what its watermark claims, and a full one forgets what left the scope (CacheIsCurrent); every sync ends though the total moves (SyncTerminates) |
| BoardMovesAll | all but race and late | 1 card, 3 statuses in 2 columns, 2 sprints, 2 rows | a card is shown where it was dropped (MoveIsShown); no drop is lost (NoMoveLost); nothing is pushed from where the user did not see it, nor half of an issue held back (PushedFromWhereItWas); a card is held back only for a reason (HeldForAReason) |
| RankOrderAll | all but early | 3 cards, 2 columns (3 ways to begin in them), 2 drops, 1 outside change | what Jira took so far stands as drawn, whatever failed, below an unranked top card (SettledAsDrawn); no drop is lost (NoRankLost) |
| RitualSyncAll | all but recreate and late | 1 page, 3 bodies one of which Confluence rewrites, 4 acts | the base a decision rests on was on the page (BaseWasThere); what is drawn as synced is (SyncedIsThere); a pass takes no text of the user's (PullTakesNothing), a push none of anybody's (NothingOverwrittenUnseen), a save only what the editor showed (SaveReplacesWhatWasShown); every step of a pass brings it nearer to its end, so nothing is tried twice (PassAdvances) |
| TestCommitAll | all | 2 fields, 2 steps, 3 acts, 4 versions | nothing unseen is replaced (NoBlindOverwrite); what is cleared stands in Jira, all of it together (ClearedIsThere); an undisturbed Commit leaves Jira as the cache draws the Test (CalmCommitSendsAll); what pends is shown (PendingIsShown) |
| SprintCommitAll | all but stale and race | 2 cards, 2 sprints, 1 draft, batches of 1, 4 acts | a draft sprint is in the journal until Jira has it and no longer, and what names it follows it (DraftsAreResolved); of the cards nobody touches while it runs, a completion moves all unfinished ones of its sprint and no others, however often it stops (CompletionMovesUnfinished); no sprint that was started or has a card bound for it is deleted (DeletesOnlyIdle) |
| EditCommitLost, TestCommitMove | overlap; outside | as small as shows it | expected violations, section 6 |

Each module has one type invariant. Deadlock is checked everywhere but in TestCommit, where the bound on acts
may leave nothing to do: a Test with nothing pending, in step with Jira.

### 3.1 Bounds, and why they are enough

* *One issue or card* in `EditCommit` and `BoardMoves`: every rule compares a row with its own issue, and
  the engines keep only `todo`/`toPlan` between two issues. What one issue needs is two fields (or both
  kinds of move), so that one can be pushed, taken back or in conflict without the other, and that is
  there. The theorems of section 5 are about any number. Not exercised by TLC: a sprint batch with several
  cards. The batch is in the theorems.
* *Three values*: before, asked, and somebody else's. Two would let a foreign value coincide with one of
  them, and do where the run is about something else (EditCommitAll).
* *Versions*: one to start from, one of somebody else's, one pushed; a fourth where two Commits follow each
  other. `CommitStart` and `RemoteEdit` leave a pushed issue a version to be pushed as, so that the bound
  never blocks a Commit.
* *Journal ids*: two or three drafts or rows at a time; ids are never reused, so after `MaxId` the
  user can only change rows that exist. Long sequences still arise from overwriting, discarding and
  syncing.
* *Two drafts at a time* beside an issue Jira has: an epic and a sub-task around that issue, an epic with an
  issue of its own, or two drafts and a link; with a discard, a third number, or a number given again.
  `MaxIssue` limits what Jira can have created, retries included; `CommitStart` waits for room.
* *Sync*: two issues in pages of one are the smallest result whose offset can be wrong, and four stamps
  let each issue change once before and once during a sync.
* *Ranks*: three cards in two columns are the least in which a column has an order and another column
  stands before it. Jira starts from one order that is not the one the journal is read in; the other
  orders are the same up to renaming the cards, except for the order of the journal.

* *A page* in RitualSyncAll: the rules of a pass compare a document with its own page; the order between
  documents and where children hang are not explored by TLC; the theorems of section 5 are about any number of
  documents. Four acts are a page written, opened, changed on both
  sides and resolved.
* *Two steps* in TestCommit: an order needs two, a third comes with an add, and nothing is added to or reordered in
  more than four. Three acts are, say, an edit, a foreign change and another edit, or an edit, a foreign change and
  the resolution; the Commits, syncs and calls between them are not counted. The user writes one new text, or the
  old one back.
* *Sprints*: one sprint Jira has, started or not, and room for one more, which only a draft becomes; two cards
  in batches of one are the least completion that can stop half way. Four acts, faults among them, are a
  completion queued and stopped twice, or a draft made, dragged into, lost to a failed rename and dragged out of.
  A completion may name the backlog or any sprint id but its own, as the binding lets it (guards.go:69), also one
  Jira does not have yet or has closed, which takes no cards.

### 3.2 Properties of behaviours that met nothing worse

Some promises fail under one disturbance and hold under all the others. `DraftCommit` and `TestCommit`
therefore record in `met` what a behaviour has met, and a property names what exempts it (`NotMet`). What is
exempted is exactly what section 7 lists; nothing else was needed.

* DraftCommit: CreatedAtMostOnce not after a lost answer, a journal that could not be cleared or a crash;
  MeantIsSent and NoDanglingReference not after a discard, which frees a draft number; CommitLeavesOnlyWhatFailed
  not after a discard nor a draft made during a Commit.
* TestCommit: NoBlindOverwrite not when somebody writes between check and push (race), when rows were committed
  selectively, edited during a Commit or under a conflict on the screen; of a field, not once an edit made on an older
  version was taken back (undone); of a step, not after a sync, a discard or a forced refresh behind its back.
  ClearedIsThere not under a race, a refresh, an edit during the Commit or an act under a conflict on the screen, nor
  once a deleted placeholder was discarded back into the cache (revived). PendingIsShown not when the user acted
  under a conflict on the screen; for steps, not after a forced refresh, an edit during a Commit or a pass that broke
  off; for the order, not after "theirs" was taken, a selective Commit or a discard. CalmCommitSendsAll, of the order
  alone, not once a queued order was taken back (unordered) or "theirs" was taken.

## 4. Fairness

`EditCommit!FairSpec` has weak fairness of `CommitStep` and `SyncPaging!FairSpec` of `SyncStep`: once started,
a job runs in its own goroutine, waits only for SQLite and for HTTP calls which the client ends with an error
after its timeout, and has a next step until it returns (the loops of phases.go and syncer.go). These
disjunctions include the failing form of each call, so fairness never promises that a call succeeds.
Nothing is assumed of the user, of Jira's other users or of the app being started again; a Commit may also
end in a crash. The other modules check safety only, and their specifications have no fairness. That a pass
of `RitualSync` ends is stated without fairness, as a measure that every one of its steps lowers and no step
of anybody else touches (`PassAdvances`).

## 5. What is proved

| module | theorem | property | assumes |
|---|---|---|---|
| EditCommitProofs | TypeCorrect | TypeOK | |
| | PendingAlwaysShown | PendingIsShown | |
| | JournalHoldsChanges | (`OneRowPerChange`, checked by no run of its own) | |
| | NoChangeIsLost | NoIntentLost | "overlap" not in Env |
| | LedgerImplemented | ImplementsLedger | "overlap" not in Env |
| | OldestIsLowest | OldestBaseIsLowest | "overlap", "override" not in Env |
| | NothingIsOverwrittenBlindly | NoBlindOverwrite | "overlap", "override", "sync", "race" not in Env |
| DraftCommitProofs | NothingDraftedIsLost | NoDraftLost | |
| | NothingIsCreatedTwice | CreatedAtMostOnce | |
| | TypeCorrect | TypeOK | |
| | WhatIsSentIsMeant | MeantIsSent | |
| | NothingPendingDangles | NoDanglingReference | |
| | OnlyWhatFailedIsLeft | CommitLeavesOnlyWhatFailed | |
| BoardMovesProofs | TypeCorrect | TypeOK | |
| | MoveAlwaysShown | MoveIsShown | |
| | NoDropIsLost | NoMoveLost | |
| | PushedAsSeen | PushedFromWhereItWas | "race" not in Env |
| | HeldBackForAReason | HeldForAReason | "late" not in Env |
| RankOrderProofs | TypeCorrect | TypeOK | |
| | RanksLandAsDrawn | SettledAsDrawn | |
| | NoDropOfACardIsLost | NoRankLost | "early" not in Env |
| SyncProofs | TypeCorrect | TypeOK | |
| | PassEnds | PassAdvances | |
| | BaseRests | BaseWasThere | "recreate" not in Env |
| | SyncedRests | SyncedIsThere | "recreate" not in Env |
| | NoTextIsTaken | PullTakesNothing | "recreate" not in Env |
| | NothingUnseenIsTaken | NothingOverwrittenUnseen | "recreate", "late" not in Env |
| | SavesReplaceWhatWasShown | SaveReplacesWhatWasShown | "recreate" not in Env |
| | PagingTypeCorrect | PagingTypeOK | |
| | SyncLeavesCurrent | CacheIsCurrent | "leave", "partial", "overlap" not in Env |
| SprintCommitProofs | TypeCorrect | TypeOK | |
| | CompletionIsExact | CompletionMovesUnfinished | |
| | DeletionIsIdle | DeletesOnlyIdle | "race" not in Env |
| | EveryDraftResolved | DraftsAreResolved | "stale" not in Env |
| TestCommitProofs | TypeCorrect | TypeOK | |
| | PendingShown | PendingIsShown | |
| | NothingUnseenReplaced | NoBlindOverwrite | |
| | ClearedStands | ClearedIsThere | |

All hold for every set of issues, fields, values, statuses, columns, cards, sprints, documents and bodies, every
bound and every `Env` but for what the last column says, with the exemptions the properties themselves name (of
`DraftCommit` and `TestCommit` those of section 3.2; of CompletionMovesUnfinished and DeletesOnlyIdle the cards
touched while the job runs), from the assumption each module names (`EditCommitAssumption`, `DraftCommitAssumption`,
and so on; `NoneIsNoDocument` in `RitualSync`), which TLC evaluates on every run. `SyncPagingAssumption` holds the
one that matters to a reader: `Skew <= Backdate`.

* **The journal** (`JournalProofs`): a place of the index holds one row; what `Upsert` and `Put` return is of
  the table's type; `Upsert` keeps the table well keyed when its id is new; what an upsert leaves at its own
  place and elsewhere; what `Put` leaves, and that it keeps the table well keyed too.
* **Edits** (`EditCommitProofs`): types are inductive on their own. `PendingIsShown` is not: that a discard or
  an edit of one row leaves the others shown needs each row to be the only one at its place, so it is proved
  together with `OneRowPerChange` (`StoreInv`, with `TypeOK`). Every page, refresh and resolution then goes
  through one lemma about `reapplyPending`.
* **The promise of an edit** (`EditCommitProofs`, second part). `NoIntentLost` is not inductive: that `MarkCommitted` drops
  nothing asked for needs to know that what it deletes is what was pushed. `LedgerInv` says so: while nobody edits
  under a job, the rows the pass holds of an issue it has not sent are exactly the issue's pending rows
  (`Unsent`), and once sent nothing asked for is left in them; a lost answer forgets the same requests whose
  values landed. With it each step of `EditCommit` maps to a step of `IntentLedger` or a stutter, place by place
  (`OwedAt`): an edit asks, a discard or an edit back withdraws, `Push` lands the whole debt of one issue,
  `MarkCommitted` settles it, an override and the cache's steps change nothing. `OldestBaseIsLowest` is a fact
  about time: neither the cache, nor a page, refresh or resolution still to land is older than any base of the
  same issue (`BaseInv`), so a new row's base is no lower than those that are there. An override breaks it, and
  section 7.1 shows how.
* **What a push replaces** (`EditCommitProofs`, last part). `SeenInv` says of every issue (`Honest`): its rows were all made
  against the version it is cached at, and when Jira has no later one, the cached fields with the pending edits
  taken back are Jira's (`Original`). So the check of one base decides for every field. A push that landed makes
  the cached version an old one, whatever fails afterwards, and the next Commit shows a conflict; a refresh or a
  kept-remote resolution lands only where no row is left. A sync breaks it: it moves the cached version on under
  rows that keep their before values, and a discard then puts an old value back under the new version.
* **Drafts** (`DraftCommitProofs`). The first two are about ids, so their proof asks nothing of levels, parents or
  keys: rows are told apart by id below the counter (`Numbered`), the ids a phase holds are given to no other row
  and to none of another type, though the user adds, edits and discards rows under it (`Held`), and between a create
  that was answered and its clearing Jira has the draft (`Landed`). Rekey changes keys and keeps ids and types,
  which is why a rename does not disturb any of it. `NothingIsCreatedTwice` adds `Once`: a create row anywhere, the
  one being sent included, is of no issue of Jira's, but for the row the Commit is about to clear. Its exemptions
  are those of the property, what a behaviour has met, not what `Env` allows.
* **The rename** (`DraftCommitProofs`, second part). `TypeOK` is not inductive: `RenameKey` keeps the journal's index
  only because no row names the new key yet, so `KnownKeys` says that no key anywhere is beyond the last issue whose
  rename is done (`Last`: one less than Jira has, between the answer to a create and its Rekey). `Meaning` then follows
  a draft from the click to Jira: a key stands for one draft (`DraftOf`), read from the cache while it is temporary
  and from Jira afterwards, and every row of the journal belongs to and names the draft the user meant (`Right`),
  before and after each rename. A row a phase read earlier may still carry the temporary name; it is right as far
  as it names Jira's issues (`RightCopy`), and `Sent` says that what is sent names nothing else: a row whose copy
  names a draft is held back or refused, never sent. A draft the user discards takes its
  number with it and the next draft may get it: that is the one exemption. `Backed` is what `NoDanglingReference`
  adds: a cached draft has its create row, or Jira has its issue.
* **What a Commit leaves** (`DraftCommitProofs`, third part). `Settling` says of every row whose phase has begun that it was
  settled or its turn has still to come, and it needs two facts about drafts: one whose phase is over and that is
  still a draft blocks its key (`HeldBack`), and a draft that blocks is not sent any more in this Commit (`Blocks`), so
  what was held back for it stays settled. That a parent is of the phase before its child's (`Right`) is why three
  phases are enough for any chain. `Untouched` needs that nobody edits or discards under the Commit, the property's
  own exemption.
* **Sync** (`SyncProofs`, second part). The argument the loop never states: every issue that has not changed since the sync
  began is done, on the page about to land, or has an offset not below the loop's (`Taking`): as long as nothing
  leaves, an issue that joins the result only pushes offsets up. A page takes as many issues as the loop moves on
  by, because as many have their offsets in an interval as fit into it (`OffsetsFit`), and an empty page means that
  nothing is left (`PageOf`). The watermark is at most `Skew` ahead of Jira's clock (`Clocks`), which is where
  `Skew <= Backdate` is used; and a full sync that has cleared holds only issues in the scope (`ClearedIsIn`).
* **Moves** (`BoardMovesProofs`): `TypeOK` carries `WellKeyed` here, so `MoveIsShown` is inductive with it.
  `NoMoveLost` needs to know why clearing by id is safe: `RowsAreOld` says that an id the pass read is never
  handed out again and that a row of the journal that still carries it is of the same card and kind, so that a
  row deleted by `clearMoveRow` held exactly the value that landed. `PushedFromWhereItWas` rests on
  `ReadyAsPlanned`: a row ready to be pushed has its before value in Jira, and belongs to an issue already
  planned and not held; pushing one row moves no card another ready row is about, since a place has one row.
  `HeldForAReason` needs the most: `SeenAsItIs` says that of every move nobody else made and TAM has not
  landed, the cache, the journal, the rows to plan or clear, the page and the resolution under way all have
  the place Jira has; `JobsApart` says which of them can exist at a time; and `MoveIsShown` is what makes a
  discard put back the right place.
* **Ranks** (`RankOrderProofs`): a drop is not lost because `clearMoveRow` deletes by id and by value, the rows a pass
  clears are among those it drew the order with (`Pass`), and an id it has read stays with its card, so what is
  deleted is what was ranked; no fact about the order is needed. "early" breaks the middle part: the order is then
  drawn with rows the pass has not read.
* **The order ranks land in** (`RankOrderProofs`, the rest). First the operators: what a card taken out and put back
  next to another changes of who stands above whom (`PlacedIs`), that the cards of a finite set can be listed by any
  strict order (`Arrangement`), hence what `Among` and `CellOrder` are (`AmongIs`, `CellOrderIs`), and that laying
  all ranks over an order leaves the unranked cards as they stood (`RankCardsRedraw`: what one rank keeps, the fold
  keeps, by the least number of ranks after which it would not). Then the pass. `TypeOK` is not inductive, for a card
  can only be anchored against one Jira has: `LastInPlace` says that `prev` is the last card the pass got past without
  a failure, which is what the comment on prev asks of the code. `SettledAsDrawn` speaks of the cards the pass is
  past, and a rank inserts one of them right below `prev`, among cards the pass has not come to. So `Laid` speaks of all
  cards that stay where they are from now on (`Standing`: no rank to push, or ranked already): they stand as drawn in
  every column whose top card is one of them. A push inserts between `prev` and all that stands below it; the
  top card of a column is put there only if it is ranked, which is the property's exemption. A failed card leaves
  `Standing` for good, wherever a lost answer put it.
* **Ritual pages** (`SyncProofs`, first part): all of it is one inductive invariant. Each row keeps to its shape
  (`RowOK`: local means no page, no version and an empty base; synced means at its base) and to its page
  (`Standing`). Of a row a pass has read it still finds the page and, unless it was in conflict, the base and
  the version (`StillThere`): the user's writes without a guard change bodies only, `ForgetPage` acts on gone
  documents, which a pass skips, and only the pass makes a conflict. That is what lets `Answers`, what a pass is
  about to write down, be related to a row that may have been saved since. A pull or a push moves the version up,
  so the editor's version (`Screened`) cannot meet a newer text; and the version a row is at has its origin or was
  taken by the user (`Accounted`). Removing a document under a pass and writing it again breaks `StillThere`,
  resolving from an outdated view breaks `Accounted`; hence the last column. Confluence only adds versions
  (`Grown`), so what stood stands.
* **Sprints** (`SprintCommitProofs`): `TypeOK` is inductive with what each type of row names and what each phase
  holds (`Shape`): above all, that no row, card or phase names a sprint Jira has yet to make, and that the sprint
  just made has no start of its own, or `RekeySprint` would bring two rows to one place. A completion stops and is
  retried, and cards move under it; `Emptying` says that while it runs an unfinished card of its sprint is still to
  be moved or was touched by somebody, that a card still to be moved is one it may carry off or was touched
  (`MayCarry`: unfinished, and in the sprint or put in the backlog by Jira because somebody else closed or deleted
  it), and that such a card has no pending transition but one dragged meanwhile, for `PendingInSprint` is asked in
  the step that reads the sprint. A delete needs `Shown`, that a dragged card is drawn where it was dropped unless
  that sprint is gone: it is why `PendingInSprint`, which reads the cache, finds every drag into the sprint;
  `Doomed` carries both answers to the call. For the drafts, what names a draft has its create row (`NoneDangles`)
  because a drop needs a sprint that is drawn, a drawn draft has its row (`DraftsDrawn`), and a row a phase still
  holds by id is of the same type as the one it would delete (`RowsAreOld`); and what Jira has made is not drafted
  again (`Making`), for drafts are handed out downwards (`Ordered`), so that no number comes back. A drop on a draft
  that is gone ("stale") breaks `NoneDangles`.
* **The rows of a Test** (`TestCommitProofs`, first part). Types are inductive with the shape of each kind of row: an
  order names only steps Xray has numbered or placeholders, each of them once, and `Pruned` and a reorder keep it
  so; what is left to send is of the kind of the phase; an id given to a created step is one nobody had. The
  exemptions of the two properties that follow are what a behaviour has met (section 3.2), not what `Env` allows.
* **What pends is shown** (second part): inductive with three facts. What a Commit pushes, and what a conflict
  shows, still pends (`RowsPend`, `HeldPends`). A cached placeholder is that of a row still to be pushed, and a row
  that adds a step has its placeholder until the rename (`Placeholders`, `StepShown`), so that `nextTempStepID`
  cannot hand out a number a row has. An order lists placeholders that pend (`OrderShown`), which is why a new step,
  whose index is above all others, cannot come between two steps it names.
* **Nothing unseen is replaced** (third part, `Honest`). A pass sends without comparing when no base is older than
  Jira's version, and after comparing otherwise. The second is the easy half: `DetectConflicts` lets through what is
  untouched, and what it holds back it shows (`ConflictNow`), so that a resolution which rebases everything onto the
  version it showed has shown every text its rows are about to replace. The first half needs that a row made on the
  version Jira has was made on the text Jira has (`RowsHonest`), hence that the cache it was made from is Jira's
  under that version. Of fields that is so because a sync takes both together (`CacheHonest`). Of steps it is not: a
  sync takes the version and leaves the steps. So `StepsHonest` follows every cached step, every pending edit and
  every snapshot through the pass, call by call, saying which text Jira has at each point (`SentEdit`): as long as
  only this cache's own Commits write to Jira, or nothing was written since the version was taken, a step's text in
  Jira is the cached one, or what its pending edit replaces. A move resends the cached text, which is why it is needed
  of steps no row is about. Two facts about versions close the circle: a sent edit leaves the cached version behind
  Jira's (`SentWritten`), so no row made after it passes for current, and an edit back to Jira's own text is no row
  at all (`Changing`).

* **What is cleared stands in Jira** (fourth part, `Stands`). An added step stands at least once, and once only as
  long as no call failed and none was refused: a retry creates it again (section 7.2). One invariant for each phase
  says that what it has sent stands, and each later phase is shown to leave it standing: deletes and adds touch no
  other step, and a move resends the cached text, which is that of the edit that was sent or of the step that was
  added, because what pends is drawn even after passes that broke off (`StepsDrawn`; weaker than `StepShown`, as a
  rename that failed leaves an added step without its drawing). The queued order is the hard one (`OrderStands`,
  `MoveStands`). A step that is moved comes from behind its place: the places before it hold the steps that were
  moved before, one each (`PlaceOnto`, by the pigeonhole principle), and no two places of the order have the same
  step, as the ids a pass gives placeholders are new (`IdsGiven`, `MoverOnce`). A move from behind disturbs none of
  the places before. At the end the steps of the order without a place are those the pass deleted. That a row makes
  one step holds until a pass breaks off, since a row that is not pushed has made none (`MadeOnce`).

Only model-checked: of `TestCommit`, that an undisturbed Commit leaves Jira as the cache draws the Test
(`CalmCommitSendsAll`), and liveness (`CommitTerminates`, `SyncTerminates`). Liveness under fairness, ENABLED, and what
a recursive definition or a fold computes for every input are beyond the prover in use; of the one fold the proofs
meet they use what each of its steps preserves. `CalmCommitSendsAll` is the plan's: it needs what `OrderStands` says
of the steps an order names of those it does not name as well, through every Commit, and through the conflicts a
reorder has with the user's own earlier Commits.

## 6. Where the code and its documents disagree

Each is a run that TLC ends with a counterexample.

* **EditCommitLost** (`NoIntentLost`). An edit made over a pending field after its push reached Jira and before
  its row is cleared overwrites the same row in place, and `MarkCommitted` (discard.go:179) deletes it by id
  alone. rekey.go:82 says such an edit "must survive the overwrite". Moves do not have the defect:
  `clearMoveRow` compares the value too, and NoDropIsLost is proved.
* **TestCommitMove** (`MoveKeepsContent`). Xray's move of a step carries its text, which XTM takes from its cache
  (xtm commit.go:837). The check of a queued order compares ids alone, so a step somebody edited in Jira passes
  it, and the move writes the older text back. xtm/internal/jira/steps.go:184 says "Resending the existing
  content is idempotent".

## 7. Behaviours seen without a run

Met while modelling; the runs leave them out where the second column of section 3's table says so or the
property is not claimed of them (section 3.2).

### 7.1 TAM

* A sync moves an issue's row to the new version but leaves a pending row its old before value; editing back to
  that value deletes the row and leaves the old value in the cache under the new version, and the next edit
  passes the check (journal.go:123). EditCommitChecked has no sync for that reason. The user guide
  (00-getting-started.md:67) says Commit holds such an issue back.
* The number of a discarded draft is given to the next one (writes.go:544), and a link still naming the old draft
  goes to the new one, though committer.go:281 and held_test.go:152 expect it to fail.
* The order a board is ranked in is one list over all columns (ranks.go:118), so a card dropped to the top of a
  column other than the leftmost goes after the last card of the column before it, and may land below the cards
  it was dropped above. The boards design (line 189) says the drop line is "exactly where the card will land."
* A ritual page deleted and rendered anew while its `CreatePage` is under way takes the id and version of the page
  just created (`ApplyCreated`, run.go:169, looks at neither), so the next pass pushes the template over it or
  draws it as synced ("recreate"). A conflict resolved from a view a pass has outdated is resolved against the
  newer remote body, not the one shown ("late").

* `ResolveOverride` rebases the rows an issue has; a later edit of another field still takes the cached
  version as its base, lower than that of the oldest row, which is the only one compared (committer.go:243,
  385). `OldestBaseIsLowest` is checked without overrides for that reason.
* An override after a Commit that also pushed a move of the same card uses the version from before that move
  and meets the same conflict again (boards.go:333).
* After a failed rename a full sync spares the draft's row (issues.go:167), which stays for good, though
  rekey.go:137 says "until the next sync".
* Paging by offset skips an issue when another leaves the result between two pages (syncer.go:171; "leave"). A
  full sync that fails after its first page has cleared rows the next incremental sync does not ask for
  ("partial"). A requirement type changed during a sync is overwritten by its watermark ("overlap").
* `HopelessIsHopeless` (a part of `CommitLeavesOnlyWhatFailed`) fails when drafts are made during a Commit: a child
  can be seen by a phase that never saw its parent (phases.go:235). A draft discarded or edited during its own
  CreateIssue is created as it was.
* A card dragged again while its move is pushed keeps its old before value, so the next Commit reports a
  conflict, though `MarkMoveCommitted` says the row "simply stays, for the next Commit to push". A transition
  that landed on a sibling status and whose row could not be cleared does too.
* `holdsMove`, the guard of a revert, is always true of a card the cache has (this is `MoveIsShown`, proved), so
  a discard after a sync puts the place from before the drag over the one the sync read, until the next sync.
* A conflict resolved while a sync or Commit runs can rebase from a read older than what the job read
  ("late"), and a card nobody else moved can then be held back.
* Ranks: a rank dropped between reading the rows and reading the order is in the order but not among the rows,
  and anchors others though Jira never moved its card ("early"); the topmost card goes before the second, whose
  own rank may still be pending; nothing refreshes the board after the ranks.
* Sprints: a card dragged out of a sprint is no longer counted in it (app_sprints.go:134), so a completion can be
  queued beside the drag; the sprint changes come before the board moves (phases.go:55), the completion moves the
  card by Jira's list, and the drag is then reported as a conflict though nobody else moved the card. A delete may
  be queued for the sprint a queued completion moves its cards to; they end in the backlog. A card dropped, from a
  screen drawn before, on a draft sprint that was renamed or discarded meanwhile is journaled to an id nothing
  makes real (MoveIssueToSprint looks the id up nowhere), and a later Commit fails it as errSprintNotRenamed
  ("stale"). A sprint started in Jira between requireDeletable and DeleteSprint is deleted if Jira lets it
  ("race"). A row discarded while its phase runs is still sent, from the list the phase read.
* A create, a link or a worklog whose answer is lost is sent again by the next Commit: Jira offers no key to
  tell. `CreatedAtMostOnce` is about the failures the code can tell apart.

### 7.2 XTM

* A forced refresh of the steps (`GetTestSteps`) replaces the cached steps under pending edits: they are no longer
  shown, a queued move resends the refreshed text and undoes an edit pushed a moment earlier, and the discard of
  a deleted step fails because the step is back.
* A sync moves a Test's version on while its cached steps stay as they were, so an edit or delete of a step made
  after it is based on older content and the check by version finds nothing newer.
* A selective Commit rebases the other rows of the Test onto the version it found or made without comparing them
  (commit.go:440, 879); so does a resolution. `RebaseTestConflict` matches rows by an unescaped LIKE pattern: a
  key with an underscore can match another Test's.
* A Commit that breaks off after some steps were created, for a fault or because a later one is blank
  (steps.go:101), creates them again on the retry: their rows are cleared only with the whole Test. After its own
  partial moves the order in Jira is neither the one before nor the one asked for, and comes back as a conflict.
* Steps are created in the order of the index in the snapshot each was added with (commit.go:772), which a reorder
  does not change: the queued order puts them right afterwards. Add two steps, swap them and delete one of them:
  `pruneStepFromOrder` (testrepo.go:3480) finds the order unchanged and drops it, and the step added next gets an
  index that a snapshot already has. The two are created newest first, though the list shows them the other way
  round. The comment at commit.go:768 says "creating them ascending preserves the order the user arranged".
* A Commit moves the version of the Test in Jira and not the cached one, so all that is queued after it is compared
  by value. A deletion is compared with the snapshot of the cached step, which holds the text of an edit the
  deletion dropped (conflict.go:148): editing a step and deleting it then ends in a conflict nobody else caused.
  conflict.go:134 says "conflict when I'm deleting a step someone else edited".
* Discarding an added step (testrepo.go:3853) leaves its placeholder in the queued order, and every Commit of the
  Test then fails at the move; a step added later takes the placeholder and its place. The comment at
  testrepo.go:3452 says the order is pruned "when a locally-added step is cancelled so its temporary "new-N" id can't
  survive in the order". Committing an added step by itself leaves it there too. Discarding a delete after a
  reorder gives two steps the same index.
* A field edited on an older version and taken back, or resolved to "theirs" from a screen older than the cache, shows
  the older value under the newer version; an edit made then passes the check. An edit made while a conflict is on
  the screen is rebased with the conflict's rows and never compared. Taking "theirs" for a row that was replaced
  meanwhile puts Jira's text into the cache under an edit that still pends, and a queued move then sends that text
  over the edit the same Commit has just pushed.
* When a delete was dropped because the step was gone, or landed in a pass that broke off, a queued order that
  names the step fails at its move.
* Taking Jira's side on an edit of a step deleted there writes "— deleted in Jira —" into the cached step.
* An edit made while a Commit runs is cleared with the row it folded into, as in TAM: rows are deleted by id.

## 8. What is not modelled

HTTP, JSON and authentication (the backend): what Jira does with a call is part of the action that calls it.
The schema and its migrations: they are the shape of the state. Profiles, settings and credentials: CRUD (the
one setting that resets the cursor is `SetProfileSetting` of `SyncPaging`). Reports, dashboards, exports, lanes
and counts: read-only. The audit trail: written beside the journal and read by nothing that decides. Value
parsing, parent type rules and wording. The demo backends. PIE and the front ends. Inside the modelled parts of
TAM: draft boards and board adds, worklogs, `EditFields` batches, swimlanes; of sprints, their names, goals and
dates with the edits of them, the suggestions, the membership lists, draft issues in a draft sprint, and several
boards sharing a sprint; several sprints and the choice of the root page in a ritual pass. Of XTM: folders, preconditions, custom fields, datasets, backends without step
objects, a Test deleted in Jira and created again, and a Commit that goes on after it could not clear what it found to be
in Jira already (commit.go:420: here every local failure ends the pass); the passes for new Tests, containers, requirements and runs;
its sync engine, imports, exports, coverage and traceability.

The repository has some 91 000 lines of implementation. Most of them render, parse, export or talk HTTP, and
several subsystems repeat a shape modelled here (a loop over rows of one call and one clearing; a page landing
over pending rows). The modules cover the state machines in which the order of steps decides, not most lines.

## 9. The plan

Order of the whole project; all but 10 to 12, and of 13 `CalmCommitSendsAll`, are done.

1. `Journal`, `EditCommit`, `IntentLedger`: the loop everything else repeats. Abstract specification:
   `IntentLedger`.
2. `DraftCommit`, `DraftCommitProofs`: temporary keys and the phase order; that no draft is lost or made twice.
3. `SyncPaging`: which rows are there at all.
4. `BoardMoves`, `RankOrder`: the writable board.
5. `JournalProofs`, `EditCommitProofs`: types, `PendingIsShown`, `OneRowPerChange`, then `NoIntentLost`,
   `OldestBaseIsLowest` and the refinement.
6. `BoardMovesProofs`: all its properties; `RankOrderProofs`: all its properties.
7. `RitualSync`: the one part of TAM that writes under a running job by compare-and-set; `SyncProofs`, both syncs.
8. `TestCommit`: the Commit of XTM, checked by value and pushed call by call.
9. `SprintCommit`, `SprintCommitProofs`: draft sprints, and the ceremonies queued for a Commit.
10. The edits phase and the board pass composed, for the version a card's override is based on.
11. The boards pass of a sync: a transaction per board, failures, the backfill; `EditFields` and the importer.
12. Draft boards and board adds, the edits of sprints, worklogs: the phases left.
13. `TestCommitProofs`: types, what is shown, what is replaced, and that what is cleared stands in Jira; that a calm
    Commit sends all (`CalmCommitSendsAll`) is left.
