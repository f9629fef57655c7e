----------------------------- MODULE BoardMoves -----------------------------
(***************************************************************************)
(* Cards dragged on a board: a transition to the status of another column  *)
(* and a move to another sprint, journaled by tam/internal/issuerepo and   *)
(* pushed by the board pass of Commit (tam/internal/committer/boards.go).  *)
(* A move is checked against where Jira has the card, never against a      *)
(* version, and it is cleared only while it is still what was pushed.      *)
(*                                                                         *)
(* Every store transaction and every Jira call is one step.  The names     *)
(* packed beside the ids, drafts and ranks are left out; ranks are module  *)
(* RankOrder.  The other phases of Commit find nothing to do here.         *)
(*                                                                         *)
(* Env says what a behaviour may contain:                                  *)
(*   "overlap"  cards are dragged and moves discarded while a job runs     *)
(*   "late"     a conflict is resolved while a job runs                    *)
(*   "race"     a card is moved in Jira between TAM's check and its push   *)
(*   "fault"    a call fails, an answer is lost, or the app is killed      *)
(*   "sync", "discard", "override", "keep"   the user does this            *)
(***************************************************************************)
EXTENDS Journal, FiniteSets

CONSTANTS Keys,         \* issue keys, numbered in the order Commit takes them
          Statuses,     \* the statuses of the workflow
          Columns,      \* the sets of statuses a board column collects
          Sprints,      \* the sprints, the backlog among them
          None,
          SprintBatch,  \* how many cards one sprint move carries
          MaxId,        \* bound on the journal ids handed out
          Env

Disturbances ==
    {"overlap", "late", "race", "fault", "sync", "discard", "override", "keep"}

\* The two moves.  Each has one field, named here by the type.
EntityTransition == "issue_transition"
EntitySprintMove == "issue_sprint"
MoveTypes        == {EntityTransition, EntitySprintMove}

Places(t) == IF t = EntityTransition THEN Statuses ELSE Sprints
Rows      == {r \in PendingChange(MoveTypes, Keys, MoveTypes, Statuses \cup Sprints) :
                 r.field = r.type /\ {r.before, r.after} \subseteq Places(r.type)}
IssueRow  == {p \in [MoveTypes -> Statuses \cup Sprints] : \A t \in MoveTypes : p[t] \in Places(t)}

ASSUME BoardMovesAssumption ==
    /\ Keys \subseteq Nat
    /\ None \notin Statuses \cup Sprints \cup Keys \cup IssueRow
    /\ Columns \subseteq SUBSET Statuses
    /\ SprintBatch \in Nat \ {0} /\ MaxId \in Nat
    /\ Env \subseteq Disturbances

VARIABLES
    jira,      \* where Jira has each card
    issue,     \* the issue table: where the cached row has it
    journal,   \* the pending_change table
    nextId,    \* the next AUTOINCREMENT id
    job,       \* what holds the profile's busy guard
    rows,      \* the board rows the pass read
    toPlan,    \* the issues planBoardMoves has still to take
    ready,     \* movePlan: the rows worth pushing and not pushed yet
    clearing,  \* the rows that landed, or had landed before, to be cleared
    pushed,    \* movePlan.pushed: the issues to refresh
    held,      \* the issues held back in this Commit
    page,      \* the rows a search or a refresh read
    clear,     \* the sync's next page clears the table first
    cards,     \* the conflict cards the last Commit left on screen
    resolving, \* the resolution under way
    want,      \* history: where the user last dropped each card
    others,    \* history: the moves somebody else made in Jira
    ours       \* history: the moves of TAM's that Jira took and TAM did not close

store    == <<issue, journal, nextId>>
pass     == <<rows, toPlan, ready, clearing, pushed, held>>
engine   == <<job, pass, page, clear>>
screen   == <<cards, resolving>>
drift    == <<others, ours>>
vars == <<jira, issue, journal, nextId, job, rows, toPlan, ready, clearing, pushed,
          held, page, clear, cards, resolving, want, others, ours>>

Resting == [how |-> "none", key |-> None, read |-> None]

-----------------------------------------------------------------------------
\* Mutant of reapplyPending: the move is forgotten when a fresh row lands.
reapplyNothing(k, row) == row

\* reapplyPending and applyMoveColumns: a fresh row, with what is pending.
reapplyPending(k, row) ==
    [t \in MoveTypes |-> AfterVal(journal, t, k, t, row[t])]

\* holdsMove: the cached column still has what the row put there.
holdsMove(r) == issue[r.key] # None /\ issue[r.key][r.type] = r.after

\* discardOne and revertMove over a set of rows.
Discarded(S) ==
    LET reverted == {r \in S : holdsMove(r)}
    IN  /\ issue' = [k \in Keys |->
              IF issue[k] = None THEN None
              ELSE [t \in MoveTypes |-> BeforeVal(reverted, t, k, t, issue[k][t])]]
        /\ journal' = Delete(journal, {r.id : r \in S})
        /\ want' = [k \in Keys |-> [t \in MoveTypes |->
                      IF RowsAt(S, t, k, t) = {} THEN want[k][t] ELSE None]]

-----------------------------------------------------------------------------
Init ==
    /\ jira \in [Keys -> IssueRow]
    /\ issue = jira
    /\ journal = {} /\ nextId = 1
    /\ job = "none"
    /\ rows = {} /\ toPlan = {} /\ ready = {} /\ clearing = {} /\ pushed = {} /\ held = {}
    /\ page = [k \in {} |-> None] /\ clear = FALSE
    /\ cards = {} /\ resolving = Resting
    /\ want = [k \in Keys |-> [t \in MoveTypes |-> None]]
    /\ others = {} /\ ours = {}

\* No binding but acquire takes the guard.
Unguarded(why) == why \in Env \/ (job = "none" /\ resolving = Resting)

Acquire(what) == job = "none" /\ Unguarded("late") /\ job' = what

-----------------------------------------------------------------------------
\* The user.

\* Mutant of Move: a second drag is recorded as one from where the first left
\* the card.
MoveFromLastDrop(k, t, place) ==
    LET pending == RowsAt(journal, t, k, t)
    IN  /\ Unguarded("overlap") /\ issue[k] # None
        /\ issue[k][t] # place /\ nextId <= MaxId
        /\ journal' = (journal \ pending) \cup
                Put({}, nextId, t, k, t, issue[k][t], place, 0)
        /\ nextId' = nextId + 1
        /\ issue' = [issue EXCEPT ![k][t] = place]
        /\ want' = [want EXCEPT ![k][t] = place]
        /\ UNCHANGED <<jira, engine, screen, drift>>

\* recordMove of a card dropped somewhere new: journaled, or the row already
\* there overwritten, and the cached column moved.
Move(k, t, place) ==
    LET pending == RowsAt(journal, t, k, t)
    IN  /\ Unguarded("overlap") /\ issue[k] # None
        /\ \A r \in pending : place \notin {r.before, r.after}
        /\ pending = {} => issue[k][t] # place /\ nextId <= MaxId
        /\ journal' = Put(journal, nextId, t, k, t, issue[k][t], place, 0)
        /\ nextId' = IF pending = {} THEN nextId + 1 ELSE nextId
        /\ issue' = [issue EXCEPT ![k][t] = place]
        /\ want' = [want EXCEPT ![k][t] = place]
        /\ UNCHANGED <<jira, engine, screen, drift>>

\* recordMove of a card dragged home: the row goes, and the column goes back
\* while it still has what the row put there.
Undo(r) ==
    /\ Unguarded("overlap") /\ issue[r.key] # None
    /\ journal' = journal \ {r}
    /\ issue' = IF holdsMove(r) THEN [issue EXCEPT ![r.key][r.type] = r.before] ELSE issue
    /\ want' = [want EXCEPT ![r.key][r.type] = None]
    /\ UNCHANGED <<jira, nextId, engine, screen, drift>>

\* DiscardPendingChange.
DiscardPendingChange(r) ==
    /\ "discard" \in Env /\ Unguarded("overlap")
    /\ Discarded({r})
    /\ UNCHANGED <<jira, nextId, engine, screen, drift>>

\* ResolveOverride: the base versions it rewrites are read by no move; the
\* issue is read, and the rows held back are rebased onto what was read.
OverrideRead(k) ==
    /\ "override" \in Env /\ Unguarded("late")
    /\ resolving = Resting
    /\ IF ListForKey(journal, k) = {}
       THEN cards' = cards \ {k} /\ UNCHANGED resolving
       ELSE resolving' = [how |-> "rebase", key |-> k, read |-> jira[k]] /\ UNCHANGED cards
    /\ UNCHANGED <<jira, store, engine, want, drift>>

\* Mutant of RebaseMoves: a row whose target Jira already has is rebased too.
RebaseMovesBlindly ==
    /\ resolving.how = "rebase"
    /\ journal' = {IF r.key = resolving.key /\ resolving.read[r.type] # r.before
                   THEN [r EXCEPT !.before = resolving.read[r.type]] ELSE r : r \in journal}
    /\ cards' = cards \ {resolving.key}
    /\ resolving' = Resting
    /\ UNCHANGED <<jira, issue, nextId, engine, want, drift>>

RebaseMoves ==
    /\ resolving.how = "rebase"
    /\ journal' = {IF r.key = resolving.key /\ resolving.read[r.type] \notin {r.before, r.after}
                   THEN [r EXCEPT !.before = resolving.read[r.type]] ELSE r : r \in journal}
    /\ cards' = cards \ {resolving.key}
    /\ resolving' = Resting
    /\ UNCHANGED <<jira, issue, nextId, engine, want, drift>>

\* ResolveKeepRemote: read, discard, replace.
KeepRead(k) ==
    /\ "keep" \in Env /\ Unguarded("late")
    /\ resolving = Resting
    /\ resolving' = [how |-> "discard", key |-> k, read |-> jira[k]]
    /\ UNCHANGED <<jira, store, engine, cards, want, drift>>

KeepDiscard ==
    /\ resolving.how = "discard"
    /\ Discarded(ListForKey(journal, resolving.key))
    /\ resolving' = [resolving EXCEPT !.how = "replace"]
    /\ UNCHANGED <<jira, nextId, engine, cards, drift>>

KeepReplace ==
    /\ resolving.how = "replace"
    /\ issue' = [issue EXCEPT ![resolving.key] = reapplyPending(resolving.key, resolving.read)]
    /\ cards' = cards \ {resolving.key}
    /\ resolving' = Resting
    /\ UNCHANGED <<jira, journal, nextId, engine, want, drift>>

ResolutionFails ==
    /\ "fault" \in Env
    /\ resolving # Resting
    /\ resolving' = Resting
    /\ UNCHANGED <<jira, store, engine, cards, want, drift>>

\* Somebody else moves the card in Jira.
RemoteMove(k, t, place) ==
    /\ jira[k][t] # place
    /\ "race" \in Env \/ RowsAt(ready, t, k, t) = {}
    /\ jira' = [jira EXCEPT ![k][t] = place]
    /\ others' = others \cup {<<k, t>>}
    /\ UNCHANGED <<store, engine, screen, want, ours>>

-----------------------------------------------------------------------------
\* The board pass: plan every issue, then the sprint moves, then the
\* transitions, then the refreshes.

CommitStart ==
    /\ Acquire("commit")
    /\ rows' = journal /\ toPlan' = {r.key : r \in journal}
    /\ cards' = {}
    /\ UNCHANGED <<jira, store, ready, clearing, pushed, held, page, clear, resolving, want, drift>>

\* Mutant of classifyMove: whatever is not satisfied is pushed.
classifyByAfter(r, remote) == IF r.after = remote THEN "satisfied" ELSE "push"

classifyMove(r, remote) ==
    IF r.after = remote THEN "satisfied"
    ELSE IF r.before = remote THEN "push" ELSE "conflict"

\* The user's move is where he asked for it.
Reached(S) ==
    want' = [k \in Keys |-> [t \in MoveTypes |->
                IF \E r \in RowsAt(S, t, k, t) : r.after = want[k][t] THEN None ELSE want[k][t]]]

\* planBoardMoves, one issue: satisfied rows are cleared, and the issue is
\* held back whole when one of its moves disagrees with Jira.
Plan(k) ==
    LET Classified(verdict) ==
            {r \in rows : r.key = k /\ classifyMove(r, jira[k][r.type]) = verdict}
    IN  /\ job = "commit" /\ clearing = {}
        /\ k \in toPlan /\ \A other \in toPlan : k <= other
        /\ toPlan' = toPlan \ {k}
        /\ clearing' = Classified("satisfied")
        /\ Reached(Classified("satisfied"))
        /\ IF Classified("conflict") = {}
           THEN ready' = ready \cup Classified("push") /\ UNCHANGED held
           ELSE held' = held \cup {k} /\ UNCHANGED ready
        /\ UNCHANGED <<jira, store, job, rows, pushed, page, clear, screen, drift>>

\* GetIssue failed: the rows stay.
PlanFails(k) ==
    /\ "fault" \in Env
    /\ job = "commit" /\ clearing = {}
    /\ k \in toPlan /\ \A other \in toPlan : k <= other
    /\ toPlan' = toPlan \ {k}
    /\ UNCHANGED <<jira, store, job, rows, ready, clearing, pushed, held, page, clear,
                   screen, want, drift>>

\* Mutant of clearMoveRow: the row goes by id, whatever it holds by now.
clearMoveById(r) == Delete(journal, {r.id})

\* clearMoveRow: the row goes while it is still what was pushed.
clearMoveRow(r) == {s \in journal : ~(s.id = r.id /\ s.after = r.after)}

ClearMove(r) ==
    /\ r \in clearing
    /\ clearing' = clearing \ {r}
    /\ journal' = clearMoveRow(r)
    /\ Reached({r})
    /\ ours' = IF journal' # journal /\ jira[r.key][r.type] = r.after
               THEN ours \ {<<r.key, r.type>>} ELSE ours
    /\ UNCHANGED <<jira, issue, nextId, job, rows, toPlan, ready, pushed, held, page, clear,
                   screen, others>>

ClearFails(r) ==
    /\ "fault" \in Env
    /\ r \in clearing
    /\ clearing' = clearing \ {r}
    /\ UNCHANGED <<jira, store, job, rows, toPlan, ready, pushed, held, page, clear,
                   screen, want, drift>>

Pushing == job = "commit" /\ toPlan = {} /\ clearing = {}

\* What Jira makes of a push: the cards of S are in the given place.
Land(S, place) ==
    /\ jira' = [k \in Keys |-> [t \in MoveTypes |->
                   IF RowsAt(S, t, k, t) = {} THEN jira[k][t] ELSE place]]
    /\ ours' = ours \cup {<<r.key, r.type>> : r \in S}
    /\ Reached(S)

\* pushSprints: one batch, the first cards in key order bound for one sprint.
Batch(target) ==
    LET bound == {r \in ready : r.type = EntitySprintMove /\ r.after = target}
    IN  {r \in bound : Cardinality({s \in bound : s.key < r.key}) < SprintBatch}

PushSprints(target) ==
    LET S == Batch(target)
    IN  /\ Pushing /\ S # {}
        /\ Land(S, target)
        /\ ready' = ready \ S /\ clearing' = S
        /\ pushed' = pushed \cup {r.key : r \in S}
        /\ UNCHANGED <<store, job, rows, toPlan, held, page, clear, screen, others>>

\* The call failed: some of the cards may have moved, and every row stays.
PushSprintsFails(target) ==
    LET S == Batch(target)
    IN  /\ "fault" \in Env
        /\ Pushing /\ S # {}
        /\ \E T \in SUBSET S : Land(T, target)
        /\ ready' = ready \ S
        /\ UNCHANGED <<store, job, rows, toPlan, clearing, pushed, held, page, clear,
                       screen, others>>

\* ColumnStatuses: the journaled status and its siblings on a board.
ColumnStatuses(status) == {status} \cup UNION {c \in Columns : status \in c}

\* pushTransitions, the next issue.
NextTransition(r) ==
    /\ Pushing
    /\ \A s \in ready : s.type = EntityTransition
    /\ r \in ready /\ \A s \in ready : r.key <= s.key

\* The workflow reaches one of the statuses of the column.
PushTransition(r) ==
    /\ NextTransition(r)
    /\ \E status \in ColumnStatuses(r.after) : Land({r}, status)
    /\ ready' = ready \ {r} /\ clearing' = {r}
    /\ pushed' = pushed \cup {r.key}
    /\ UNCHANGED <<store, job, rows, toPlan, held, page, clear, screen, others>>

\* No status is reachable, or the call failed, or its answer was lost.
PushTransitionFails(r) ==
    /\ "fault" \in Env
    /\ NextTransition(r)
    /\ \/ \E status \in ColumnStatuses(r.after) : Land({r}, status)
       \/ UNCHANGED <<jira, ours, want>>
    /\ ready' = ready \ {r}
    /\ UNCHANGED <<store, job, rows, toPlan, clearing, pushed, held, page, clear,
                   screen, others>>

\* refresh: the issue is read back, and its row replaced.
Reread(k) ==
    /\ Pushing /\ ready = {} /\ DOMAIN page = {}
    /\ k \in pushed
    /\ pushed' = pushed \ {k}
    /\ page' = [j \in {k} |-> jira[j]]
    /\ UNCHANGED <<jira, store, job, rows, toPlan, ready, clearing, held, clear,
                   screen, want, drift>>

\* What a page makes of the issue table.
Landed(cleared) ==
    [k \in Keys |-> IF k \in DOMAIN page THEN reapplyPending(k, page[k])
                    ELSE IF cleared THEN None ELSE issue[k]]

Replace ==
    /\ job = "commit" /\ DOMAIN page # {}
    /\ issue' = Landed(FALSE)
    /\ page' = [k \in {} |-> None]
    /\ UNCHANGED <<jira, journal, nextId, job, pass, clear, screen, want, drift>>

RefreshFails ==
    /\ "fault" \in Env
    /\ job = "commit" /\ DOMAIN page # {}
    /\ page' = [k \in {} |-> None]
    /\ UNCHANGED <<jira, store, job, pass, clear, screen, want, drift>>

CommitEnds ==
    /\ Pushing /\ ready = {} /\ pushed = {} /\ DOMAIN page = {}
    /\ job' = "none" /\ rows' = {}
    /\ cards' = held /\ held' = {}
    /\ UNCHANGED <<jira, store, toPlan, ready, clearing, pushed, page, clear, resolving,
                   want, drift>>

-----------------------------------------------------------------------------
\* A sync: one search page and one transaction at a time.
SyncStart(full) ==
    /\ "sync" \in Env
    /\ Acquire("sync")
    /\ clear' = full
    /\ UNCHANGED <<jira, store, pass, page, screen, want, drift>>

SearchPage(K) ==
    /\ job = "sync" /\ DOMAIN page = {}
    /\ page' = [k \in K |-> jira[k]]
    /\ UNCHANGED <<jira, store, job, pass, clear, screen, want, drift>>

UpsertPage ==
    /\ job = "sync"
    /\ DOMAIN page # {} \/ clear
    /\ issue' = Landed(clear)
    /\ page' = [k \in {} |-> None] /\ clear' = FALSE
    /\ UNCHANGED <<jira, journal, nextId, job, pass, screen, want, drift>>

SyncEnds ==
    /\ job = "sync" /\ DOMAIN page = {}
    /\ job' = "none" /\ clear' = FALSE
    /\ UNCHANGED <<jira, store, pass, page, screen, want, drift>>

\* The app is killed: the store is on disk, everything else is gone.
Crash ==
    /\ "fault" \in Env
    /\ job # "none" \/ resolving # Resting
    /\ job' = "none"
    /\ rows' = {} /\ toPlan' = {} /\ ready' = {} /\ clearing' = {} /\ pushed' = {} /\ held' = {}
    /\ page' = [k \in {} |-> None] /\ clear' = FALSE
    /\ cards' = {} /\ resolving' = Resting
    /\ UNCHANGED <<jira, store, want, drift>>

UserStep ==
    \/ \E k \in Keys, t \in MoveTypes : \E place \in Places(t) : Move(k, t, place)
    \/ \E r \in journal : Undo(r) \/ DiscardPendingChange(r)
    \/ \E k \in cards : OverrideRead(k) \/ KeepRead(k)
    \/ RebaseMoves \/ KeepDiscard \/ KeepReplace \/ ResolutionFails

CommitStep ==
    \/ \E k \in Keys : Plan(k) \/ PlanFails(k)
    \/ \E r \in clearing : ClearMove(r) \/ ClearFails(r)
    \/ \E target \in Sprints : PushSprints(target) \/ PushSprintsFails(target)
    \/ \E r \in ready : PushTransition(r) \/ PushTransitionFails(r)
    \/ \E k \in pushed : Reread(k)
    \/ Replace \/ RefreshFails \/ CommitEnds

SyncStep ==
    \/ \E K \in SUBSET Keys : SearchPage(K)
    \/ UpsertPage \/ SyncEnds

Next ==
    \/ UserStep
    \/ CommitStart \/ CommitStep
    \/ \E full \in BOOLEAN : SyncStart(full)
    \/ SyncStep
    \/ \E k \in Keys, t \in MoveTypes : \E place \in Places(t) : RemoteMove(k, t, place)
    \/ Crash

Spec == Init /\ [][Next]_vars

-----------------------------------------------------------------------------
TypeOK ==
    /\ jira \in [Keys -> IssueRow]
    /\ issue \in [Keys -> IssueRow \cup {None}]
    /\ journal \subseteq Rows /\ WellKeyed(journal)
    /\ \A r \in journal : r.before # r.after /\ r.id < nextId
    /\ nextId \in Nat \ {0}
    /\ job \in {"none", "commit", "sync"}
    /\ rows \subseteq Rows /\ ready \subseteq rows /\ clearing \subseteq rows
    /\ toPlan \subseteq Keys /\ pushed \subseteq Keys
    /\ held \subseteq Keys /\ cards \subseteq Keys
    /\ job # "commit" => rows = {} /\ toPlan = {} /\ pushed = {} /\ held = {}
    /\ DOMAIN page \subseteq Keys /\ \A k \in DOMAIN page : page[k] \in IssueRow
    /\ clear \in BOOLEAN
    /\ resolving \in [how: {"rebase", "discard", "replace"}, key: Keys, read: IssueRow]
                        \cup {Resting}
    /\ want \in [Keys -> [MoveTypes -> Statuses \cup Sprints \cup {None}]]
    /\ others \subseteq Keys \X MoveTypes /\ ours \subseteq Keys \X MoveTypes

\* A dragged card stays where it was dropped: whatever a sync, a refresh or a
\* resolution brought last, the cached column has what is pending.  (The
\* guard of revertMove and of an undo, holdsMove, is then always true of a
\* card the cache has: a discard puts the older place back over what a sync
\* read.)
MoveIsShown ==
    \A r \in journal : issue[r.key] # None => holdsMove(r)

\* A drop is not thrown away because the pass was pushing the one before it:
\* until Jira has the card where it was last dropped, or the user took the
\* drop back, the journal carries it (the comment on MarkMoveCommitted).
NoMoveLost ==
    \A k \in Keys, t \in MoveTypes :
        want[k][t] # None => \E r \in RowsAt(journal, t, k, t) : r.after = want[k][t]

\* A push takes a card only from where the user saw it when dragging it, and
\* never one of an issue the same Commit holds back: no half of an intent
\* lands, and a move whose answer was lost is not made a second time.
PushedFromWhereItWas ==
    [][ready' # ready /\ jira' # jira =>
          \A r \in ready \ ready' : jira'[r.key] # jira[r.key] =>
              jira[r.key][r.type] = r.before /\ r.key \notin held]_vars

\* A card is held back only when somebody else moved it, or when Jira took a
\* move of TAM's that TAM could not close: its row had changed under the
\* push, could not be cleared, or reached a sibling of the status asked for.
HeldForAReason ==
    [][\A k \in held' \ held : \E t \in MoveTypes : <<k, t>> \in others \cup ours]_vars
=============================================================================
