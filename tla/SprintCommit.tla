---------------------------- MODULE SprintCommit ----------------------------
(***************************************************************************)
(* Sprints drafted, started, completed and deleted in TAM, and the cards   *)
(* dragged between them: the rows tam/internal/issuerepo queues            *)
(* (sprintdrafts.go, sprintwrites.go, sprintceremonies.go), the phases of  *)
(* a Commit that send them (tam/internal/committer: createSprints,         *)
(* pushSprintWrites, the board moves), and the service that asks Jira      *)
(* before it writes (tam/internal/sprints).                                *)
(*                                                                         *)
(* A sprint is its id: positive in Jira, negative for a draft.  Names,     *)
(* goals, dates, and the edits of them are left out, and so are draft      *)
(* issues, the boards a sprint is on, and the order of its cards.  A card  *)
(* is finished or not.  The board moves of one card are one step here;     *)
(* module BoardMoves takes them apart.                                     *)
(*                                                                         *)
(* Env says what a behaviour may contain:                                  *)
(*   "outside"  somebody changes sprints and cards in Jira                 *)
(*   "race"     also between TAM's reading of a sprint and its deletion    *)
(*   "refresh"  the boards are refreshed and the issues synced             *)
(*   "overlap"  cards are dragged, and rows discarded, while Commit runs   *)
(*   "discard"  pending changes are discarded                              *)
(*   "stale"    a card is dropped on a draft that is drawn and gone        *)
(*   "fault"    a call fails, an answer is lost, or the app is killed      *)
(***************************************************************************)
EXTENDS Journal, FiniteSets

CONSTANTS Cards,       \* cards, numbered in the order Commit takes them
          Held,        \* the sprints Jira starts with: 1..Held
          MaxSprints,  \* bound on the sprints Jira ever has
          MaxDrafts,   \* bound on the drafts
          PushBatch,   \* how many cards one push of a completion carries
          MaxActs,     \* bound on what users do, in TAM and in Jira, and on faults
          Env

Disturbances == {"outside", "race", "refresh", "overlap", "discard", "stale", "fault"}

ASSUME SprintCommitAssumption ==
    /\ Cards \subseteq Nat \ {0}
    /\ {Held, MaxSprints, MaxDrafts, MaxActs} \subseteq Nat /\ Held <= MaxSprints
    /\ PushBatch \in Nat \ {0}
    /\ Env \subseteq Disturbances

Backlog == 0
Real    == 1..MaxSprints
Drafts  == (-MaxDrafts)..(-1)
Ids     == Real \cup Drafts \cup {Backlog}
States  == {"none", "future", "active", "closed"}

\* The rows, each with one field, named here by the type.
EntitySprintCreate   == "sprint_create"
EntitySprintStart    == "sprint_start"
EntitySprintComplete == "sprint_complete"
EntitySprintDelete   == "sprint_delete"
EntitySprintMove     == "issue_sprint"
EntityTransition     == "issue_transition"  \* to the last column: finished
SprintWrites == <<EntitySprintStart, EntitySprintComplete, EntitySprintDelete>>
WriteTypes   == {SprintWrites[k] : k \in DOMAIN SprintWrites}
MoveTypes    == {EntitySprintMove, EntityTransition}
Types        == WriteTypes \cup MoveTypes \cup {EntitySprintCreate}
Row          == PendingChange(Types, Ids \cup Cards, Types, Ids)

VARIABLES
    sprint,    \* Jira's sprints: the state of each, "none" when there is none
    born,      \* the last id Jira gave a sprint
    place,     \* the sprint Jira has each card in
    finished,  \* the cards finished in Jira
    cached,    \* the sprint table, drafts included
    column,    \* the cached sprint_id of each card
    journal,   \* the pending_change table
    nextId,    \* the next AUTOINCREMENT id
    lowest,    \* draftSprintSeq: the last draft id handed out
    acts,      \* what users have done, and faults, so far
    pc,        \* where the Commit is
    todo,      \* the rows it has still to take in this phase
    doing,     \* the row under way, in a set
    made,      \* the id Jira answered a create with, 0 for none
    unsent,    \* the unfinished cards a completion has still to move
    forgotten, \* history: drafts Jira has and TAM could not rename
    makes,     \* history: what sprints were made of each draft
    unknown,   \* history: drafts whose create TAM could not record
    disturbed  \* history: the cards touched since TAM read a sprint's

jira    == <<sprint, born, place, finished>>
store   == <<cached, column, journal, nextId, lowest>>
commit  == <<pc, todo, doing, made, unsent>>
history == <<forgotten, makes, unknown>>
vars == <<jira, store, acts, commit, history, disturbed>>

Init ==
    /\ sprint \in {s \in [Real -> States] : \A i \in Real :
                      s[i] \in IF i <= Held THEN {"future", "active"} ELSE {"none"}}
    /\ born = Held
    /\ place \in [Cards -> 0..Held] /\ finished \in SUBSET Cards
    /\ cached = [i \in Real \cup Drafts |-> IF i \in Real THEN sprint[i] ELSE "none"]
    /\ column = place
    /\ journal = {} /\ nextId = 1 /\ lowest = 0 /\ acts = 0
    /\ pc = "idle" /\ todo = {} /\ doing = {} /\ made = 0 /\ unsent = {}
    /\ forgotten = {} /\ makes = {} /\ unknown = {} /\ disturbed = {}

-----------------------------------------------------------------------------
\* The journal and the cache.

Queued(type, s) == RowsAt(journal, type, s, type) # {}
Open(table, s)  == s = Backlog \/ (s \in DOMAIN table /\ table[s] \in {"future", "active"})

\* pendingInSprint: rows of the cards the cache has in the sprint.  The code
\* counts a card's edits, ranks, links and worklogs too; they are not rows of
\* this module, and what they refuse ends as a failed read does.
PendingInSprint(s) == {r \in journal : r.type \in MoveTypes /\ column[r.key] = s}

\* holdsMove: the cached column still has what the row put there.
HoldsMove(r) == r.type = EntitySprintMove /\ column[r.key] = r.after

\* revertMove of the rows in S, put over the columns.
Reverted(S) ==
    [c \in Cards |-> LET home == {r \in S : r.key = c /\ HoldsMove(r)}
                     IN  BeforeVal(home, EntitySprintMove, c, EntitySprintMove, column[c])]

\* rewriteSprintID: every column and every move that names one sprint names
\* another, and so does what the caller passes as rows.
Named(id, from, to) == IF id = from THEN to ELSE id
RewrittenRows(rows, from, to) ==
    {IF r.type = EntitySprintMove
     THEN [r EXCEPT !.before = Named(@, from, to), !.after = Named(@, from, to)] ELSE r : r \in rows}
RewrittenColumn(columns, from, to) == [c \in Cards |-> Named(columns[c], from, to)]

\* A row as Jira has it, with the pending move over it (reapplyPending).
Fresh(rows, places) ==
    [c \in Cards |-> AfterVal(rows, EntitySprintMove, c, EntitySprintMove, places[c])]

\* ReplaceSprints: Jira's list, beside the drafts.
Refreshed == [i \in DOMAIN cached |-> IF i \in Real THEN sprint[i] ELSE cached[i]]

-----------------------------------------------------------------------------
\* The user.  What a dialog queues takes the profile's guard; a drag and a
\* discard do not.
Act == acts < MaxActs /\ acts' = acts + 1

Guarded   == Act /\ pc = "idle" /\ UNCHANGED <<jira, commit, history, disturbed>>
Unguarded == Act /\ (pc = "idle" \/ "overlap" \in Env) /\ UNCHANGED <<jira, commit, history>>

Touches(S) == disturbed' = IF pc \in {"moving", "delete"} THEN disturbed \cup S ELSE disturbed

\* Mutant of Enqueue: every write inserts a row.
EnqueueAnew(type, key, before, after) ==
    /\ journal' = Inserted(journal, nextId, type, key, type, before, after, 0)
    /\ nextId' = nextId + 1

\* journal.Put: a place of the journal has one row.
Enqueue(type, key, before, after) ==
    /\ journal' = Put(journal, nextId, type, key, type, before, after, 0)
    /\ nextId' = nextId + 1

CreateDraftSprint ==
    /\ Guarded
    /\ lowest > -MaxDrafts
    /\ lowest' = lowest - 1
    /\ cached' = [cached EXCEPT ![lowest - 1] = "future"]
    /\ Enqueue(EntitySprintCreate, lowest - 1, 0, 0)
    /\ UNCHANGED column

\* JournalSprintStart: a draft still in the journal, or a future sprint.
StartSprint(s) ==
    /\ Guarded
    /\ IF s \in Drafts THEN Queued(EntitySprintCreate, s)
       ELSE cached[s] = "future" /\ ~Queued(EntitySprintDelete, s)
    /\ Enqueue(EntitySprintStart, s, 0, 0)
    /\ UNCHANGED <<cached, column, lowest>>

\* Mutant of CheckComplete: pending changes of the cards are not counted.
CheckCompleteOnlyState(s, to) == to \in Real \cup {Backlog} /\ to # s /\ cached[s] # "future"

\* CheckComplete: what a completion can be refused for without Jira.
CheckComplete(s, to) ==
    /\ to \in Real \cup {Backlog} /\ to # s
    /\ cached[s] # "future"
    /\ PendingInSprint(s) = {}

\* CompleteSprint and JournalSprintComplete.  Any sprint id is taken, though
\* the dialog offers future sprints.
CompleteSprint(s, to) ==
    /\ Guarded
    /\ CheckComplete(s, to)
    /\ cached[s] # "none" /\ ~Queued(EntitySprintDelete, s)
    /\ Enqueue(EntitySprintComplete, s, 0, to)
    /\ UNCHANGED <<cached, column, lowest>>

\* DeleteSprint of a sprint Jira has, and JournalSprintDelete.
DeleteSprint(s) ==
    /\ Guarded
    /\ PendingInSprint(s) = {}
    /\ ~Queued(EntitySprintStart, s) /\ ~Queued(EntitySprintComplete, s)
    /\ cached[s] = "future"
    /\ Enqueue(EntitySprintDelete, s, 0, 0)
    /\ UNCHANGED <<cached, column, lowest>>

\* MoveToSprint: recordMove of a card dropped on a sprint that is offered.
\* Back where the row found it the move is undone; on what it has, nothing.
Offered == {s \in Ids : Open(cached, s) \/ ("stale" \in Env /\ s \in lowest..(-1))}

MoveToSprint(c, s) ==
    LET pending == RowsAt(journal, EntitySprintMove, c, EntitySprintMove)
    IN  /\ Unguarded
        /\ s \in Offered
        /\ s # AfterVal(pending, EntitySprintMove, c, EntitySprintMove, column[c])
        /\ IF \E r \in pending : s = r.before
           THEN /\ journal' = journal \ pending /\ column' = Reverted(pending)
                /\ UNCHANGED nextId
           ELSE /\ Enqueue(EntitySprintMove, c, column[c], s)
                /\ column' = [column EXCEPT ![c] = s]
        /\ Touches({c})
        /\ UNCHANGED <<cached, lowest>>

\* MoveToColumn: a card dropped on the last column.
MoveToDone(c) ==
    /\ Unguarded
    /\ RowsAt(journal, EntityTransition, c, EntityTransition) = {} /\ c \notin finished
    /\ Enqueue(EntityTransition, c, 0, 0)
    /\ Touches({c})
    /\ UNCHANGED <<cached, column, lowest>>

\* DiscardPendingChange: a draft sprint takes with it the moves into it, its
\* start, and its row in the sprint table (discardDraftSprint).
DiscardPendingChange(r) ==
    LET with == IF r.type # EntitySprintCreate THEN {r}
                ELSE {p \in journal : \/ p = r
                                      \/ p.type = EntitySprintMove /\ p.after = r.key
                                      \/ p.type = EntitySprintStart /\ p.key = r.key}
    IN  /\ "discard" \in Env /\ Unguarded
        /\ IF r.type = EntitySprintCreate
           THEN /\ journal' = RewrittenRows(journal \ with, r.key, Backlog)
                /\ column' = RewrittenColumn(Reverted(with), r.key, Backlog)
                /\ cached' = [cached EXCEPT ![r.key] = "none"]
           ELSE journal' = journal \ with /\ column' = Reverted(with) /\ UNCHANGED cached
        /\ Touches({p.key : p \in {p \in with : p.type \in MoveTypes}})
        /\ UNCHANGED <<nextId, lowest>>

RefreshBoards ==
    /\ "refresh" \in Env /\ Guarded
    /\ cached' = Refreshed
    /\ UNCHANGED <<column, journal, nextId, lowest>>

SyncIssues ==
    /\ "refresh" \in Env /\ Guarded
    /\ column' = Fresh(journal, place)
    /\ UNCHANGED <<cached, journal, nextId, lowest>>

-----------------------------------------------------------------------------
\* Jira, and somebody in it.

\* What Jira makes of a close: unfinished cards still there go to the backlog.
Close(s) ==
    /\ sprint' = [sprint EXCEPT ![s] = "closed"]
    /\ place' = [c \in Cards |-> IF place[c] = s /\ c \notin finished THEN Backlog ELSE place[c]]

\* What Jira makes of a deletion: its cards go to the backlog.
Destroy(s) ==
    /\ sprint' = [sprint EXCEPT ![s] = "none"]
    /\ place' = RewrittenColumn(place, s, Backlog)

Outside == "outside" \in Env /\ Act /\ UNCHANGED <<born, store, commit, history>>

RemoteState(s) ==
    /\ Outside
    /\ pc # "delete" \/ "race" \in Env
    /\ \/ sprint[s] = "future" /\ sprint' = [sprint EXCEPT ![s] = "active"] /\ UNCHANGED place
       \/ sprint[s] = "active" /\ Close(s)
       \/ sprint[s] = "future" /\ Destroy(s)
    /\ UNCHANGED <<finished, disturbed>>

RemoteCard(c) ==
    /\ Outside
    /\ \/ \E s \in Ids : Open(sprint, s) /\ s # place[c] /\ place' = [place EXCEPT ![c] = s]
          /\ UNCHANGED finished
       \/ finished' = (finished \ {c}) \cup ({c} \ finished) /\ UNCHANGED place
    /\ Touches({c})
    /\ UNCHANGED sprint

-----------------------------------------------------------------------------
\* Commit: the sprints phase.
Oldest(S) == {r \in S : \A p \in S : r.id <= p.id}
Took(r)   == todo' = todo \ {r}

\* A call, or a local write, goes well or does not.
Goes  == UNCHANGED acts
Fails == "fault" \in Env /\ Act

CommitStart ==
    /\ pc = "idle" /\ pc' = "creates"
    /\ todo' = {r \in journal : r.type = EntitySprintCreate}
    /\ UNCHANGED <<jira, store, acts, doing, made, unsent, history, disturbed>>

\* CreateSprint reached Jira.
Lands(d) ==
    /\ born < MaxSprints /\ born' = born + 1
    /\ sprint' = [sprint EXCEPT ![born + 1] = "future"]
    /\ makes' = makes \cup {<<d, born + 1>>}

RemoteCreate(r) ==
    /\ pc = "creates" /\ r \in Oldest(todo)
    /\ Lands(r.key)
    /\ doing' = {r} /\ Took(r)
    /\ \/ Goes /\ pc' = "rekey" /\ made' = born + 1
       \/ Fails /\ pc' = "forget" /\ made' = 0  \* answered with no id
    /\ UNCHANGED <<place, finished, store, unsent, forgotten, unknown, disturbed>>

\* Refused, or it landed and the answer was lost.
RemoteCreateFails(r) ==
    /\ pc = "creates" /\ r \in Oldest(todo)
    /\ \/ Fails /\ Lands(r.key) /\ unknown' = unknown \cup {r.key}
       \/ /\ IF born < MaxSprints THEN Fails ELSE Goes  \* the bound refuses
          /\ UNCHANGED <<sprint, born, makes, unknown>>
    /\ Took(r)
    /\ UNCHANGED <<place, finished, store, pc, doing, made, unsent, forgotten, disturbed>>

\* Mutant of Rekeyed: the start of the draft keeps the draft's id.
RekeyedWithoutStart(rows, d, id) ==
    RewrittenRows({r \in rows : ~(r.type = EntitySprintCreate /\ r.key = d)}, d, id)

\* What RekeySprint makes of the journal: the create row goes, moves and the
\* start of the draft name the real sprint.
Rekeyed(rows, d, id) ==
    {IF r.type = EntitySprintStart THEN [r EXCEPT !.key = Named(@, d, id)] ELSE r :
        r \in RewrittenRows({r \in rows : ~(r.type = EntitySprintCreate /\ r.key = d)}, d, id)}

\* RekeySprint, or ErrDraftSprintGone when the draft was discarded meanwhile.
RekeySprint(r) ==
    /\ pc = "rekey" /\ r \in doing
    /\ IF Queued(EntitySprintCreate, r.key)
       THEN /\ journal' = Rekeyed(journal, r.key, made)
            /\ column' = RewrittenColumn(column, r.key, made)
            /\ cached' = [cached EXCEPT ![r.key] = "none", ![made] = "future"]
       ELSE UNCHANGED <<cached, column, journal>>
    /\ pc' = "creates" /\ doing' = {} /\ made' = 0
    /\ UNCHANGED <<jira, nextId, lowest, acts, todo, unsent, history, disturbed>>

RekeyFails ==
    /\ Fails
    /\ pc = "rekey" /\ pc' = "forget"
    /\ UNCHANGED <<jira, store, todo, doing, made, unsent, history, disturbed>>

\* MarkSprintCreatedWithoutRekey: the draft goes; what names it stays.
ForgetSprint(r) ==
    /\ pc = "forget" /\ r \in doing
    /\ \/ /\ Goes
          /\ journal' = {p \in journal : ~(p.type = EntitySprintCreate /\ p.key = r.key)}
          /\ cached' = [cached EXCEPT ![r.key] = "none"]
          /\ forgotten' = forgotten \cup {r.key} /\ UNCHANGED unknown
       \/ Fails /\ unknown' = unknown \cup {r.key} /\ UNCHANGED <<journal, cached, forgotten>>
    /\ pc' = "creates" /\ doing' = {} /\ made' = 0
    /\ UNCHANGED <<jira, column, nextId, lowest, todo, unsent, makes, disturbed>>

-----------------------------------------------------------------------------
\* Commit: the sprint changes phase, kind by kind and oldest first.
StartChanges ==
    /\ pc = "creates" /\ todo = {}
    /\ pc' = "changes" /\ todo' = {r \in journal : r.type \in WriteTypes}
    /\ UNCHANGED <<jira, store, acts, doing, made, unsent, history, disturbed>>

NextChange(type) ==
    {r \in Oldest({r \in todo : r.type = type}) :
        \A k, m \in DOMAIN SprintWrites :
            SprintWrites[m] = type /\ k < m => ~\E p \in todo : p.type = SprintWrites[k]}

\* Held, refused by a check, or failed before Jira was asked to change
\* anything: the row stays.
Leave(r) ==
    /\ Took(r)
    /\ UNCHANGED <<jira, store, pc, doing, unsent, disturbed>>

Sent(r) == Took(r) /\ doing' = {r} /\ pc' = "settle"

\* Start: Jira starts a sprint that never was.
PushStart(r) ==
    /\ pc = "changes" /\ r \in NextChange(EntitySprintStart)
    /\ \/ /\ r.key \in Real /\ sprint[r.key] = "future"
          /\ sprint' = [sprint EXCEPT ![r.key] = "active"]
          /\ \/ Goes /\ Sent(r)
             \/ Fails /\ Took(r) /\ UNCHANGED <<doing, pc>>  \* the answer is lost
          /\ UNCHANGED <<born, place, finished, store, unsent, disturbed>>
       \/ /\ IF r.key \in Real /\ sprint[r.key] = "future" THEN Fails ELSE Goes
          /\ Leave(r)
    /\ UNCHANGED <<made, history>>

\* Mutant of Unfinished: a card's status is not asked.
UnfinishedOrNot(s) == {c \in Cards : place[c] = s}

\* Mutant of Unfinished: the answer of a search that ignores the sprint is
\* not narrowed again.
UnfinishedAnywhere(s) == Cards \ finished

\* Mutant of Unfinished: the cards are taken from the cache.
UnfinishedCached(s) == {c \in Cards \ finished : column[c] = s}

\* sprintIssues: the cards Jira has in the sprint that did not finish.
Unfinished(s) == {c \in Cards \ finished : place[c] = s}

\* Complete, up to the cards it reads; a sprint the cache has as closed was
\* completed before, and its row goes.
ReadSprint(r) ==
    LET allowed == CheckComplete(r.key, r.after) /\ cached[r.key] # "none"
    IN  /\ pc = "changes" /\ r \in NextChange(EntitySprintComplete)
        /\ Took(r)
        /\ \/ /\ Goes /\ allowed /\ cached[r.key] # "closed"
              /\ pc' = "moving" /\ doing' = {r}
              /\ unsent' = Unfinished(r.key) /\ disturbed' = {}
              /\ UNCHANGED journal
           \/ /\ Goes /\ allowed /\ cached[r.key] = "closed"
              /\ journal' = Delete(journal, {r.id})
              /\ UNCHANGED <<pc, doing, unsent, disturbed>>
           \/ /\ IF allowed THEN Fails ELSE Goes
              /\ UNCHANGED <<journal, pc, doing, unsent, disturbed>>
        /\ UNCHANGED <<jira, cached, column, nextId, lowest, made, history>>

Batch == {c \in unsent : Cardinality({d \in unsent : d < c}) < PushBatch}

\* MoveIssuesToSprint of one batch; Jira takes no cards into a sprint that is
\* closed or gone.
MoveBatch(r) ==
    /\ pc = "moving" /\ r \in doing /\ unsent # {}
    /\ Open(sprint, r.after)
    /\ place' = [c \in Cards |-> IF c \in Batch THEN r.after ELSE place[c]]
    /\ unsent' = unsent \ Batch
    /\ UNCHANGED <<sprint, born, finished, store, acts, pc, todo, doing, made, history, disturbed>>

\* The push stopped: some of the batch may have moved, and the row stays.
MoveBatchFails(r) ==
    /\ pc = "moving" /\ r \in doing /\ unsent # {}
    /\ IF Open(sprint, r.after) THEN Fails ELSE Goes
    /\ \E S \in SUBSET Batch :
          /\ S # {} => Open(sprint, r.after)
          /\ place' = [c \in Cards |-> IF c \in S THEN r.after ELSE place[c]]
    /\ pc' = "changes" /\ doing' = {} /\ unsent' = {}
    /\ UNCHANGED <<sprint, born, finished, store, todo, made, history, disturbed>>

CloseSprint(r) ==
    LET active == sprint[r.key] = "active"
    IN  /\ pc = "moving" /\ r \in doing /\ unsent = {}
        /\ \/ Goes /\ active /\ Close(r.key) /\ pc' = "settle" /\ UNCHANGED doing
           \/ /\ IF active THEN Fails ELSE Goes
              /\ UNCHANGED <<sprint, place>> \/ (active /\ Close(r.key))
              /\ pc' = "changes" /\ doing' = {}
        /\ UNCHANGED <<born, finished, store, todo, made, unsent, history, disturbed>>

\* Mutant of Deletable: the state is taken from the cache.
DeletableCached(s) == cached[s] = "future"

\* requireDeletable: what Jira says of the sprint.
Deletable(s) == sprint[s] = "future"

\* Delete, up to what it reads: the sprint is to go, gone already, or kept; a
\* list with no sprint at all is not believed (jiraSprint).
ReadDoomed(r) ==
    LET allowed == /\ PendingInSprint(r.key) = {}
                   /\ \E s \in Real : sprint[s] # "none"
                   /\ Deletable(r.key) \/ sprint[r.key] = "none"
    IN  /\ pc = "changes" /\ r \in NextChange(EntitySprintDelete)
        /\ \/ /\ Goes /\ allowed
              /\ pc' = IF Deletable(r.key) THEN "delete" ELSE "settle"
              /\ Took(r) /\ doing' = {r} /\ disturbed' = {}
              /\ UNCHANGED <<jira, store, unsent>>
           \/ /\ IF allowed THEN Fails ELSE Goes
              /\ Leave(r)
        /\ UNCHANGED <<made, history>>

RemoteDelete(r) ==
    /\ pc = "delete" /\ r \in doing
    /\ \/ Goes /\ Destroy(r.key) /\ pc' = "settle" /\ UNCHANGED doing
       \/ /\ Fails
          /\ Destroy(r.key) \/ UNCHANGED <<sprint, place>>
          /\ pc' = "changes" /\ doing' = {}
    /\ UNCHANGED <<born, finished, store, todo, made, unsent, history, disturbed>>

\* After the call: the sprint list is read again, a deleted sprint goes from
\* the cards (forget), and the row is cleared; each of these can fail.
Settle(r) ==
    LET deleted == r.type = EntitySprintDelete
        dropped == IF deleted THEN [cached EXCEPT ![r.key] = "none"] ELSE cached
        blanked == IF deleted THEN RewrittenColumn(column, r.key, Backlog) ELSE column
        cleared == Delete(journal, {r.id})
    IN  /\ pc = "settle" /\ r \in doing
        /\ \/ Goes /\ cached' = Refreshed /\ column' = blanked /\ journal' = cleared
           \/ /\ Fails
              /\ cached' \in {Refreshed, dropped, cached}
              /\ column' \in {blanked, column}
              /\ journal' \in {cleared, journal}
        /\ pc' = "changes" /\ doing' = {}
        /\ UNCHANGED <<jira, nextId, lowest, todo, made, unsent, history, disturbed>>

-----------------------------------------------------------------------------
\* Commit: the board moves, one card a step.
StartMoves ==
    /\ pc = "changes" /\ todo = {}
    /\ pc' = "moves"
    /\ todo' = {r \in journal : r.type \in MoveTypes /\ r.after >= 0}
    /\ UNCHANGED <<jira, store, acts, doing, made, unsent, history, disturbed>>

\* classifyMove.
Remote(r)    == IF r.type = EntitySprintMove THEN place[r.key] ELSE Backlog
Satisfied(r) == IF r.type = EntitySprintMove THEN r.after = place[r.key] ELSE r.key \in finished
Conflict(r)  == r.type = EntitySprintMove /\ place[r.key] \notin {r.before, r.after}

\* A card whose rows agree with Jira or with where they found it there is
\* pushed; what fails, or reaches a sprint that takes no cards, stays.
PushCard(c) ==
    LET mine  == {r \in todo : r.key = c}
        met   == {r \in mine : Satisfied(r)}
        ready == IF \E r \in mine : Conflict(r) THEN {} ELSE mine \ met
        may   == {r \in ready : r.type = EntityTransition \/ Open(sprint, r.after)}
    IN  /\ pc = "moves" /\ mine # {} /\ \A r \in todo : c <= r.key
        /\ \E landed \in SUBSET may : \E cleared \in SUBSET (met \cup landed) :
              LET fine == cleared = met \cup may
              IN  /\ IF fine THEN Goes ELSE Fails
                  /\ place' = [place EXCEPT ![c] =
                                  AfterVal(landed, EntitySprintMove, c, EntitySprintMove, @)]
                  /\ finished' = IF \E r \in landed : r.type = EntityTransition
                                 THEN finished \cup {c} ELSE finished
                  /\ journal' = {p \in journal : ~\E r \in cleared : p.id = r.id /\ p.after = r.after}
                  /\ \/ column' = [column EXCEPT ![c] = Fresh(journal', place')[c]] /\ landed # {}
                     \/ UNCHANGED column /\ (landed # {} => ~fine)
        /\ todo' = todo \ mine
        /\ UNCHANGED <<sprint, born, cached, nextId, lowest, pc, doing, made, unsent,
                       history, disturbed>>

CommitEnds ==
    /\ pc = "moves" /\ todo = {}
    /\ pc' = "idle" /\ disturbed' = {}
    /\ UNCHANGED <<jira, store, acts, todo, doing, made, unsent, history>>

\* The app is killed: the store is on disk, everything else is gone.
Crash ==
    /\ Fails /\ pc # "idle"
    /\ pc' = "idle" /\ todo' = {} /\ doing' = {} /\ made' = 0 /\ unsent' = {}
    /\ unknown' = unknown \cup {r.key : r \in {r \in doing : r.type = EntitySprintCreate}}
    /\ disturbed' = {}
    /\ UNCHANGED <<jira, store, forgotten, makes>>

UserStep ==
    \/ CreateDraftSprint
    \/ \E s \in Real \cup Drafts : StartSprint(s)
    \/ \E s \in Real : DeleteSprint(s) \/ \E to \in Real \cup {Backlog} : CompleteSprint(s, to)
    \/ \E c \in Cards : MoveToDone(c) \/ \E s \in Ids : MoveToSprint(c, s)
    \/ \E r \in journal : DiscardPendingChange(r)
    \/ RefreshBoards \/ SyncIssues

CommitStep ==
    \/ \E r \in todo : RemoteCreate(r) \/ RemoteCreateFails(r)
    \/ \E r \in doing : RekeySprint(r) \/ ForgetSprint(r)
    \/ RekeyFails \/ StartChanges
    \/ \E r \in todo : PushStart(r) \/ ReadSprint(r) \/ ReadDoomed(r)
    \/ \E r \in doing : MoveBatch(r) \/ MoveBatchFails(r) \/ CloseSprint(r)
    \/ \E r \in doing : RemoteDelete(r) \/ Settle(r)
    \/ StartMoves \/ CommitEnds
    \/ \E c \in Cards : PushCard(c)

Next ==
    \/ UserStep
    \/ \E s \in Real : RemoteState(s)
    \/ \E c \in Cards : RemoteCard(c)
    \/ CommitStart \/ CommitStep
    \/ Crash

Spec == Init /\ [][Next]_vars

-----------------------------------------------------------------------------
TypeOK ==
    /\ sprint \in [Real -> States] /\ born \in 0..MaxSprints
    /\ place \in [Cards -> Real \cup {Backlog}] /\ finished \subseteq Cards
    /\ cached \in [Real \cup Drafts -> States] /\ column \in [Cards -> Ids]
    /\ journal \subseteq Row /\ WellKeyed(journal) /\ \A r \in journal : r.id < nextId
    /\ nextId \in Nat \ {0} /\ lowest \in (-MaxDrafts)..0 /\ acts \in 0..MaxActs
    /\ pc \in {"idle", "creates", "rekey", "forget", "changes", "moving", "delete", "settle", "moves"}
    /\ todo \subseteq Row /\ doing \subseteq Row /\ Cardinality(doing) <= 1
    /\ made \in 0..MaxSprints /\ unsent \subseteq Cards
    /\ forgotten \subseteq Drafts /\ unknown \subseteq Drafts
    /\ makes \subseteq Drafts \X Real /\ disturbed \subseteq Cards

\* A placeholder nothing will ever make real is named nowhere, save by what
\* was bound for a sprint TAM lost sight of (errSprintNotRenamed).
Placeholders ==
    Drafts \cap ({column[c] : c \in Cards}
                 \cup {r.key : r \in {r \in journal : r.type = EntitySprintStart}}
                 \cup UNION {{r.before, r.after} : r \in {r \in journal : r.type = EntitySprintMove}})
NoneDangles == \A d \in Placeholders : Queued(EntitySprintCreate, d) \/ d \in forgotten

\* A draft Jira has a sprint for is not offered for creation again, unless
\* TAM could not know or record that it has.
NoneLingers ==
    \A m \in makes : Queued(EntitySprintCreate, m[1]) =>
        m[1] \in unknown \/ \E r \in doing : r.key = m[1]

\* A draft sprint stands in the journal from its drafting until Jira has it,
\* and no longer; cards and starts follow it to the sprint it became, or back
\* when it is discarded, whatever is dragged meanwhile.
DraftsAreResolved == NoneDangles /\ NoneLingers

\* A sprint TAM closes has no unfinished card left in it that Jira would put
\* where nobody asked, save cards somebody touched while it was being emptied.
NoneLeftBehind ==
    \A s \in Real : sprint[s] # "closed" /\ sprint'[s] = "closed" /\ pc' # pc =>
        \A c \in Cards \ finished : place[c] = s => c \in disturbed

\* A completion never carries off, as unfinished, a card the board shows
\* finished in that sprint (the comment on Pending in sprints.go).
FinishedStays ==
    \A r \in doing : pc = "moving" /\ unsent' # unsent =>
        \A c \in Cards :
            place'[c] # place[c] /\ column[c] = r.key /\ Queued(EntityTransition, c)
                => c \in disturbed

\* A card a completion may carry off: unfinished, and in its sprint, or put in
\* the backlog by Jira when somebody else closed or deleted the sprint.
MayCarry(c, s) ==
    /\ c \notin finished
    /\ place[c] = s \/ (place[c] = Backlog /\ ~Open(sprint, s))

\* "It can only ever move fewer cards, never more" (the comment on
\* sprintIssues): no card leaves its place by a completion but such a card, or
\* one somebody touched since the sprint was read.
NoneCarriedOff ==
    \A r \in doing : pc = "moving" /\ unsent' # unsent =>
        \A c \in Cards : place'[c] # place[c] => MayCarry(c, r.key) \/ c \in disturbed

\* A completion moves the unfinished cards of its sprint, all of them and no
\* others, however it is stopped and retried and whatever Jira or a user
\* changed since it was queued; what is touched while it runs is not judged.
CompletionMovesUnfinished == [][NoneLeftBehind /\ NoneCarriedOff /\ FinishedStays]_vars

\* A sprint TAM deletes was never started, and no drag is bound for it but
\* one made while it was being deleted (the comment on CheckDelete).
DeletesOnlyIdle ==
    [][\A s \in Real : sprint[s] # "none" /\ sprint'[s] = "none" /\ pc' # pc =>
          /\ sprint[s] = "future"
          /\ \A r \in journal : r.type = EntitySprintMove /\ r.after = s => r.key \in disturbed]_vars
=============================================================================
