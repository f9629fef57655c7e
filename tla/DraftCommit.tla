---------------------------- MODULE DraftCommit ----------------------------
(***************************************************************************)
(* Issues drafted offline and what names them: the create row of a draft   *)
(* (tam/internal/issuerepo), the parent of another draft, the parent edit  *)
(* of a synced issue and a link, and the phases of Commit that turn a      *)
(* temporary key into Jira's (tam/internal/committer).                     *)
(*                                                                         *)
(* A key is a number: n for the n-th issue of the project, -n for the draft*)
(* TAM-NEW-n, 0 for none.  Every store transaction and every Jira call is  *)
(* one step.  Whether an edit meets a conflict is module EditCommit's      *)
(* business; here Jira takes it or refuses it.  Sprints are left out.      *)
(*                                                                         *)
(* Env says what a behaviour may contain:                                  *)
(*   "overlap"  bindings that take no guard run while Commit runs          *)
(*   "refused"  Jira refuses a write      "lost"   its answer is lost      *)
(*   "rename"   Rekey fails               "clear"  a journal delete fails  *)
(*   "stale"    a refresh or a reload of the journal fails                 *)
(*   "crash"    the app is killed         "discard", "edit"  the user does *)
(***************************************************************************)
EXTENDS Journal, Sequences, FiniteSets

CONSTANTS MaxDraft,  \* bound on n of TAM-NEW-n
          MaxIssue,  \* bound on the issues of the project
          MaxId,     \* bound on the journal ids handed out
          Together,  \* the disturbances one behaviour may meet together
          Seed,      \* the issues Jira and the cache start with
          Env

Disturbances ==
    {"overlap", "refused", "lost", "rename", "clear", "stale", "crash",
     "discard", "edit"}

None == 0

\* The draft levels, and what an issue of each hangs off.
Epic    == 1
Issue   == 2
Subtask == 3
Levels  == {Epic, Issue, Subtask}

EntityIssueCreate == "issue_create"
EntityIssue       == "issue"
EntityLink        == "link"

ASSUME DraftCommitAssumption ==
    /\ MaxDraft \in Nat /\ MaxIssue \in Nat /\ MaxId \in Nat
    /\ Seed \in Seq(Levels) /\ Len(Seed) <= MaxIssue
    /\ Env \subseteq Disturbances /\ Together \subseteq SUBSET Env

isDraftKey(k) == k < 0
Keys == {k \in Int : -MaxDraft <= k}

\* What a row asks for: a draft with its level and parent, or only the key
\* an edit or a link names.  For the properties it remembers which draft the
\* row was of and which draft it named when the user asked for it.
Ask  == [level: Levels \cup {None}, to: Keys, of: Int, meant: Int]
Rows == PendingChange({EntityIssueCreate, EntityIssue, EntityLink}, Keys, Keys, Ask)

VARIABLES
    jira,     \* the issues of the project; draft is the create row each came from
    links,    \* the links Jira holds
    issue,    \* the issue table
    journal,  \* the pending_change table
    nextId,   \* the next AUTOINCREMENT id
    pc,       \* the next step of the Commit
    phase,    \* the phase it is in
    todo,     \* the rows the phase has still to take, as it read them
    cur,      \* the row it is at
    blocked,  \* dependencies.blocked
    failed,   \* the rows Result.Failures reports as answered with an error
    met       \* which disturbances the behaviour has met

store   == <<issue, journal, nextId>>
remote  == <<jira, links>>
engine  == <<pc, phase, todo, cur, blocked, failed>>
vars == <<jira, links, issue, journal, nextId, pc, phase, todo, cur, blocked, failed, met>>

\* Which draft an issue of Jira, or a cached key, is.
Whose(k) == IF k = None THEN None ELSE jira[k].draft
Who(k)   == IF k \in DOMAIN issue THEN issue[k].draft ELSE None

\* The row of an issue as GetIssue and the search answer it.
Fresh(k) == [level |-> jira[k].level, to |-> jira[k].parent, draft |-> jira[k].draft]

CreateRows(k) == RowsAt(journal, EntityIssueCreate, k, None)
Asked(level, to, of) == [level |-> level, to |-> to, of |-> of, meant |-> Who(to)]
Nothing == [level |-> None, to |-> None, of |-> None, meant |-> None]

Init ==
    /\ jira = [k \in 1..Len(Seed) |-> [draft |-> -k, level |-> Seed[k], parent |-> None]]
    /\ links = {}
    /\ issue = [k \in 1..Len(Seed) |-> Fresh(k)]
    /\ journal = {} /\ nextId = 1
    /\ pc = "idle" /\ phase = 0 /\ todo = {} /\ cur = None
    /\ blocked = {} /\ failed = {} /\ met = {}

-----------------------------------------------------------------------------
\* The user.  None of these bindings takes the busy guard.
Unguarded ==
    /\ "overlap" \in Env \/ pc = "idle"
    /\ met' = IF pc = "idle" THEN met ELSE met \cup {"overlap"}

\* validateParent.
ValidParent(level, key, parent) ==
    IF parent = None THEN level # Subtask
    ELSE /\ level # Epic /\ parent # key
         /\ parent \in DOMAIN issue
         /\ issue[parent].level = IF level = Subtask THEN Issue ELSE Epic

\* nextDraftNumberTx: one past the highest draft the cache holds.
DraftNumbers  == {-k : k \in {d \in DOMAIN issue : isDraftKey(d)}}
NextDraft     == 1 + (IF DraftNumbers = {} THEN 0
                      ELSE CHOOSE n \in DraftNumbers : \A m \in DraftNumbers : m <= n)

\* What MaxIssue leaves for Jira to create.
Room == MaxIssue - Len(jira) - Cardinality({r \in journal : r.type = EntityIssueCreate})

\* CreateDrafts, one draft: the placeholder row and its create row.
CreateDraft(level, parent) ==
    LET key == -NextDraft
    IN  /\ Unguarded
        /\ nextId <= MaxId /\ NextDraft <= MaxDraft /\ Room > 0
        /\ ValidParent(level, key, parent)
        /\ issue' = [k \in DOMAIN issue \cup {key} |->
                        IF k = key THEN [level |-> level, to |-> parent, draft |-> nextId]
                        ELSE issue[k]]
        /\ journal' = Put(journal, nextId, EntityIssueCreate, key, None,
                          Nothing, Asked(level, parent, nextId), 0)
        /\ nextId' = nextId + 1
        /\ UNCHANGED <<remote, engine>>

\* EditField of parentKey on a draft: its create row is rewritten, and an
\* edit of a draft without one fails.
EditDraftParent(k, parent) ==
    /\ "edit" \in Env /\ Unguarded
    /\ isDraftKey(k) /\ CreateRows(k) # {}
    /\ issue[k].to # parent
    /\ ValidParent(issue[k].level, k, parent)
    /\ issue' = [issue EXCEPT ![k].to = parent]
    /\ journal' = Overwritten(journal, CreateRows(k), Asked(issue[k].level, parent, Who(k)))
    /\ UNCHANGED <<remote, nextId, engine>>

\* EditField of parentKey on an issue of Jira: journaled by Upsert, which takes
\* the row away when the key it began with is asked for again, whoever was meant.
ParentRows(k) == RowsAt(journal, EntityIssue, k, None)

EditParent(k, parent) ==
    /\ "edit" \in Env /\ Unguarded
    /\ ~isDraftKey(k)
    /\ issue[k].to # parent
    /\ ValidParent(issue[k].level, k, parent)
    /\ ParentRows(k) = {} => nextId <= MaxId
    /\ issue' = [issue EXCEPT ![k].to = parent]
    /\ journal' = IF \E r \in ParentRows(k) : r.before.to = parent THEN journal \ ParentRows(k)
                  ELSE Upsert(journal, nextId, EntityIssue, k, None,
                              Asked(None, issue[k].to, Who(k)), Asked(None, parent, Who(k)), 0)
    /\ nextId' = IF ParentRows(k) = {} THEN nextId + 1 ELSE nextId
    /\ UNCHANGED <<remote, engine>>

\* AddLink (the links cached with an issue's detail are left out): refused when the same link is already pending.
AddLink(k, to) ==
    /\ Unguarded
    /\ nextId <= MaxId
    /\ k # to /\ RowsAt(journal, EntityLink, k, to) = {}
    /\ journal' = Put(journal, nextId, EntityLink, k, to, Nothing, Asked(None, to, Who(k)), 0)
    /\ nextId' = nextId + 1
    /\ UNCHANGED <<remote, issue, engine>>

\* DiscardPendingChange: a create row takes its draft with it, and only it; an
\* edit puts the parent back; a link has nothing to put back.
DiscardPendingChange(r) ==
    /\ "discard" \in Env /\ ("overlap" \in Env \/ pc = "idle")
    /\ met' = met \cup {"discard"} \cup (IF pc = "idle" THEN {} ELSE {"overlap"})
    /\ \/ /\ r.type = EntityIssueCreate
          /\ issue' = [k \in DOMAIN issue \ {r.key} |-> issue[k]]
       \/ /\ r.type = EntityIssue
          /\ issue' = [k \in DOMAIN issue |->
                          IF k = r.key THEN [issue[k] EXCEPT !.to = r.before.to] ELSE issue[k]]
       \/ /\ r.type = EntityLink
          /\ UNCHANGED issue
    /\ journal' = Delete(journal, {r.id})
    /\ UNCHANGED <<remote, nextId, engine>>

\* UpsertPage as a full sync runs it: synced rows go, drafts stay, and pending
\* edits are written back.
reapplyPending(row, k) ==
    [row EXCEPT !.to = AfterVal(journal, EntityIssue, k, None, row).to]

FullSync ==
    /\ pc = "idle"
    /\ issue' = [k \in {d \in DOMAIN issue : isDraftKey(d)} \cup DOMAIN jira |->
                    IF isDraftKey(k) THEN issue[k] ELSE reapplyPending(Fresh(k), k)]
    /\ UNCHANGED <<remote, journal, nextId, engine, met>>

-----------------------------------------------------------------------------
\* Commit: epics, then issues, then sub-tasks, then edits, then links.
Phases == 1..5

\* Mutant of levelOf: sub-tasks belong to no phase.
levelWithoutSubtasks(level) == IF level = Subtask THEN 0 ELSE level

\* levelOf: which create phase a draft belongs to.
levelOf(level) == level

InPhase(r, p) ==
    \/ r.type = EntityIssueCreate /\ levelOf(r.after.level) = p
    \/ r.type = EntityIssue /\ p = 4
    \/ r.type = EntityLink /\ p = 5

\* The order a phase takes its rows in: drafts by number, with a create row
\* left under a real key last, edits by key, links by id.
draftOrdinal(r) ==
    IF r.type = EntityIssueCreate THEN (IF isDraftKey(r.key) THEN -r.key ELSE MaxDraft + r.id)
    ELSE IF r.type = EntityIssue THEN r.key ELSE r.id

\* reload at the start of a phase.
Reload(p) == phase' = p /\ todo' = {r \in journal : InPhase(r, p)}

CommitStart ==
    /\ pc = "idle" /\ Room >= 0
    /\ Reload(1)
    /\ pc' = "next"
    /\ blocked' = {} /\ failed' = {}
    /\ UNCHANGED <<remote, store, cur, met>>

\* The keys of a row the phase asks the dependencies about.
Waits(r) == IF r.type = EntityLink THEN {r.key, r.after.to} ELSE {r.after.to}

\* A link whose source is a draft that is not blocked is left for next time.
Left(r) == r.type = EntityLink /\ isDraftKey(r.key) /\ r.key \notin blocked

\* dependencies.hold: a held draft blocks its own key in turn.
Hold(r) ==
    /\ ~Left(r) /\ Waits(r) \cap blocked # {}
    /\ blocked' = IF isDraftKey(r.key) THEN blocked \cup {r.key} ELSE blocked
    /\ UNCHANGED <<pc, cur>>

\* A row naming a draft nothing in this Commit knows fails for good.
Fail(r) ==
    /\ ~Left(r) /\ Waits(r) \cap blocked = {}
    /\ isDraftKey(r.after.to)
    /\ blocked' = IF r.type = EntityIssueCreate THEN blocked \cup {r.key} ELSE blocked
    /\ UNCHANGED <<pc, cur>>

\* Every other row is sent.
Go(r) ==
    /\ ~Left(r) /\ Waits(r) \cap blocked = {}
    /\ ~isDraftKey(r.after.to)
    /\ pc' = "send" /\ cur' = r
    /\ UNCHANGED blocked

Take(r) ==
    /\ pc = "next"
    /\ r \in todo /\ \A s \in todo : draftOrdinal(r) <= draftOrdinal(s)
    /\ todo' = todo \ {r}
    /\ \/ Left(r) /\ UNCHANGED <<pc, cur, blocked>>
       \/ Hold(r) \/ Fail(r) \/ Go(r)
    /\ UNCHANGED <<remote, store, phase, failed, met>>

Done == pc' = "next" /\ cur' = None

\* CreateIssue, UpdateIssue and CreateLink landing in Jira.
Land ==
    \/ /\ cur.type = EntityIssueCreate
       /\ jira' = Append(jira, [draft |-> cur.id, level |-> cur.after.level,
                                parent |-> cur.after.to])
       /\ UNCHANGED links
    \/ /\ cur.type = EntityIssue
       /\ jira' = [jira EXCEPT ![cur.key].parent = cur.after.to]
       /\ UNCHANGED links
    \/ /\ cur.type = EntityLink
       /\ links' = links \cup {[from |-> cur.key, to |-> cur.after.to]}
       /\ UNCHANGED jira

Send ==
    /\ pc = "send"
    /\ Land
    /\ pc' = IF cur.type = EntityIssueCreate THEN "rekey" ELSE "clear"
    /\ UNCHANGED <<store, phase, todo, cur, blocked, failed, met>>

\* Mutant of Refused: what waits for a refused draft is not held.
RefusedUnblocked ==
    /\ pc = "send"
    /\ "refused" \in Env /\ UNCHANGED remote
    /\ failed' = failed \cup {cur.id}
    /\ Done
    /\ UNCHANGED <<store, phase, todo, blocked, met>>

\* Mutant of Refused: a refused draft is cleared the way a created one is.
RefusedForgotten ==
    /\ pc = "send" /\ "refused" \in Env
    /\ blocked' = blocked \cup {cur.key}
    /\ failed' = failed \cup {cur.id}
    /\ pc' = "forget"
    /\ UNCHANGED <<remote, store, phase, todo, cur, met>>

\* The write was answered with an error: Jira refused it, or applied it and
\* the answer was lost.  A draft that was not created blocks its key.
Refused ==
    /\ pc = "send"
    /\ \/ "refused" \in Env /\ UNCHANGED <<remote, met>>
       \/ "lost" \in Env /\ Land /\ met' = met \cup {"lost"}
    /\ blocked' = IF cur.type = EntityIssueCreate THEN blocked \cup {cur.key} ELSE blocked
    /\ failed' = failed \cup {cur.id}
    /\ Done
    /\ UNCHANGED <<store, phase, todo>>

\* Mutants of Renamed: the rows naming the draft stay behind, or every
\* reference is repointed.
RenamedAlone(journalled, from, to) ==
    {[r EXCEPT !.key = IF @ = from THEN to ELSE @] : r \in journalled}
RenamedAll(journalled, from, to) ==
    {[r EXCEPT !.key = IF @ = from THEN to ELSE @,
               !.after.to = IF isDraftKey(@) THEN to ELSE @] : r \in journalled}

\* What Rekey makes of the journal: the rows of the draft follow it, and so do
\* the parent of a draft or of an edit and the target of a link naming it.
Renamed(journalled, from, to) ==
    {[r EXCEPT !.key = IF @ = from THEN to ELSE @,
               !.after.to = IF @ = from THEN to ELSE @,
               !.field = IF r.type = EntityLink /\ @ = from THEN to ELSE @] : r \in journalled}

\* Rekey, one transaction.
Rekey ==
    LET real == Len(jira)
        Moved(k) == IF k = cur.key THEN real ELSE k
    IN  /\ pc = "rekey"
        /\ journal' = Renamed(journal, cur.key, real)
        /\ issue' = [k \in {Moved(d) : d \in DOMAIN issue} |->
                        LET row == issue[IF k = real /\ cur.key \in DOMAIN issue THEN cur.key ELSE k]
                        IN  [row EXCEPT !.to = Moved(@)]]
        /\ cur' = [cur EXCEPT !.key = real]
        /\ pc' = "clear"
        /\ UNCHANGED <<remote, nextId, phase, todo, blocked, failed, met>>

RekeyFails ==
    /\ "rename" \in Env
    /\ pc = "rekey"
    /\ blocked' = blocked \cup {cur.key}
    /\ failed' = failed \cup {cur.id}
    /\ pc' = "forget"
    /\ UNCHANGED <<remote, store, phase, todo, cur, met>>

\* Mutant of MarkCreatedWithoutRekey: the creation is audited, the create row kept.
CreatedStillPending ==
    /\ pc = "forget"
    /\ Done
    /\ UNCHANGED <<remote, store, phase, todo, blocked, failed, met>>

\* MarkCreatedWithoutRekey: the create row goes, the draft row keeps its key.
MarkCreatedWithoutRekey ==
    /\ pc = "forget"
    /\ journal' = Delete(journal, {cur.id})
    /\ Done
    /\ UNCHANGED <<remote, issue, nextId, phase, todo, blocked, failed, met>>

\* MarkCommitted: the row that landed goes.
MarkCommitted ==
    /\ pc = "clear"
    /\ journal' = Delete(journal, {cur.id})
    /\ IF cur.type = EntityLink THEN Done ELSE pc' = "refresh" /\ UNCHANGED cur
    /\ UNCHANGED <<remote, issue, nextId, phase, todo, blocked, failed, met>>

ClearFails ==
    /\ "clear" \in Env
    /\ pc \in {"clear", "forget"}
    /\ failed' = failed \cup {cur.id}
    /\ met' = met \cup {"clear"}
    /\ Done
    /\ UNCHANGED <<remote, store, phase, todo, blocked>>

\* refresh: the row is replaced by Jira's, pending edits on top.
Refresh ==
    /\ pc = "refresh"
    /\ issue' = [k \in DOMAIN issue \cup {cur.key} |->
                    IF k = cur.key THEN reapplyPending(Fresh(k), k) ELSE issue[k]]
    /\ Done
    /\ UNCHANGED <<remote, journal, nextId, phase, todo, blocked, failed, met>>

RefreshFails ==
    /\ "stale" \in Env
    /\ pc = "refresh"
    /\ Done
    /\ UNCHANGED <<remote, store, phase, todo, blocked, failed, met>>

\* Mutant of NextPhase: the loop over the phases runs one too far.
NextPhasePast ==
    /\ pc = "next" /\ todo = {} /\ phase \in Phases
    /\ Reload(phase + 1)
    /\ UNCHANGED <<remote, store, pc, cur, blocked, failed, met>>

NextPhase ==
    /\ pc = "next" /\ todo = {} /\ phase + 1 \in Phases
    /\ Reload(phase + 1)
    /\ UNCHANGED <<remote, store, pc, cur, blocked, failed, met>>

\* The last phase is over, or the journal could not be read again after one.
CommitEnds ==
    /\ pc = "next" /\ todo = {}
    /\ phase + 1 \notin Phases \/ "stale" \in Env
    /\ pc' = "idle" /\ phase' = 0
    /\ blocked' = {} /\ failed' = {}
    /\ UNCHANGED <<remote, store, todo, cur, met>>

Crash ==
    /\ "crash" \in Env /\ pc # "idle"
    /\ pc' = "idle" /\ phase' = 0 /\ todo' = {} /\ cur' = None
    /\ blocked' = {} /\ failed' = {}
    /\ met' = met \cup {"crash"}
    /\ UNCHANGED <<remote, store>>

UserStep ==
    \/ \E level \in Levels, parent \in DOMAIN issue \cup {None} : CreateDraft(level, parent)
    \/ \E k \in DOMAIN issue, parent \in DOMAIN issue \cup {None} :
          EditDraftParent(k, parent) \/ EditParent(k, parent)
    \/ \E k, to \in DOMAIN issue : AddLink(k, to)
    \/ \E r \in journal : DiscardPendingChange(r)

CommitStep ==
    \/ \E r \in todo : Take(r)
    \/ Send \/ Refused \/ Rekey \/ RekeyFails
    \/ MarkCreatedWithoutRekey \/ MarkCommitted \/ ClearFails
    \/ Refresh \/ RefreshFails \/ NextPhase \/ CommitEnds

Next ==
    /\ UserStep \/ FullSync \/ CommitStart \/ CommitStep \/ Crash
    /\ \E ds \in Together : met' \subseteq ds

Spec == Init /\ [][Next]_vars

-----------------------------------------------------------------------------
TypeOK ==
    /\ jira \in Seq([draft: Int, level: Levels, parent: Keys])
    /\ links \subseteq [from: Keys, to: Keys]
    /\ DOMAIN issue \subseteq Keys
    /\ \A k \in DOMAIN issue : issue[k] \in [level: Levels, to: Keys, draft: Int]
    /\ journal \subseteq Rows /\ todo \subseteq Rows /\ WellKeyed(journal)
    /\ nextId \in Nat \ {0}
    /\ pc \in {"idle", "next", "send", "rekey", "forget", "clear", "refresh"}
    /\ phase \in Phases \cup {0}
    /\ IF pc \in {"idle", "next"} THEN cur = None ELSE cur \in Rows
    /\ blocked \subseteq Keys /\ failed \subseteq Nat
    /\ met \subseteq Disturbances

NotMet(ds) == met \cap ds = {}

\* No draft disappears: Commit takes a create row out of the journal only
\* when the draft is in Jira, whatever call failed or was never answered.
NoDraftLost ==
    [][\A r \in journal : r.type = EntityIssueCreate =>
          \/ r.id \in {s.id : s \in journal'}
          \/ UNCHANGED engine
          \/ \E k \in DOMAIN jira : jira[k].draft = r.id]_vars

\* A draft becomes one issue, also when the rename after it failed (the
\* reason MarkCreatedWithoutRekey gives for clearing the create row).
CreatedAtMostOnce ==
    NotMet({"lost", "clear", "crash"}) =>
        \A k, l \in DOMAIN jira : jira[k].draft = jira[l].draft => k = l

\* What reaches Jira names the issue the user named: the parent and the link
\* target sent are the ones made from the drafts chosen, and from them alone.
MeantIsSent ==
    pc = "send" /\ NotMet({"discard"}) =>
        /\ Whose(cur.after.to) = cur.after.meant
        /\ cur.type # EntityIssueCreate => Whose(cur.key) = cur.after.of

\* A pending row names, and belongs to, an issue the cache still has: one of
\* Jira, a draft still to be created, or a draft Jira has that was not renamed.
NoDanglingReference ==
    NotMet({"discard"}) => \A r \in journal : \A k \in {r.key, r.after.to} : isDraftKey(k) =>
        /\ k \in DOMAIN issue
        /\ CreateRows(k) # {} \/ \E l \in DOMAIN jira : jira[l].draft = issue[k].draft

\* A row reported as a failure no retry helps does name a draft no later
\* Commit can create (the comment on createDrafts).
HopelessIsHopeless == \A r \in todo : Take(r) /\ Fail(r) => CreateRows(r.after.to) = {}

\* A row left by a Commit that ran to its end was answered with an error, or
\* it names a draft that was, or that nothing creates any more.
RestFailed ==
    phase = 5 /\ pc = "next" /\ pc' = "idle" /\ todo = {} =>
        \A r \in journal :
            \/ r.id \in failed
            \/ \E k \in Waits(r) : k \in blocked \/ (isDraftKey(k) /\ CreateRows(k) = {})

\* One Commit is enough for any chain of drafts, edits and links naming each
\* other, and it gives up only on what no Commit can send.
CommitLeavesOnlyWhatFailed ==
    [][NotMet({"overlap", "discard"}) => HopelessIsHopeless /\ RestFailed]_vars

=============================================================================
