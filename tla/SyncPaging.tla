---------------------------- MODULE SyncPaging ----------------------------
(***************************************************************************)
(* Which issues a sync leaves in the cache: the search taken page by page  *)
(* at an offset, the cut-off of an incremental sync, the clearing a full   *)
(* one does with its first page, and the watermark (tam/internal/syncer,   *)
(* sync_state in tam/internal/issuerepo, the JQL of                        *)
(* tam/internal/backend/jira).  What a landing page does to pending edits  *)
(* is module EditCommit's business.                                        *)
(*                                                                         *)
(* Time is a counter that moves with every change made in Jira.            *)
(* PagingEnv says what a behaviour may contain:                            *)
(*   "leave"    an issue leaves the scope between two pages                *)
(*   "partial"  a full sync fails after its first page                     *)
(*   "overlap"  a setting changes while a sync runs                        *)
(* Where RitualSync, the other sync, has a name, this module has another:  *)
(* SyncProofs is about both.                                               *)
(***************************************************************************)
EXTENDS Integers, FiniteSets

CONSTANTS Keys,      \* the issues the project may hold, in key order
          PageSize,  \* Engine.PageSize
          Backdate,  \* how far sinceClause moves the cut-off back
          Skew,      \* how far ahead of Jira's the app's clock may be
          MaxTime,   \* bound on the changes made in Jira
          Types,     \* the requirement types a profile may name
          NoRow,
          PagingEnv

PagingDisturbances == {"leave", "partial", "overlap"}

ASSUME SyncPagingAssumption ==
    /\ Keys \subseteq Int /\ IsFiniteSet(Keys)
    /\ PageSize \in Nat \ {0} /\ MaxTime \in Nat
    /\ Backdate \in Nat /\ Skew \in 0..Backdate
    /\ NoRow \notin Types
    /\ PagingEnv \subseteq PagingDisturbances

VARIABLES
    jira,        \* is the issue in the scope, and its updated stamp
    now,         \* Jira's clock
    reqType,     \* the requirement type of the profile
    cache,       \* the issue table: the stamp and the type a row was read under
    lastSynced,  \* sync_state.last_synced, 0 when empty
    lastFull,    \* sync_state.last_full
    syncPc,      \* the next step of the sync
    sync,        \* what the sync under way works with
    results,     \* the page it just read, a row for each key of it
    asOf         \* history: Jira's clock when what the watermarks say was started

remote == <<jira, now>>
state  == <<lastSynced, lastFull, asOf>>
pagingVars == <<jira, now, reqType, cache, lastSynced, lastFull, syncPc, sync, results, asOf>>

Row == [updated: Nat, type: Types]

NoResults == [k \in {} |-> NoRow]

Idle == [full |-> FALSE, start |-> 0, since |-> 0, type |-> NoRow,
         pages |-> 0, startAt |-> 0, total |-> -1, from |-> 0, read |-> 0]

PagingInit ==
    /\ jira \in [Keys -> [in: BOOLEAN, updated: {1}]]
    /\ now = 1
    /\ reqType \in Types
    /\ cache = [k \in Keys |-> NoRow]
    /\ lastSynced = 0 /\ lastFull = 0
    /\ syncPc = "idle" /\ sync = Idle /\ results = NoResults
    /\ asOf = [sync |-> 0, full |-> 0]

-----------------------------------------------------------------------------
\* An issue is created, edited, or edited out of the scope.
RemoteChange(k, in) ==
    /\ now < MaxTime
    /\ jira[k].in /\ ~in => "leave" \in PagingEnv \/ syncPc = "idle"
    /\ jira[k].in \/ in
    /\ now' = now + 1
    /\ jira' = [jira EXCEPT ![k] = [in |-> in, updated |-> now + 1]]
    /\ UNCHANGED <<reqType, cache, state, syncPc, sync, results>>

\* SetProfileSetting of the requirement type: the cursor is reset, so that
\* the next sync reads every row again.
SetProfileSetting(type) ==
    /\ "overlap" \in PagingEnv \/ syncPc = "idle"
    /\ type # reqType
    /\ reqType' = type
    /\ lastSynced' = 0
    /\ UNCHANGED <<remote, cache, lastFull, asOf, syncPc, sync, results>>

-----------------------------------------------------------------------------
\* Mutant of StartSync: the backend is built without the requirement type.
StartSyncUntyped(full, skew) ==
    /\ syncPc = "idle"
    /\ sync' = [Idle EXCEPT !.full = full, !.start = now + skew,
                            !.since = IF full THEN 0 ELSE lastSynced, !.from = now, !.read = lastSynced]
    /\ syncPc' = "search"
    /\ UNCHANGED <<remote, reqType, cache, state, results>>

\* Sync up to its first page.  The backend was built with the requirement
\* type of the moment, and the sync state is read once.
StartSync(full, skew) ==
    /\ syncPc = "idle"
    /\ sync' = [Idle EXCEPT !.full = full, !.start = now + skew, !.type = reqType,
                            !.since = IF full THEN 0 ELSE lastSynced, !.from = now, !.read = lastSynced]
    /\ syncPc' = "search"
    /\ UNCHANGED <<remote, reqType, cache, state, results>>

\* sinceClause: no clause without a watermark, else updated since an hour
\* before it.
sinceClause(since, updated) == since = 0 \/ updated >= since - Backdate

\* What the JQL answers now.
Matching(since) == {k \in Keys : jira[k].in /\ sinceClause(since, jira[k].updated)}

\* ORDER BY key ASC: how many of the issues found come before an issue.
Offset(found, k) == Cardinality({j \in found : j < k})

\* SearchIssuesPage: at most PageSize issues from an offset, and the total.
SearchIssuesPage ==
    LET found == Matching(sync.since)
        taken == {k \in found : Offset(found, k) \in sync.startAt..(sync.startAt + PageSize - 1)}
    IN  /\ syncPc = "search"
        /\ results' = [k \in taken |-> [updated |-> jira[k].updated, type |-> sync.type]]
        /\ sync' = [sync EXCEPT !.total = Cardinality(found)]
        /\ syncPc' = "land"
        /\ UNCHANGED <<remote, reqType, cache, state>>

\* Mutant of Clears: every sync only adds.
ClearsNever == FALSE

\* clearFirst.
Clears == sync.full /\ sync.pages = 0

\* Mutant of Advanced: the offset is not moved.
AdvancedNowhere == [sync EXCEPT !.pages = 1]

\* The loop variables after a page.
Advanced == [sync EXCEPT !.pages = @ + 1, !.startAt = @ + Cardinality(DOMAIN results)]

\* UpsertPage and the loop test.
UpsertPage ==
    /\ syncPc = "land"
    /\ cache' = [k \in Keys |->
          IF k \in DOMAIN results THEN results[k] ELSE IF Clears THEN NoRow ELSE cache[k]]
    /\ sync' = Advanced
    /\ syncPc' = IF DOMAIN results = {} \/ sync'.startAt >= sync.total THEN "finish" ELSE "search"
    /\ results' = NoResults
    /\ UNCHANGED <<remote, reqType, state>>

\* Mutant of SetSyncState: the watermark is taken at the end.
SetSyncStateLate ==
    /\ syncPc = "finish"
    /\ lastSynced' = now
    /\ lastFull' = IF sync.full THEN now ELSE lastFull
    /\ asOf' = [sync |-> sync.from, full |-> IF sync.full THEN sync.from ELSE asOf.full]
    /\ syncPc' = "idle" /\ sync' = Idle
    /\ UNCHANGED <<remote, reqType, cache, results>>

\* The watermark becomes the time the sync started.
SetSyncState ==
    /\ syncPc = "finish"
    /\ lastSynced' = sync.start
    /\ lastFull' = IF sync.full THEN sync.start ELSE lastFull
    /\ asOf' = [sync |-> sync.from, full |-> IF sync.full THEN sync.from ELSE asOf.full]
    /\ syncPc' = "idle" /\ sync' = Idle
    /\ UNCHANGED <<remote, reqType, cache, results>>

\* fail, or the end of the app: what landed stays.  fail writes the sync state
\* back as it was read, over a cursor reset meanwhile, and its own failure is
\* ignored; it changes no last_full, for nothing else writes that.
SyncFails ==
    /\ syncPc # "idle"
    /\ sync.full /\ sync.pages > 0 /\ syncPc # "finish" => "partial" \in PagingEnv
    /\ syncPc' = "idle" /\ sync' = Idle /\ results' = NoResults
    /\ lastSynced' \in {sync.read, lastSynced}
    /\ UNCHANGED <<remote, reqType, cache, lastFull, asOf>>

SyncStep == SearchIssuesPage \/ UpsertPage \/ SetSyncState \/ SyncFails

PagingNext ==
    \/ \E k \in Keys, in \in BOOLEAN : RemoteChange(k, in)
    \/ \E type \in Types : SetProfileSetting(type)
    \/ \E full \in BOOLEAN, skew \in 0..Skew : StartSync(full, skew)
    \/ SyncStep

PagingSpec == PagingInit /\ [][PagingNext]_pagingVars

\* A sync that was started goes on: its steps wait for nothing but Jira's
\* answers, and a call that is not answered ends in an error.
Fairness == WF_pagingVars(SyncStep)
FairSpec == PagingSpec /\ Fairness

-----------------------------------------------------------------------------
PagingTypeOK ==
    /\ jira \in [Keys -> [in: BOOLEAN, updated: 1..now]]
    /\ now \in Nat /\ reqType \in Types
    /\ cache \in [Keys -> Row \cup {NoRow}]
    /\ lastSynced \in Nat /\ lastFull \in Nat
    /\ syncPc \in {"idle", "search", "land", "finish"}
    /\ sync \in [full: BOOLEAN, start: Nat, since: Nat, type: Types \cup {NoRow},
                 pages: Nat, startAt: 0..Cardinality(Keys),
                 total: -1..Cardinality(Keys), from: 0..now, read: Nat]
    /\ \E K \in SUBSET Keys : results \in [K -> Row] /\ Cardinality(K) <= PageSize
    /\ asOf \in [sync: 0..now, full: 0..now]

\* What the watermark stands for: an issue of the scope that has not changed
\* since the last finished sync started is cached as it is, read under the
\* requirement type of the profile.  The next incremental sync relies on it,
\* for it will not ask for that issue again.
NothingMissed ==
    lastSynced # 0 =>
        \A k \in Keys : jira[k].in /\ jira[k].updated <= asOf.sync =>
            cache[k] = [updated |-> jira[k].updated, type |-> reqType]

\* A full sync forgets what has left the scope: a row still cached for an
\* issue outside it belongs to one that left after the last full sync began.
NothingLeftOver ==
    lastFull # 0 =>
        \A k \in Keys : cache[k] # NoRow /\ ~jira[k].in => jira[k].updated > asOf.full

\* Between syncs the cache holds what its two watermarks claim, however
\* issues changed while the pages were taken.
CacheIsCurrent == syncPc = "idle" => NothingMissed /\ NothingLeftOver

\* However the total moves under the loop, a sync ends.
SyncTerminates == syncPc # "idle" ~> syncPc = "idle"
=============================================================================
