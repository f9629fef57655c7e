----------------------------- MODULE TestCommit -----------------------------
(***************************************************************************)
(* One Xray Test of XTM: the edits of its fields and steps that are queued *)
(* (xtm/internal/testrepo), and the pass of a Commit that checks them      *)
(* against Jira by value and pushes them call by call                      *)
(* (xtm/internal/syncer/commit.go, conflict.go).                           *)
(*                                                                         *)
(* A step keeps the id Xray gave it; one that was only added here has a    *)
(* placeholder, a negative number, until it is created.  The content of a  *)
(* step is one text.  Custom fields, folders and preconditions travel in   *)
(* further calls of the same kind and are left out, and so are backends    *)
(* without step objects, and a Test deleted in Jira.  A Commit that cannot *)
(* clear the rows it found to be in Jira already goes on without them      *)
(* (commit.go:420); here the failure ends the pass, as any other does.     *)
(*                                                                         *)
(* Env says what a behaviour may contain:                                  *)
(*   "outside"    somebody changes the Test in Jira                        *)
(*   "fault"      a call fails, or lands and its answer is lost; a local   *)
(*                write fails, or the app ends                             *)
(*   "discard"    pending changes are discarded                            *)
(*   "refresh"    the steps are fetched anew while changes to them pend    *)
(*   "selected"   one pending change is committed by itself                *)
(*   "meanwhile"  the user goes on editing while a Commit runs             *)
(***************************************************************************)
EXTENDS Journal, SequencesExt

CONSTANTS Fields,      \* the Test's own fields; "status" is one of a workflow
          Initial,     \* texts of fields and steps: what a Test starts with,
          Mine,        \* what the user writes,
          Theirs,      \* what somebody else writes in Jira,
          Blank,       \* nothing, and
          Deleted,     \* what stands for a step that is gone from Jira
          StartSteps,  \* how many steps the Test starts with
          None,
          MaxActs,     \* bound on what users, and faults, do
          MaxSteps,    \* bound on the steps somebody adds to or reorders
          MaxVersion,  \* bound on the versions of the Test
          Env

Disturbances == {"outside", "fault", "discard", "refresh", "selected", "meanwhile"}

ASSUME TestCommitAssumption ==
    /\ Initial # Blank /\ Blank \notin Mine \cup Theirs
    /\ Deleted \notin {Initial, Blank} \cup Mine \cup Theirs
    /\ None \notin Int
    /\ StartSteps \in Nat /\ MaxActs \in Nat /\ MaxSteps \in Nat /\ MaxVersion \in Nat
    /\ Env \subseteq Disturbances

Texts == {Initial, Blank, Deleted} \cup Mine \cup Theirs

\* The entity key of the changes to the Test itself, and the entity types.
TestKey == 0
Types == {"test_case", "test_step", "test_step_delete", "test_step_add", "test_step_order"}

\* What a row's before and after values hold: a text, the ids of the steps in
\* order, or the snapshot of a step.
Snapshot(step) == <<step.idx, step.text>>
Values == Texts \cup Seq(Int) \cup (Nat \X Texts)

\* A step in Jira; row is the pending change that created it, 0 for others.
JiraStep == [id: Nat, text: Texts, row: Nat]
Step     == [idx: Nat, text: Texts]

VARIABLES
    jira,      \* the Test in Jira: version, fields, steps in order
    born,      \* how many step ids Xray has given out
    test,      \* the Test in the local cache: version and fields
    steps,     \* its cached steps, by id
    pending,   \* the journal
    lastRow,   \* the last row id given out
    conflict,  \* the conflict the last Commit left on the screen
    acts,      \* what users and faults have done so far
    pc,        \* the next step of the Commit
    rows,      \* the changes it pushes
    only,      \* whether it is for selected changes
    version,   \* the version of the Test it has seen
    left,      \* those of rows it has still to send in this phase
    idMap,     \* the ids that placeholders were given
    moves,     \* the places of the queued order it has still to go through
    content,   \* the step texts it sends along with a move
    met,       \* history: which disturbances and turns the behaviour has met
    kept       \* history: other texts the user has seen and chose to replace

local  == <<test, steps, pending, lastRow>>
commit == <<pc, rows, only, version, left, idMap, moves, content>>
vars   == <<jira, born, local, conflict, acts, commit, met, kept>>

Init ==
    /\ jira = [ver |-> 1, field |-> [f \in Fields |-> Initial],
               steps |-> [k \in 1..StartSteps |-> [id |-> k, text |-> Initial, row |-> 0]]]
    /\ born = StartSteps
    /\ test = [ver |-> 1, field |-> [f \in Fields |-> Initial]]
    /\ steps = [k \in 1..StartSteps |-> [idx |-> k, text |-> Initial]]
    /\ pending = {} /\ lastRow = 0 /\ conflict = None /\ acts = 0
    /\ pc = "idle" /\ rows = {} /\ only = FALSE /\ version = 0 /\ left = {}
    /\ idMap = <<>> /\ moves = {} /\ content = <<>>
    /\ met = {} /\ kept = {}

\* Steps in Jira.
IdsOf(s)   == {s[k].id : k \in DOMAIN s}
At(s, id)  == CHOOSE k \in DOMAIN s : s[k].id = id
OrderOf(s) == [k \in DOMAIN s |-> s[k].id]
Without(s, x) == IF \E k \in DOMAIN s : s[k] = x
                 THEN RemoveAt(s, CHOOSE k \in DOMAIN s : s[k] = x) ELSE s

\* The cached steps ORDER BY idx; ties come in any order.
Ordered(s)  == \A i, j \in DOMAIN s : i < j => s[i] # s[j] /\ steps[s[i]].idx <= steps[s[j]].idx
Listed      == {s \in [1..Cardinality(DOMAIN steps) -> DOMAIN steps] : Ordered(s)}

\* Restricted to ds, and extended or replaced at d.
Only(f, ds)   == [d \in ds |-> f[d]]
With(f, d, v) == [e \in DOMAIN f \cup {d} |-> IF e = d THEN v ELSE f[e]]

-----------------------------------------------------------------------------
\* The user.  An edit is one transaction on the cache and the journal.
Act(now) ==
    /\ acts < MaxActs
    /\ acts' = acts + 1 /\ met' = met \cup now

\* An act under a running Commit, and one before a conflict on the screen.
Meanwhile ==
    (IF pc = "idle" THEN {} ELSE {"meanwhile"}) \cup (IF conflict = None THEN {} ELSE {"onscreen"})

\* The rows in gone leave the journal, and a field goes back to what it was
\* under an older version than the one the cache shows; or a queued order
\* leaves it.
TakenBack(gone) ==
    (IF \E r \in gone : r.type = "test_case" /\ r.base < test.ver THEN {"undone"} ELSE {})
    \cup (IF \E r \in gone : r.type = "test_step_order" THEN {"unordered"} ELSE {})
Dropped == {r \in pending : \A q \in pending' : q.id # r.id}

MayAct == acts < MaxActs /\ (pc = "idle" \/ "meanwhile" \in Env)
UserActsSeeing(texts) ==
    /\ Act(Meanwhile \cup TakenBack(Dropped))
    /\ kept' = kept \cup texts
    /\ UNCHANGED <<jira, born, conflict, commit>>
UserActs == UserActsSeeing({})

\* Mutant of Queue: every edit queues a row of its own.
QueueAnother(j, type, key, field, current, value) ==
    /\ pending' = Inserted(j, lastRow + 1, type, key, field, current, value, test.ver)
    /\ lastRow' = lastRow + 1

\* upsertPendingChange.
Queue(j, type, key, field, current, value) ==
    /\ pending' = Upsert(j, lastRow + 1, type, key, field, current, value, test.ver)
    /\ lastRow' = lastRow + 1

\* EditTestField and, for the status, TransitionTest.
EditTestField(f, v) ==
    /\ MayAct
    /\ test.field[f] # v
    /\ test' = [test EXCEPT !.field[f] = v]
    /\ Queue(pending, "test_case", TestKey, f, test.field[f], v)
    /\ UNCHANGED steps
    /\ UserActs

AddRow(s) == RowsAt(pending, "test_step_add", s, "step")

\* An edit of a step that is not created yet folds into the row that adds it.
EditTestStepField(s, v) ==
    /\ MayAct
    /\ steps[s].text # v
    /\ steps' = [steps EXCEPT ![s].text = v]
    /\ IF AddRow(s) # {}
       THEN /\ pending' = {IF r \in AddRow(s) THEN [r EXCEPT !.after = <<@[1], v>>] ELSE r : r \in pending}
            /\ UNCHANGED lastRow
       ELSE Queue(pending, "test_step", s, "action", steps[s].text, v)
    /\ UNCHANGED test
    /\ UserActs

\* nextTempStepID: the first placeholder no cached step has.
NextTempStepID == CHOOSE s \in -(Cardinality(DOMAIN steps) + 1)..-1 :
    s \notin DOMAIN steps /\ \A e \in (s + 1)..-1 : e \in DOMAIN steps

NextIdx == IF DOMAIN steps = {} THEN 1
           ELSE (CHOOSE n \in {steps[s].idx : s \in DOMAIN steps} :
                    \A s \in DOMAIN steps : steps[s].idx <= n) + 1

AddTestStep(t) ==
    /\ MayAct /\ Cardinality(DOMAIN steps) < MaxSteps
    /\ LET step == [idx |-> NextIdx, text |-> t]
       IN  /\ steps' = With(steps, NextTempStepID, step)
           /\ Queue(pending, "test_step_add", NextTempStepID, "step", Blank, Snapshot(step))
    /\ UNCHANGED test
    /\ UserActs

\* pruneStepFromOrder: a step that never was leaves the queued order, and an
\* order that then changes nothing leaves the journal.
Pruned(j, s) ==
    {IF r.type = "test_step_order" THEN [r EXCEPT !.before = Without(@, s), !.after = Without(@, s)] ELSE r :
        r \in {q \in j : q.type = "test_step_order" => Without(q.before, s) # Without(q.after, s)}}

\* Deleting an added step cancels the add; deleting another drops its edits,
\* and the snapshot has the edited text.
DeleteTestStep(s) ==
    /\ MayAct
    /\ steps' = Only(steps, DOMAIN steps \ {s})
    /\ IF AddRow(s) # {}
       THEN pending' = Pruned(pending \ AddRow(s), s) /\ UNCHANGED lastRow
       ELSE Queue({r \in pending : r.type # "test_step" \/ r.key # s},
                  "test_step_delete", s, "step", Snapshot(steps[s]), Blank)
    /\ UNCHANGED test
    /\ UserActsSeeing({[type |-> "test_step_delete", key |-> s, field |-> "step", value |-> r.before] :
                          r \in RowsAt(pending, "test_step", s, "action")})

\* applyStepOrder, on the steps of the order that are cached.
StepsInOrder(order) ==
    [s \in DOMAIN steps |->
        IF \E k \in DOMAIN order : order[k] = s
        THEN [steps[s] EXCEPT !.idx = CHOOSE k \in DOMAIN order : order[k] = s]
        ELSE steps[s]]

\* The panel swaps a step with the one below it and saves the whole order.
ReorderTestSteps(i) ==
    /\ MayAct
    /\ i < Cardinality(DOMAIN steps) /\ Cardinality(DOMAIN steps) <= MaxSteps
    /\ \E current \in Listed :
          LET new == [current EXCEPT ![i] = current[i + 1], ![i + 1] = current[i]]
          IN  /\ steps' = StepsInOrder(new)
              /\ Queue(pending, "test_step_order", TestKey, "order", current, new)
    /\ UNCHANGED test
    /\ UserActs

\* A placeholder nothing is queued for was deleted, and comes back.
Revived(r) == IF r.type = "test_step_delete" /\ r.key < 0 THEN {"revived"} ELSE {}

\* What a discard restores, row by row.  A deleted step that is back in the
\* cache makes the INSERT, and with it the discard, fail.
DiscardPendingChange(r) ==
    /\ "discard" \in Env
    /\ r.type = "test_step_delete" => r.key \notin DOMAIN steps
    /\ pc = "idle" \/ "meanwhile" \in Env
    /\ Act({"discard"} \cup Meanwhile \cup TakenBack({r}) \cup Revived(r))
    /\ test' = IF r.type = "test_case" THEN [test EXCEPT !.field[r.field] = r.before] ELSE test
    /\ steps' = CASE r.type = "test_step" /\ r.key \in DOMAIN steps -> [steps EXCEPT ![r.key].text = r.before]
                  [] r.type = "test_step_delete" -> With(steps, r.key, [idx |-> r.before[1], text |-> r.before[2]])
                  [] r.type = "test_step_add"    -> Only(steps, DOMAIN steps \ {r.key})
                  [] r.type = "test_step_order"  -> StepsInOrder(r.before)
                  [] OTHER -> steps
    /\ pending' = Delete(pending, {r.id})
    /\ UNCHANGED <<jira, born, lastRow, conflict, commit, kept>>

IsStepRow(r) == r.type # "test_case"

\* GetTestSteps and SetTestSteps: the cached steps are replaced by Jira's.
RefreshSteps ==
    /\ pc = "idle" \/ "meanwhile" \in Env
    /\ steps' = [s \in IdsOf(jira.steps) |-> [idx |-> At(jira.steps, s), text |-> jira.steps[At(jira.steps, s)].text]]
    /\ IF \E r \in pending : IsStepRow(r)
       THEN "refresh" \in Env /\ Act({"refresh"})
       ELSE UNCHANGED <<acts, met>>
    /\ UNCHANGED <<jira, born, test, pending, lastRow, conflict, commit, kept>>

\* Mutant of Synced: a sync takes every field from Jira.
SyncedOver == [ver |-> jira.ver, field |-> jira.field]

\* UpsertTests: the version is taken, and every field nothing pends on.
Synced == [ver |-> jira.ver,
           field |-> [f \in Fields |-> IF RowsAt(pending, "test_case", TestKey, f) = {}
                                       THEN jira.field[f] ELSE test.field[f]]]

\* A sync leaves the steps alone: the panel fetches them when it opens.
SyncTest ==
    /\ pc = "idle" /\ test # Synced
    /\ test' = Synced
    /\ met' = IF met \cap {"outside", "fault", "refused"} # {} THEN met \cup {"sync"} ELSE met
    /\ UNCHANGED <<jira, born, steps, pending, lastRow, conflict, acts, commit, kept>>

\* RebaseTestConflict: every row of the Test.
Rebased(j, v) == {[r EXCEPT !.base = v] : r \in j}

\* The text a conflict shows: of a deleted step its snapshot's.
Facing(type, remote) == IF type = "test_step_delete" THEN remote[2] ELSE remote

\* ResolveConflictMerge: "theirs" takes the value the conflict showed and drops
\* the row, everything else is rebased onto the version it showed.
Resolve(theirs) ==
    LET taken  == {c \in conflict.held : c.row.id \in theirs}
        stays  == {c \in conflict.held : c.row.id \notin theirs}
        field(f) == {c \in taken : c.row.type = "test_case" /\ c.row.field = f}
        text(s)  == {c \in taken : c.row.type = "test_step" /\ c.row.key = s}
        undone   == {c \in taken : c.row.type = "test_step_delete"}
        order    == {c \in taken : c.row.type = "test_step_order"}
        back     == [s \in DOMAIN steps \cup {c.row.key : c \in undone} |->
                       IF \E c \in undone : c.row.key = s
                       THEN LET c == CHOOSE c \in undone : c.row.key = s
                            IN  [idx |-> c.remote[1], text |-> c.remote[2]]
                       ELSE IF text(s) # {} THEN [steps[s] EXCEPT !.text = (CHOOSE c \in text(s) : TRUE).remote]
                       ELSE steps[s]]
        place(s) == {k \in UNION {DOMAIN c.remote : c \in order} : \E c \in order : c.remote[k] = s}
    IN  /\ theirs \subseteq {c.row.id : c \in conflict.held}
        /\ test' = [test EXCEPT !.field = [f \in Fields |->
                      IF field(f) # {} THEN (CHOOSE c \in field(f) : TRUE).remote ELSE @[f]]]
        /\ steps' = [s \in DOMAIN back |-> IF place(s) # {}
                      THEN [back[s] EXCEPT !.idx = CHOOSE k \in place(s) : TRUE] ELSE back[s]]
        /\ pending' = Rebased(Delete(pending, theirs), conflict.ver)
        /\ kept' = kept \cup {[type |-> c.row.type, key |-> c.row.key, field |-> c.row.field,
                               value |-> Facing(c.row.type, c.remote)] : c \in stays}

ResolveConflict(theirs) ==
    /\ pc = "idle" /\ conflict # None
    /\ Act((IF theirs = {} THEN {} ELSE {"theirs"}) \cup
           (IF theirs # {} /\ conflict.ver < test.ver THEN {"undone"} ELSE {}))
    /\ Resolve(theirs)
    /\ conflict' = None
    /\ UNCHANGED <<jira, born, lastRow, commit>>

-----------------------------------------------------------------------------
\* Jira, by somebody else's hand.
Outside ==
    /\ "outside" \in Env /\ jira.ver < MaxVersion
    /\ Act({"outside"} \cup IF pc \in {"idle", "check"} THEN {} ELSE {"race"})
    /\ UNCHANGED <<born, local, conflict, commit, kept>>

Moved(s, from, to) == InsertAt(RemoveAt(s, from), to, s[from])
Removed(s, id)     == RemoveAt(s, At(s, id))

\* Every write gives the Test its next version.
Write(field, seq) == jira' = [ver |-> jira.ver + 1, field |-> field, steps |-> seq]

RemoteEdit ==
    /\ Outside
    /\ \/ \E f \in Fields, v \in Theirs :
             v # jira.field[f] /\ Write([jira.field EXCEPT ![f] = v], jira.steps)
       \/ \E k \in DOMAIN jira.steps, v \in Theirs :
             v # jira.steps[k].text /\ Write(jira.field, [jira.steps EXCEPT ![k].text = v])
       \/ \E k \in DOMAIN jira.steps : Write(jira.field, Removed(jira.steps, jira.steps[k].id))
       \/ \E k \in DOMAIN jira.steps :
             k < Len(jira.steps) /\ Write(jira.field, Moved(jira.steps, k, k + 1))

-----------------------------------------------------------------------------
\* The Commit.

\* It reads the journal, all of it or the one row it is asked for.
CommitChanges(selected) ==
    /\ pc = "idle" /\ jira.ver < MaxVersion
    /\ \/ selected = pending /\ only' = FALSE /\ UNCHANGED met
       \/ /\ "selected" \in Env /\ Cardinality(selected) = 1
          /\ only' = TRUE /\ met' = met \cup {"selected"}
    /\ selected # {}
    /\ rows' = selected /\ pc' = "check" /\ conflict' = None
    /\ UNCHANGED <<jira, born, local, acts, version, left, idMap, moves, content, kept>>

\* The pass is over for this Test, and what is left of rows stays pending.
Leave ==
    /\ pc' = "idle" /\ rows' = {} /\ only' = FALSE /\ version' = 0 /\ left' = {}
    /\ idMap' = <<>> /\ moves' = {} /\ content' = <<>>

\* On to a phase and the rows it sends.
Enter(phase, rs) == pc' = phase /\ left' = rs
OfType(rs, type) == {r \in rs : r.type = type}
FieldRows(rs)  == {r \in OfType(rs, "test_case") : r.field # "status"}
StatusRows(rs) == {r \in OfType(rs, "test_case") : r.field = "status"}

\* RemoteVersion, and the oldest base of the rows.
RemoteVersion ==
    /\ pc = "check"
    /\ version' = jira.ver
    /\ IF \E r \in rows : r.base < jira.ver THEN pc' = "scan" /\ UNCHANGED left
       ELSE Enter("fields", FieldRows(rows))
    /\ UNCHANGED <<jira, born, local, conflict, acts, rows, only, idMap, moves, content, met, kept>>

\* What Jira holds where a row would write.
Remote(r) ==
    LET gone == r.key \notin IdsOf(jira.steps)
        k    == At(jira.steps, r.key)
    IN  CASE r.type = "test_case"        -> jira.field[r.field]
          [] r.type = "test_step"        -> IF gone THEN Deleted ELSE jira.steps[k].text
          [] r.type = "test_step_delete" -> IF gone THEN Deleted ELSE <<k, jira.steps[k].text>>
          [] r.type = "test_step_order"  -> OrderOf(jira.steps)

\* Somebody already did what the row asks for.
AlreadyThere(r) ==
    CASE r.type = "test_step_add"    -> FALSE
      [] r.type = "test_step_delete" -> Remote(r) = Deleted
      [] OTHER -> Remote(r) = r.after

\* Mutant of Untouched: what is deleted is not compared.
UntouchedAnyway(r) ==
    CASE r.type \in {"test_step_add", "test_step_delete"} -> TRUE
      [] OTHER -> Remote(r) = r.before

\* Nobody touched what the row was made on.  Adds are not compared.
Untouched(r) ==
    CASE r.type = "test_step_add"    -> TRUE
      [] r.type = "test_step_delete" -> Remote(r)[2] = r.before[2]
      [] OTHER -> Remote(r) = r.before

\* detectConflicts, and what is made of it: rows that are there already are
\* cleared, one conflict holds the Test back, else its rows are rebased.
DetectConflicts ==
    LET there == {r \in rows : AlreadyThere(r)}
        rest  == rows \ there
        held  == {[row |-> r, remote |-> Remote(r)] : r \in {q \in rest : ~Untouched(q)}}
        open  == Delete(pending, {r.id : r \in there})
    IN  /\ pc = "scan"
        /\ IF held # {} \/ rest = {}
           THEN /\ Leave
                /\ pending' = open
                /\ conflict' = IF held = {} THEN None ELSE [ver |-> version, held |-> held]
                /\ met' = IF held = {} \/ rows \subseteq pending THEN met ELSE met \cup {"onscreen"}
           ELSE /\ rows' = rest /\ Enter("fields", FieldRows(rest))
                /\ pending' = Rebased(open, version)
                /\ UNCHANGED <<conflict, only, version, idMap, moves, content, met>>
        /\ UNCHANGED <<jira, born, test, steps, lastRow, acts, kept>>

Sending == UNCHANGED <<born, local, conflict, acts, rows, only, version, idMap, moves, content, met, kept>>

\* One PUT carries every field but the status.
LandFields ==
    Write([f \in Fields |-> AfterVal(left, "test_case", TestKey, f, jira.field[f])], jira.steps)
UpdateIssue ==
    /\ pc = "fields"
    /\ IF left # {} THEN LandFields ELSE UNCHANGED jira
    /\ Enter("status", StatusRows(rows))
    /\ Sending

\* Jira offers a transition to every status but the one the Test is in.
Offered(r) == jira.field[r.field] # r.after
LandStatus(r) == Write([jira.field EXCEPT ![r.field] = r.after], jira.steps)
ApplyTransition ==
    /\ pc = "status"
    /\ IF left = {} THEN UNCHANGED jira ELSE \E r \in left : Offered(r) /\ LandStatus(r)
    /\ Enter("deletes", OfType(rows, "test_step_delete"))
    /\ Sending

\* Steps go one by one: deletes, then edits, in no order.
Exists(r) == r.key \in IdsOf(jira.steps)
LandDelete(r) == Write(jira.field, Removed(jira.steps, r.key))
LandEdit(r)   == Write(jira.field, [jira.steps EXCEPT ![At(jira.steps, r.key)].text = r.after])

RemoteDeleteStep(r) ==
    /\ pc = "deletes" /\ Exists(r)
    /\ LandDelete(r)
    /\ left' = left \ {r} /\ UNCHANGED pc
    /\ Sending

UpdateTestStep(r) ==
    /\ pc = "edits" /\ Exists(r)
    /\ LandEdit(r)
    /\ left' = left \ {r} /\ UNCHANGED pc
    /\ Sending

PhaseDone ==
    /\ left = {}
    /\ \/ pc = "deletes" /\ Enter("edits", OfType(rows, "test_step"))
       \/ pc = "edits"   /\ Enter("adds", OfType(rows, "test_step_add"))
    /\ UNCHANGED jira
    /\ Sending

\* Mutant of Lowest: adds go in the order the journal lists them.
AnyAdd(r) == TRUE

\* Adds go in the order of the index in their snapshot.  Xray appends.
Lowest(r)  == \A q \in left : r.after[1] <= q.after[1]
LandAdd(r) == /\ Write(jira.field, Append(jira.steps, [id |-> born + 1, text |-> r.after[2], row |-> r.id]))
              /\ born' = born + 1

\* The cached step takes the id Xray gave it.
RenameTestStepID(old, new) ==
    steps' = IF old \in DOMAIN steps
             THEN Only(With(steps, new, steps[old]), (DOMAIN steps \ {old}) \cup {new})
             ELSE steps

\* An id that is not answered, and a rename that fails, are passed over.
CreateStep(r) ==
    /\ pc = "adds" /\ Lowest(r) /\ r.after[2] # Blank
    /\ LandAdd(r)
    /\ left' = left \ {r} /\ UNCHANGED pc
    /\ \/ /\ RenameTestStepID(r.key, born + 1)
          /\ idMap' = With(idMap, r.key, born + 1)
          /\ UNCHANGED <<acts, met>>
       \/ /\ "fault" \in Env /\ Act({"fault"})
          /\ UNCHANGED steps
          /\ idMap' \in {idMap, With(idMap, r.key, born + 1)}
    /\ UNCHANGED <<test, pending, lastRow, conflict, rows, only, version, moves, content, kept>>

RealId(s) == IF s \in DOMAIN idMap THEN idMap[s] ELSE s

\* The order a Commit puts the steps in.
QueuedOrder == (CHOOSE r \in OfType(rows, "test_step_order") : TRUE).after

\* Mutant of Stay: a step that was just created is left where Xray put it.
StayOld(order) ==
    {k \in DOMAIN order : order[k] > 0 /\ \A r \in OfType(rows, "test_step_delete") : r.key # order[k]}

\* Where the order names a step that this Commit did not delete.
Stay(order) == {k \in DOMAIN order : \A r \in OfType(rows, "test_step_delete") : r.key # order[k]}

\* It goes through them with the texts of the cache at hand.
ReadOrder ==
    /\ pc = "adds" /\ left = {}
    /\ IF OfType(rows, "test_step_order") = {} THEN pc' = "clear" /\ UNCHANGED <<moves, content>>
       ELSE /\ moves' = Stay(QueuedOrder)
            /\ content' = [s \in DOMAIN steps |-> steps[s].text]
            /\ pc' = "moves"
    /\ UNCHANGED <<jira, born, local, conflict, acts, rows, only, version, left, idMap, met, kept>>

\* MoveTestStep puts a step at the next place, with its cached content;
\* Xray refuses a step it does not know, and one without content.
Coming(k)  == k \in moves /\ \A l \in moves : k <= l
Place(k)   == Cardinality({l \in Stay(QueuedOrder) : l <= k})
Mover(k)   == RealId(QueuedOrder[k])
Movable(k) ==
    /\ Mover(k) \in IdsOf(jira.steps) /\ Place(k) <= Len(jira.steps)
    /\ Mover(k) \in DOMAIN content /\ content[Mover(k)] # Blank
LandMove(k) ==
    LET at == At(jira.steps, Mover(k))
    IN  Write(jira.field, Moved([jira.steps EXCEPT ![at].text = content[Mover(k)]], at, Place(k)))

MoveTestStep ==
    /\ pc = "moves"
    /\ \E k \in moves : Coming(k) /\ Movable(k) /\ LandMove(k) /\ moves' = moves \ {k}
    /\ UNCHANGED <<born, local, conflict, acts, pc, rows, only, version, left, idMap, content, met, kept>>

MovesDone ==
    /\ pc = "moves" /\ moves = {}
    /\ pc' = "clear"
    /\ UNCHANGED <<jira, born, local, conflict, acts, rows, only, version, left, idMap, moves, content, met, kept>>

\* CommitPendingChanges: the rows that were read are cleared, by id.
ClearRows ==
    /\ pc = "clear"
    /\ pending' = Delete(pending, {r.id : r \in rows})
    /\ IF only THEN pc' = "rebase" /\ UNCHANGED <<rows, only, version, left, idMap, moves, content>> ELSE Leave
    /\ UNCHANGED <<jira, born, test, steps, lastRow, conflict, acts, met, kept>>

\* After a selective Commit the other rows follow the version it made.
RebaseRest ==
    /\ pc = "rebase"
    /\ pending' = Rebased(pending, jira.ver)
    /\ Leave
    /\ UNCHANGED <<jira, born, test, steps, lastRow, conflict, acts, met, kept>>

\* A call Jira refuses by its own rules.
Refused ==
    \/ pc = "status" /\ \E r \in left : ~Offered(r)
    \/ pc \in {"deletes", "edits"} /\ \E r \in left : ~Exists(r)
    \/ pc = "adds" /\ \E r \in left : Lowest(r) /\ r.after[2] = Blank
    \/ pc = "moves" /\ \E k \in moves : Coming(k) /\ ~Movable(k)

\* Any failure ends the pass: the rows stay, whatever has landed.
RefusedEnds ==
    /\ Refused
    /\ Leave
    /\ met' = met \cup {"refused"}
    /\ UNCHANGED <<jira, born, local, conflict, acts, kept>>

LandLost ==
    \/ pc = "fields" /\ left # {} /\ LandFields /\ UNCHANGED born
    \/ pc = "status" /\ (\E r \in left : Offered(r) /\ LandStatus(r)) /\ UNCHANGED born
    \/ pc = "deletes" /\ (\E r \in left : Exists(r) /\ LandDelete(r)) /\ UNCHANGED born
    \/ pc = "edits" /\ (\E r \in left : Exists(r) /\ LandEdit(r)) /\ UNCHANGED born
    \/ pc = "adds" /\ \E r \in left : Lowest(r) /\ r.after[2] # Blank /\ LandAdd(r)
    \/ pc = "moves" /\ (\E k \in moves : Coming(k) /\ Movable(k) /\ LandMove(k)) /\ UNCHANGED born

Fault ==
    /\ pc # "idle" /\ "fault" \in Env /\ Act({"fault"})
    /\ UNCHANGED <<jira, born>> \/ LandLost
    /\ Leave
    /\ UNCHANGED <<local, conflict, kept>>

UserStep ==
    \/ \E f \in Fields, v \in Mine : EditTestField(f, v)
    \/ \E s \in DOMAIN steps, v \in Mine : EditTestStepField(s, v)
    \/ \E t \in Mine \cup {Blank} : AddTestStep(t)
    \/ \E s \in DOMAIN steps : DeleteTestStep(s)
    \/ \E i \in 1..Cardinality(DOMAIN steps) : ReorderTestSteps(i)
    \/ \E r \in pending : DiscardPendingChange(r)
    \/ RefreshSteps \/ SyncTest
    \/ conflict # None /\ \E theirs \in SUBSET {c.row.id : c \in conflict.held} : ResolveConflict(theirs)

CommitStep ==
    \/ RemoteVersion \/ DetectConflicts \/ UpdateIssue \/ ApplyTransition
    \/ \E r \in left : RemoteDeleteStep(r) \/ UpdateTestStep(r) \/ CreateStep(r)
    \/ PhaseDone \/ ReadOrder \/ MoveTestStep \/ MovesDone \/ ClearRows \/ RebaseRest
    \/ RefusedEnds \/ Fault

Next ==
    \/ UserStep \/ RemoteEdit \/ CommitStep
    \/ \E r \in pending : CommitChanges({r})
    \/ CommitChanges(pending)

Spec == Init /\ [][Next]_vars

-----------------------------------------------------------------------------
Row == PendingChange(Types, Int, Fields \cup {"action", "step", "order"}, Values)
Met == Disturbances \cup {"race", "sync", "refused", "onscreen", "theirs", "undone", "unordered", "revived"}

TypeOK ==
    /\ jira.ver \in Nat /\ jira.field \in [Fields -> Texts] /\ jira.steps \in Seq(JiraStep)
    /\ \A k, l \in DOMAIN jira.steps : jira.steps[k].id = jira.steps[l].id => k = l
    /\ born \in Nat /\ IdsOf(jira.steps) \subseteq 1..born
    /\ test.ver \in Nat /\ test.field \in [Fields -> Texts]
    /\ DOMAIN steps \subseteq Int /\ \A s \in DOMAIN steps : steps[s] \in Step
    /\ WellKeyed(pending) /\ \A r \in pending : r \in Row /\ r.id <= lastRow
    /\ rows \subseteq Row /\ left \subseteq rows
    /\ lastRow \in Nat /\ acts \in Nat /\ version \in Nat /\ only \in BOOLEAN
    /\ conflict # None =>
          conflict.ver \in Nat /\ \A c \in conflict.held : c.row \in Row /\ c.remote \in Values
    /\ pc \in {"idle", "check", "scan", "fields", "status", "deletes", "edits", "adds", "moves", "clear", "rebase"}
    /\ pc = "idle" => rows = {}
    /\ \A s \in DOMAIN idMap : s < 0 /\ idMap[s] \in 1..born
    /\ moves \subseteq Nat /\ \A s \in DOMAIN content : content[s] \in Texts
    /\ met \subseteq Met

NotMet(ds) == met \cap ds = {}

\* The text a row is about to replace.
Replaced(r) ==
    IF r.type = "test_case" THEN jira.field[r.field]
    ELSE IF Exists(r) THEN jira.steps[At(jira.steps, r.key)].text ELSE Deleted

\* It is accounted for: the text the row was made on, or another the user saw
\* and chose to replace, in a conflict or by editing the step before deleting
\* it.  A step that is gone is not replaced but refused.
Accounted(r) ==
    \/ Replaced(r) = Deleted
    \/ Replaced(r) = IF r.type = "test_step_delete" THEN r.before[2] ELSE r.before
    \/ [type |-> r.type, key |-> r.key, field |-> r.field, value |-> Replaced(r)] \in kept

\* A Commit replaces nothing unseen.
NoBlindOverwrite ==
    pc \in {"fields", "status", "deletes", "edits"} /\ NotMet({"race", "selected", "meanwhile", "onscreen"}) =>
        \A r \in left : NotMet(IF IsStepRow(r) THEN {"sync", "discard", "refresh"} ELSE {"undone"}) => Accounted(r)

\* What a row asks for stands in Jira.
Standing(r) ==
    CASE r.type = "test_case"        -> jira.field[r.field] = r.after
      [] r.type = "test_step"        -> Exists(r) /\ Remote(r) = r.after
      [] r.type = "test_step_delete" -> ~Exists(r)
      [] r.type = "test_step_add"    ->
            LET made == {k \in DOMAIN jira.steps : jira.steps[k].row = r.id}
            IN  made # {} /\ (NotMet({"fault", "refused"}) => Cardinality(made) = 1)
                /\ \E k \in made : jira.steps[k].text = r.after[2]
      [] r.type = "test_step_order"  ->
            \A k, l \in DOMAIN r.after :
                LET a == RealId(r.after[k])  b == RealId(r.after[l])
                IN  k < l /\ {a, b} \subseteq IdsOf(jira.steps) => At(jira.steps, a) < At(jira.steps, b)

\* A Commit clears a row only when all it pushed stands in Jira together: no
\* later call of the pass undoes an earlier one, and a retry neither skips
\* nor, unless a pass broke off, repeats what an earlier pass did.
ClearedIsThere ==
    pc = "clear" /\ NotMet({"race", "refresh", "meanwhile", "onscreen", "revived"}) => \A r \in rows : Standing(r)

\* Whatever the user does to fields and steps, in any order, a Commit that
\* nothing disturbs leaves Jira exactly as the cache draws the Test: the
\* journal's separate rows add up to the list the user arranged.
CalmCommitSendsAll ==
    pc = "clear" /\ NotMet(Disturbances \cup {"refused"}) =>
        /\ jira.field = test.field
        /\ IdsOf(jira.steps) = DOMAIN steps
        /\ \A k \in DOMAIN jira.steps : jira.steps[k].text = steps[jira.steps[k].id].text
        /\ NotMet({"unordered", "theirs"}) => OrderOf(jira.steps) \in Listed

\* What pends is what the user sees, through syncs, failed Commits and
\* resolutions, so that a discard or another edit starts from it.
PendingIsShown ==
    pc = "idle" /\ NotMet({"onscreen"}) => \A r \in pending :
        IF ~IsStepRow(r) THEN test.field[r.field] = r.after
        ELSE NotMet({"refresh", "fault", "refused", "meanwhile"}) =>
            CASE r.type = "test_step"        -> r.key \in DOMAIN steps /\ steps[r.key].text = r.after
              [] r.type = "test_step_delete" -> r.key \notin DOMAIN steps
              [] r.type = "test_step_add"    -> r.key \in DOMAIN steps /\ steps[r.key].text = r.after[2]
              [] r.type = "test_step_order"  -> NotMet({"theirs", "selected", "discard"}) =>
                    \A k, l \in DOMAIN r.after : k < l /\ {r.after[k], r.after[l]} \subseteq DOMAIN steps =>
                        steps[r.after[k]].idx < steps[r.after[l]].idx

\* A move of a step changes its place and nothing else ("Resending the
\* existing content is idempotent", the comment on MoveTestStep).
MoveKeepsContent ==
    [][MoveTestStep => \A k \in DOMAIN jira.steps :
          jira'.steps[At(jira'.steps, jira.steps[k].id)].text = jira.steps[k].text]_vars
=============================================================================
