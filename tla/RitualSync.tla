----------------------------- MODULE RitualSync -----------------------------
(***************************************************************************)
(* Ritual pages kept locally (tam/internal/ritualrepo) and brought into    *)
(* step with Confluence by a Sync pass (tam/internal/ritualsync).  The     *)
(* editor's writes take no lock, so every statement on the local store and *)
(* every Confluence call is one step and the two interleave freely.        *)
(*                                                                         *)
(* One board with one open sprint: its overview page, the pages under it   *)
(* and the board's done agreement.  Confluence keeps a text in its own     *)
(* normal form (Stored), and takes an update only at the next version.     *)
(* Titles, wording, counts and the notes of the retired wizard are left    *)
(* out, and so is moving a page inside Confluence.                         *)
(*                                                                         *)
(* Env says what a behaviour may contain:                                  *)
(*   "edit", "delete", "create"   somebody does this in Confluence         *)
(*   "refused", "lost"  a call fails, or lands and its answer is lost      *)
(*   "crash"     the app is killed, or a local write fails                 *)
(*   "recreate"  a document is removed and written again during a pass     *)
(*   "late"      a conflict is resolved from a view a pass has outdated    *)
(***************************************************************************)
EXTENDS Integers, Sequences, FiniteSets

CONSTANTS Docs,       \* the documents, numbered in the order a pass takes them
          Agreement,  \* the number of the board's done agreement
          Overview,   \* the number of the sprint's own page
          Texts,      \* page bodies
          Written,    \* those people write
          Template,   \* what ritualtemplate.Render answers
          Blank,      \* the empty body
          Stored,     \* the form Confluence keeps each body in
          None,
          MaxActs,    \* bound on what users do, here and in Confluence
          Env

Disturbances == {"edit", "delete", "create", "refused", "lost", "crash", "recreate", "late"}

\* Page ids.  NoPage is the empty id of a document without a page.
NoPage == 0
Root   == -1

ASSUME RitualSyncAssumption ==
    /\ Docs \subseteq Nat
    /\ Agreement \in Nat /\ Overview \in Nat /\ Agreement < Overview
    /\ \A d \in Docs : d >= Overview \/ d = Agreement
    /\ {Template, Blank} \cup Written \subseteq Texts
    /\ Stored \in [Texts -> Texts] /\ \A t \in Texts : Stored[Stored[t]] = Stored[t]
    /\ None \notin Texts /\ None \notin Nat
    /\ MaxActs \in Nat
    /\ Env \subseteq Disturbances

\* The statuses a ritual document moves through.
StatusLocal    == "local"
StatusSynced   == "synced"
StatusUnsynced == "unsynced"
StatusConflict == "conflict"
StatusGone     == "gone"
Statuses == {StatusLocal, StatusSynced, StatusUnsynced, StatusConflict, StatusGone}

\* A stored document.  For the properties it remembers which writing of the
\* template it goes back to, and the newest version of its page the user took
\* in or chose to replace.
Document == [body: Texts, base: Texts, page: Nat, version: Nat,
             cbody: Texts, cversion: Nat, status: Statuses, birth: Nat, took: Nat]

ASSUME NoneIsNoDocument == None \notin Document

\* A page in Confluence: its document's title, the pages it hangs under, and
\* every version of it with the writing it came from (0 when not from TAM).
Version == [text: Texts, birth: Nat]
Page    == [title: Nat, above: SUBSET (Nat \cup {Root}), live: BOOLEAN, versions: Seq(Version)]

VARIABLES
    doc,     \* the ritual_document table
    page,    \* the pages of the space, by id
    shown,   \* the document on the user's screen, as it was loaded or saved
    births,  \* how often a template was written
    acts,    \* what users have done so far
    pc,      \* the next step of the pass
    listed,  \* whether the pass is past the agreement
    read,    \* the documents as the pass read them, until it is done with each
    todo,    \* those it has still to take
    cur,     \* the one it is at
    parent,  \* the page the sprint's pages hang under
    ans      \* what the last answer makes the pass write

user   == <<shown, births, acts>>
engine == <<listed, read, todo, parent>>
pass   == <<pc, listed, read, todo, cur, parent, ans>>
vars   == <<doc, page, shown, births, acts, pc, listed, read, todo, cur, parent, ans>>

Init ==
    /\ doc = [d \in Docs |-> None] /\ page = <<>>
    /\ shown = None /\ births = 0 /\ acts = 0
    /\ pc = "idle" /\ listed = FALSE /\ read = [d \in Docs |-> None]
    /\ todo = {} /\ cur = None /\ parent = NoPage /\ ans = None

Live(p)     == p \in DOMAIN page /\ page[p].live
Newest(p)   == Len(page[p].versions)
BodyOf(p)   == page[p].versions[Newest(p)].text
Titled(d)   == {p \in DOMAIN page : Live(p) /\ page[p].title = d}
Act         == acts < MaxActs /\ acts' = acts + 1

-----------------------------------------------------------------------------
\* The user, here.  None of these bindings takes the profile's guard.

\* NeedsTemplate, and the condition WriteTemplate repeats.
NeedsTemplate(d) == doc[d] # None => doc[d].body = Blank /\ doc[d].page = NoPage

\* WriteTemplate; a row it replaces keeps the columns it does not name.
Rendered(d) ==
    LET old == doc[d]
    IN  [body |-> Template, base |-> Blank, page |-> NoPage,
         version  |-> IF old = None THEN 0 ELSE old.version,
         cbody    |-> IF old = None THEN Blank ELSE old.cbody,
         cversion |-> IF old = None THEN 0 ELSE old.cversion,
         status |-> StatusLocal, took |-> 0,
         birth |-> IF old = None THEN births + 1 ELSE old.birth]

WriteTemplates(ds) ==
    /\ doc' = [d \in Docs |-> IF d \in ds /\ NeedsTemplate(d) THEN Rendered(d) ELSE doc[d]]
    /\ births' = IF \E d \in ds : doc[d] = None THEN births + 1 ELSE births

\* EnsureSprintRituals, and CreateDoneAgreement for the agreement.
EnsureRituals(ds) ==
    /\ ds \in {Docs \ {Agreement}, Docs \cap {Agreement}}
    /\ \E d \in ds : NeedsTemplate(d)
    /\ Act
    /\ WriteTemplates(ds)
    /\ UNCHANGED <<page, shown, pass>>

\* ListRitualDocuments: a document is put on the screen, with its conflict.
Show(d) ==
    /\ doc[d] # None
    /\ shown' = [key |-> d, body |-> doc[d].body, page |-> doc[d].page,
                 version |-> doc[d].version, cversion |-> doc[d].cversion]
    /\ UNCHANGED <<doc, page, births, acts, pass>>

\* The status a save leaves.
SavedStatus(row, t) ==
    IF row.status \in {StatusConflict, StatusGone} THEN row.status
    ELSE IF row.page = NoPage THEN StatusLocal
    ELSE IF row.base = t THEN StatusSynced ELSE StatusUnsynced

\* Mutant of SameRow: a save lands whatever the editor was opened on.
AnyRow(row) == row # None

\* The guard of SaveBody: the version and page the editor was opened on.
SameRow(row) == row # None /\ row.version = shown.version /\ row.page = shown.page

SaveBody(t) ==
    /\ shown # None /\ t # shown.body
    /\ SameRow(doc[shown.key])
    /\ Act
    /\ doc' = [doc EXCEPT ![shown.key].body = t,
                          ![shown.key].status = SavedStatus(doc[shown.key], t)]
    /\ shown' = [shown EXCEPT !.body = t]
    /\ UNCHANGED <<page, births, pass>>

\* The buttons beside the editor; the view reloads after each.
Reloads == shown' = None

\* Both choices act on the row as it is, whichever conflict is on the screen.
Resolvable ==
    /\ shown # None /\ doc[shown.key] # None
    /\ doc[shown.key].status = StatusConflict /\ shown.cversion > 0
    /\ "late" \in Env \/ shown.cversion = doc[shown.key].cversion
    /\ Act

\* Mutant of Mine: the version moves on, the base stays.
MineOnOldBase(row) ==
    [row EXCEPT !.version = row.cversion, !.cbody = Blank,
                !.cversion = 0, !.took = shown.cversion,
                !.status = IF row.body = row.cbody THEN StatusSynced ELSE StatusUnsynced]

\* What ResolveMine and ResolveTheirs make of the row.
Mine(row) ==
    [row EXCEPT !.base = row.cbody, !.version = row.cversion, !.cbody = Blank,
                !.cversion = 0, !.took = shown.cversion,
                !.status = IF row.body = row.cbody THEN StatusSynced ELSE StatusUnsynced]
Theirs(row) ==
    [row EXCEPT !.body = row.cbody, !.base = row.cbody, !.version = row.cversion,
                !.cbody = Blank, !.cversion = 0, !.took = row.cversion,
                !.status = StatusSynced]

ResolveMine ==
    /\ Resolvable
    /\ doc' = [doc EXCEPT ![shown.key] = Mine(doc[shown.key])]
    /\ Reloads
    /\ UNCHANGED <<page, births, pass>>

ResolveTheirs ==
    /\ Resolvable
    /\ doc' = [doc EXCEPT ![shown.key] = Theirs(doc[shown.key])]
    /\ Reloads
    /\ UNCHANGED <<page, births, pass>>

ForgetPage(d) ==
    /\ doc[d] # None /\ doc[d].status = StatusGone
    /\ Act
    /\ doc' = [doc EXCEPT ![d] = [@ EXCEPT !.page = NoPage, !.version = 0, !.base = Blank,
                  !.cbody = Blank, !.cversion = 0, !.status = StatusLocal, !.took = 0]]
    /\ Reloads
    /\ UNCHANGED <<page, births, pass>>

DeleteDocument(d) ==
    /\ doc[d] # None /\ Act
    /\ "recreate" \in Env \/ pc = "idle"
    /\ doc' = [doc EXCEPT ![d] = None]
    /\ Reloads
    /\ UNCHANGED <<page, births, pass>>

-----------------------------------------------------------------------------
\* Confluence, by somebody else's hand.
Others == [text: {Stored[t] : t \in Written}, birth: {0}]

RemoteEdit(p, v) ==
    /\ "edit" \in Env /\ Live(p) /\ Act
    /\ page' = [page EXCEPT ![p].versions = Append(@, v)]
    /\ UNCHANGED <<doc, shown, births, pass>>

RemoteDelete(p) ==
    /\ "delete" \in Env /\ Live(p) /\ Act
    /\ page' = [page EXCEPT ![p].live = FALSE]
    /\ UNCHANGED <<doc, shown, births, pass>>

\* A page of a document's title, under the root, under another page, or not.
RemoteCreate(d, above, v) ==
    /\ "create" \in Env /\ Titled(d) = {} /\ Act
    /\ page' = Append(page, [title |-> d, above |-> above, live |-> TRUE, versions |-> <<v>>])
    /\ UNCHANGED <<doc, shown, births, pass>>

-----------------------------------------------------------------------------
\* The pass.
SyncStart ==
    /\ pc = "idle"
    /\ pc' = "root" /\ listed' = FALSE /\ parent' = NoPage
    /\ UNCHANGED <<doc, page, user, read, todo, cur, ans>>

\* Mutant of Leave: the pass lets go of the profile before it is done.
LeaveMidway ==
    /\ pc' = "idle"
    /\ UNCHANGED <<doc, page, user, engine, cur, ans>>

\* Every way a pass has of leaving: its end, a root that is missing or cannot
\* be read, a local write that fails, the death of the process.
Leave ==
    /\ pc' = "idle" /\ listed' = FALSE /\ read' = [d \in Docs |-> None]
    /\ todo' = {} /\ cur' = None /\ parent' = NoPage /\ ans' = None
    /\ UNCHANGED <<doc, page, user>>

\* GetPageStorage of the root, then the agreement, if there is one.
ReadAgreement ==
    /\ pc = "root"
    /\ LET has == {d \in Docs \cap {Agreement} : doc[d] # None}
       IN  /\ read' = [d \in Docs |-> IF d \in has THEN doc[d] ELSE None]
           /\ todo' = has
    /\ pc' = "next"
    /\ UNCHANGED <<doc, page, user, listed, cur, parent, ans>>

RootFails == pc = "root" /\ "refused" \in Env /\ Leave

\* Ensure, and then the list of the sprint's documents the pass works from.
Ensure ==
    /\ pc = "next" /\ todo = {} /\ ~listed
    /\ WriteTemplates(Docs \ {Agreement})
    /\ pc' = "list"
    /\ UNCHANGED <<page, shown, acts, engine, cur, ans>>

Documents ==
    /\ pc = "list"
    /\ read' = [d \in Docs |-> IF d = Agreement THEN None ELSE doc[d]]
    /\ todo' = {d \in Docs \ {Agreement} : doc[d] # None}
    /\ listed' = TRUE /\ pc' = "next"
    /\ UNCHANGED <<doc, page, user, cur, parent, ans>>

AtRoot(d)   == d \in {Agreement, Overview}
ParentOf(d) == IF AtRoot(d) THEN Root ELSE parent

\* A document is gone, has no page and nothing to hang one under, is placed,
\* or is reconciled with the page it has.
Take(d) ==
    /\ pc = "next"
    /\ d \in todo /\ \A e \in todo : d <= e
    /\ todo' = todo \ {d}
    /\ IF read[d].status = StatusGone \/ (read[d].page = NoPage /\ ParentOf(d) = NoPage)
       THEN read' = [read EXCEPT ![d] = None] /\ UNCHANGED <<pc, cur>>
       ELSE cur' = d /\ pc' = (IF read[d].page = NoPage THEN "find" ELSE "get") /\ UNCHANGED read
    /\ UNCHANGED <<doc, page, user, listed, parent, ans>>

\* The document is done with; children hang under p, if it was the overview.
Under(p)  == parent' = IF cur = Overview THEN p ELSE parent
Done(p)   ==
    /\ pc' = "next" /\ cur' = None /\ ans' = None /\ Under(p)
    /\ read' = [read EXCEPT ![cur] = None]
\* What is to be written next, and where children will hang.
Write(op, p, text, version, under) ==
    /\ pc' = "apply"
    /\ ans' = [op |-> op, page |-> p, text |-> text, version |-> version, under |-> under]
    /\ UNCHANGED <<read, cur, parent>>
Goto(step) == pc' = step /\ UNCHANGED <<read, cur, parent, ans>>

\* An untouched template takes the page somebody already wrote.
Adopts(row) == row.body = Template

FindPageByTitle ==
    /\ pc = "find"
    /\ \/ Titled(cur) = {} /\ Goto("create")
       \/ \E p \in Titled(cur) :
             IF ParentOf(cur) \notin page[p].above THEN Done(NoPage)
             ELSE Write(IF Adopts(read[cur]) THEN "pulled" ELSE "conflict",
                        p, BodyOf(p), Newest(p), p)
    /\ UNCHANGED <<doc, page, user, listed, todo>>

Sent == [text |-> Stored[read[cur].body], birth |-> read[cur].birth]

\* CreatePage landing: the title is free and the parent still there.
Creatable == Titled(cur) = {} /\ (ParentOf(cur) = Root \/ Live(ParentOf(cur)))
LandCreate ==
    LET under == ParentOf(cur)
    IN  page' = Append(page, [title |-> cur, live |-> TRUE, versions |-> <<Sent>>,
                   above |-> {Root, under}])

CreatePage ==
    /\ pc = "create" /\ Creatable
    /\ LandCreate
    /\ Write("created", Len(page) + 1, read[cur].body, 1, Len(page) + 1)
    /\ UNCHANGED <<doc, user, listed, todo>>

\* Document.Dirty.
Dirty(row) == row.page = NoPage \/ row.body # row.base

\* reconcile: the page is read, and the table of the design decides.
GetPageStorage ==
    /\ pc = "get"
    /\ LET row == read[cur]
           p   == row.page
       IN  IF ~Live(p) THEN Write("gone", p, Blank, 0, NoPage)
           ELSE LET newer   == Newest(p) > (IF row.status = StatusConflict THEN row.cversion
                                            ELSE row.version)
                    Take3(op) == Write(op, p, BodyOf(p), Newest(p), p)
                IN  IF newer THEN Take3(IF row.status = StatusConflict \/ Dirty(row)
                                        THEN "conflict" ELSE "pulled")
                    ELSE IF row.status # StatusConflict /\ Dirty(row) THEN Goto("push")
                    ELSE Done(p)
    /\ UNCHANGED <<doc, page, user, listed, todo>>

\* Mutant of InStep: Confluence's version is taken for the one to build on.
InStepAnyway(p) == Live(p)

\* UpdatePage lands only as the next version.
InStep(p)  == Live(p) /\ Newest(p) = read[cur].version
LandUpdate == page' = [page EXCEPT ![read[cur].page].versions = Append(@, Sent)]

UpdatePage ==
    /\ pc = "push" /\ InStep(read[cur].page)
    /\ LandUpdate
    /\ Write("pushed", read[cur].page, read[cur].body, Newest(read[cur].page) + 1, read[cur].page)
    /\ UNCHANGED <<doc, user, listed, todo>>

\* The 409 of a page that moved, and of a title that clashes.
UpdateConflict ==
    /\ pc = "push" /\ Live(read[cur].page)
    /\ ~InStep(read[cur].page) \/ "refused" \in Env
    /\ Goto("again")
    /\ UNCHANGED <<doc, page, user, listed, todo>>

\* Mutant of GetPageAgain: an update refused for another reason is sent again.
GetPageAndRetry ==
    /\ pc = "again"
    /\ LET p == read[cur].page
       IN  IF ~Live(p) THEN Write("gone", p, Blank, 0, p)
           ELSE IF Newest(p) > read[cur].version
                THEN Write("conflict", p, BodyOf(p), Newest(p), p)
                ELSE Goto("push")
    /\ UNCHANGED <<doc, page, user, listed, todo>>

\* After a 409 the page is read again, and only a newer one is a conflict.
GetPageAgain ==
    /\ pc = "again"
    /\ LET p == read[cur].page
       IN  IF ~Live(p) THEN Write("gone", p, Blank, 0, p)
           ELSE IF Newest(p) > read[cur].version
                THEN Write("conflict", p, BodyOf(p), Newest(p), p)
                ELSE Done(p)
    /\ UNCHANGED <<doc, page, user, listed, todo>>

\* A call that fails is recorded and the pass goes on: refused by Confluence,
\* or landed and its answer lost.
CallFails ==
    /\ pc \in {"find", "create", "get", "push", "again"}
    /\ \/ /\ \/ "refused" \in Env
             \/ pc = "create" /\ ~Creatable
             \/ pc = "push" /\ ~Live(read[cur].page)
          /\ UNCHANGED page
       \/ "lost" \in Env /\ pc = "create" /\ Creatable /\ LandCreate
       \/ "lost" \in Env /\ pc = "push" /\ InStep(read[cur].page) /\ LandUpdate
    /\ Done(IF pc \in {"find", "create"} THEN NoPage ELSE read[cur].page)
    /\ UNCHANGED <<doc, user, listed, todo>>

\* Mutant of ByBody: a page that was just pushed is in step.
AlwaysSynced(row, text) == StatusSynced

\* The status ApplyCreated and ApplyPushed leave.
ByBody(row, text) == IF row.body = text THEN StatusSynced ELSE StatusUnsynced

\* What each write makes of the row.
Applied(row) ==
    CASE ans.op = "created"  -> [row EXCEPT !.page = ans.page, !.base = ans.text,
                                            !.version = ans.version, !.status = ByBody(row, ans.text)]
      [] ans.op = "pushed"   -> [row EXCEPT !.base = ans.text, !.version = ans.version,
                                            !.status = ByBody(row, ans.text)]
      [] ans.op = "pulled"   -> [row EXCEPT !.page = ans.page, !.body = ans.text, !.base = ans.text,
                                            !.version = ans.version, !.cbody = Blank, !.cversion = 0,
                                            !.status = StatusSynced, !.took = ans.version]
      [] ans.op = "conflict" -> [row EXCEPT !.page = ans.page, !.cbody = ans.text,
                                            !.cversion = ans.version, !.status = StatusConflict]
      [] ans.op = "gone"     -> [row EXCEPT !.status = StatusGone]

\* Mutant of Current: a pull lands on whatever was saved meanwhile.
CurrentAnyway(row) == row # None

\* The condition of ApplyPulled: the body is still the one the pass read.
Current(row) == row # None /\ (ans.op = "pulled" => row.body = read[cur].body)

\* ApplyCreated, ApplyPushed, ApplyPulled, ApplyConflict and MarkGone.  A row
\* that was removed takes nothing; a pull refused by a save is a conflict.
Apply ==
    /\ pc = "apply"
    /\ IF Current(doc[cur])
       THEN doc' = [doc EXCEPT ![cur] = Applied(@)] /\ Done(ans.under)
       ELSE /\ UNCHANGED doc
            /\ IF ans.op = "pulled" THEN ans' = [ans EXCEPT !.op = "conflict"] /\ UNCHANGED <<pc, read, cur, parent>>
               ELSE Done(ans.under)
    /\ UNCHANGED <<page, user, listed, todo>>

SyncEnds == pc = "next" /\ todo = {} /\ listed /\ Leave

Crash == pc # "idle" /\ "crash" \in Env /\ Leave

UserStep ==
    \/ \E ds \in SUBSET Docs : EnsureRituals(ds)
    \/ \E d \in Docs : Show(d) \/ ForgetPage(d) \/ DeleteDocument(d)
    \/ \E t \in Written : SaveBody(t)
    \/ ResolveMine \/ ResolveTheirs

RemoteStep ==
    \/ \E p \in DOMAIN page : RemoteDelete(p) \/ \E v \in Others : RemoteEdit(p, v)
    \/ \E d \in Docs, v \in Others, under \in {Root} \cup DOMAIN page :
          \E above \in {{}, {Root, under}} : RemoteCreate(d, above, v)

PassStep ==
    \/ ReadAgreement \/ RootFails \/ Ensure \/ Documents
    \/ \E d \in todo : Take(d)
    \/ FindPageByTitle \/ CreatePage \/ GetPageStorage \/ UpdatePage
    \/ UpdateConflict \/ GetPageAgain \/ CallFails \/ Apply \/ SyncEnds

Next == UserStep \/ RemoteStep \/ SyncStart \/ PassStep \/ Crash

Spec == Init /\ [][Next]_vars

-----------------------------------------------------------------------------
Answer == [op: {"created", "pushed", "pulled", "conflict", "gone"}, page: Nat,
           text: Texts, version: Nat, under: Nat]
Screen == [key: Docs, body: Texts, page: Nat, version: Nat, cversion: Nat]

TypeOK ==
    /\ doc \in [Docs -> Document \cup {None}] /\ read \in [Docs -> Document \cup {None}]
    /\ page \in Seq(Page) /\ \A p \in DOMAIN page : page[p].versions # <<>>
    /\ shown \in Screen \cup {None}
    /\ births \in Nat /\ acts \in Nat
    /\ pc \in {"idle", "root", "next", "list", "find", "create", "get", "push", "again", "apply"}
    /\ listed \in BOOLEAN /\ parent \in Nat
    /\ todo \in SUBSET Docs /\ \A d \in todo : read[d] # None
    /\ IF pc \in {"idle", "root", "next", "list"} THEN cur = None
       ELSE cur \in Docs /\ read[cur] # None
    /\ IF pc = "apply" THEN ans \in Answer ELSE ans = None

\* A text stands in Confluence as version v of page p.
Stands(text, p, v) ==
    p \in DOMAIN page /\ v \in DOMAIN page[p].versions /\ page[p].versions[v].text = Stored[text]

\* What a document is compared with is what its page held: its base is the
\* text of the version it is at, its conflict that of the version it names.
\* Everything a pass decides from a base rests on this.
BaseWasThere ==
    \A d \in Docs : doc[d] # None /\ doc[d].page # NoPage =>
        /\ doc[d].version > 0 => Stands(doc[d].base, doc[d].page, doc[d].version)
        /\ doc[d].status = StatusConflict => Stands(doc[d].cbody, doc[d].page, doc[d].cversion)

\* A document drawn as synced is: its page held exactly this text at the
\* version the document is at, also when a save landed during the push ("never
\* claimed as synced", the comment on Run).
SyncedIsThere ==
    \A d \in Docs : doc[d] # None /\ doc[d].status = StatusSynced =>
        Stands(doc[d].body, doc[d].page, doc[d].version)

\* A pass replaces the body of a document only when Confluence had that body
\* already or nobody wrote it ("a save made while the pass runs is never
\* overwritten", the comment on Run).
PullTakesNothing ==
    [][\A d \in Docs : PassStep /\ doc[d] # None /\ doc'[d] # None /\ doc'[d].body # doc[d].body =>
          \/ doc[d].body \in {Template, Blank}
          \/ Stands(doc[d].body, doc[d].page, doc[d].version)]_vars

\* A push replaces only a version the text pushed accounts for: TAM pushed it
\* from the same document, the document took it in, or the user saw it beside
\* theirs and kept theirs.
NothingOverwrittenUnseen ==
    [][\A p \in DOMAIN page : (UpdatePage \/ CallFails) /\ page'[p] # page[p] =>
          \/ page[p].versions[Newest(p)].birth = read[cur].birth
          \/ read[cur].took >= Newest(p)]_vars

\* A save replaces only the text the editor showed, or a template.
SaveReplacesWhatWasShown ==
    [][\A t \in Written : SaveBody(t) =>
          doc[shown.key].body \in {shown.body, Template}]_vars

\* How far a pass is: with the agreement, writing templates, listing, or with
\* the sprint's documents; and how far with the document it is at.
Part(now, over)  == IF now = "root" THEN 0 ELSE IF over THEN 3 ELSE IF now = "list" THEN 2 ELSE 1
Stage(now, what) ==
    CASE now \in {"find", "get"}    -> 1
      [] now \in {"create", "push"} -> 2
      [] now = "again"              -> 3
      [] now = "apply"              -> IF what.op = "pulled" THEN 4 ELSE 5
      [] OTHER                      -> 6

\* Every step of a pass brings it nearer to its end, whatever Confluence and the
\* user do meanwhile, and only a pass can move itself: it goes on to its next
\* part, or leaves a document behind, or is further with the one it is at.
\* Nothing is tried twice, so a pass over finitely many documents ends.
PassAdvances ==
    [][pc # "idle" /\ pc' # "idle" /\ pass' # pass =>
          \/ Part(pc, listed) < Part(pc', listed')
          \/ /\ Part(pc', listed') = Part(pc, listed)
             /\ \/ todo' \subseteq todo /\ todo' # todo
                \/ todo' = todo /\ Stage(pc, ans) < Stage(pc', ans')]_vars

=============================================================================
