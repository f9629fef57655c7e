----------------------------- MODULE SyncProofs -----------------------------
(***************************************************************************)
(* What the two syncs promise that bring a remote side into the local one. *)
(*                                                                         *)
(* RitualSync, for every set of documents and every body: its types and    *)
(* that a pass ends, under every disturbance; and, unless a document is    *)
(* removed and written again under a pass, that what a decision rests on   *)
(* was on the page, and that no text is replaced, on either side, by one   *)
(* that does not account for it.                                           *)
(*                                                                         *)
(* SyncPaging, for every set of issues and every page size: its types, and *)
(* that between syncs the cache holds what its watermarks claim, where no  *)
(* issue leaves the scope under a sync, no full sync fails half way and no *)
(* setting changes under one.                                              *)
(***************************************************************************)
EXTENDS RitualSync, SyncPaging, FiniteSetTheorems, TLAPS

-----------------------------------------------------------------------------
\* Types.

\* Where a pass is: the document it is at is not to be taken again, and it
\* lists the sprint's documents once.
PassShape == cur \notin todo /\ (pc = "list" => ~listed)

\* The pages of the space.
SpaceOK(space) ==
    space \in Seq(Page) /\ \A p \in DOMAIN space : space[p].versions # <<>>

LEMMA ConstantTypes ==
    /\ Docs \subseteq Nat /\ None \notin Nat /\ None \notin Docs
    /\ Template \in Texts /\ Blank \in Texts /\ Written \subseteq Texts
    /\ \A t \in Texts : Stored[t] \in Texts /\ Stored[Stored[t]] = Stored[t]
    /\ {StatusLocal, StatusSynced, StatusUnsynced, StatusConflict, StatusGone} = Statuses
    /\ NoPage = 0 /\ Root = -1
BY RitualSyncAssumption DEF Statuses, NoPage, Root

\* A template makes a row of the table.
LEMMA RenderedType ==
    ASSUME TypeOK, NEW d \in Docs
    PROVE  Rendered(d) \in Document
<1>1. doc[d] \in Document \cup {None} /\ births \in Nat
  BY DEF TypeOK
<1>2. doc[d] # None => /\ doc[d].version \in Nat /\ doc[d].cversion \in Nat
                       /\ doc[d].cbody \in Texts /\ doc[d].birth \in Nat
  BY <1>1 DEF Document
<1>. QED
  BY <1>1, <1>2, ConstantTypes DEF Rendered, Document

LEMMA WriteTemplatesType ==
    ASSUME TypeOK, NEW ds \in SUBSET Docs, WriteTemplates(ds)
    PROVE  doc' \in [Docs -> Document \cup {None}] /\ births' \in Nat
BY RenderedType DEF WriteTemplates, TypeOK

\* What a save or a resolution makes of a row is a row.
LEMMA SavedType ==
    ASSUME NEW row \in Document, NEW t \in Texts
    PROVE  [row EXCEPT !.body = t, !.status = SavedStatus(row, t)] \in Document
<1>1. SavedStatus(row, t) \in Statuses
  BY ConstantTypes DEF SavedStatus, Document
<1>. QED
  BY <1>1 DEF Document

Forgotten(row) == [row EXCEPT !.page = NoPage, !.version = 0, !.base = Blank, !.cbody = Blank,
                              !.cversion = 0, !.status = StatusLocal, !.took = 0]

LEMMA EditedType ==
    ASSUME NEW row \in Document
    PROVE  Forgotten(row) \in Document /\ Theirs(row) \in Document
BY ConstantTypes DEF Document, Forgotten, Theirs

LEMMA MineType ==
    ASSUME TypeOK, NEW row \in Document, shown \in Screen PROVE Mine(row) \in Document
<1>1. shown.cversion \in Nat
  BY DEF Screen
<1>. QED
  BY <1>1, ConstantTypes DEF Mine, Document

LEMMA AppliedType ==
    ASSUME NEW row \in Document, ans \in Answer PROVE Applied(row) \in Document
<1>1. /\ ans.page \in Nat /\ ans.version \in Nat /\ ans.text \in Texts
      /\ ans.op \in {"created", "pushed", "pulled", "conflict", "gone"}
      /\ ByBody(row, ans.text) \in Statuses
  BY ConstantTypes DEF Answer, ByBody
<1>2. /\ row.body \in Texts /\ row.base \in Texts /\ row.page \in Nat /\ row.version \in Nat
      /\ row.cbody \in Texts /\ row.cversion \in Nat /\ row.status \in Statuses
      /\ row.birth \in Nat /\ row.took \in Nat
  BY DEF Document
<1>. QED
  BY <1>1, <1>2, ConstantTypes DEF Applied, Document

\* Adding to a sequence and replacing one of its elements.
LEMMA AppendFacts ==
    ASSUME NEW S, NEW s \in Seq(S), NEW e \in S
    PROVE  /\ Append(s, e) \in Seq(S) /\ Append(s, e) # <<>>
           /\ Len(s) \in Nat /\ DOMAIN s = 1..Len(s)
           /\ Len(Append(s, e)) = Len(s) + 1
           /\ DOMAIN Append(s, e) = 1..(Len(s) + 1)
           /\ \A i \in 1..Len(s) : Append(s, e)[i] = s[i]
           /\ Append(s, e)[Len(s) + 1] = e
OBVIOUS

LEMMA VersionAdded ==
    ASSUME NEW s \in Seq(Version), NEW e \in Version
    PROVE  /\ Append(s, e) \in Seq(Version) /\ Append(s, e) # <<>>
           /\ Len(s) \in Nat /\ DOMAIN s = 1..Len(s)
           /\ Len(Append(s, e)) = Len(s) + 1
           /\ DOMAIN Append(s, e) = 1..(Len(s) + 1)
           /\ \A i \in 1..Len(s) : Append(s, e)[i] = s[i]
           /\ Append(s, e)[Len(s) + 1] = e
BY AppendFacts

LEMMA PageAdded ==
    ASSUME NEW s \in Seq(Page), NEW e \in Page
    PROVE  /\ Append(s, e) \in Seq(Page)
           /\ Len(s) \in Nat /\ DOMAIN s = 1..Len(s)
           /\ Len(Append(s, e)) = Len(s) + 1
           /\ DOMAIN Append(s, e) = 1..(Len(s) + 1)
           /\ \A i \in 1..Len(s) : Append(s, e)[i] = s[i]
           /\ Append(s, e)[Len(s) + 1] = e
BY AppendFacts

LEMMA ReplaceFacts ==
    ASSUME NEW S, NEW s \in Seq(S), NEW i \in DOMAIN s, NEW e \in S
    PROVE  /\ [s EXCEPT ![i] = e] \in Seq(S)
           /\ DOMAIN [s EXCEPT ![i] = e] = DOMAIN s
           /\ [s EXCEPT ![i] = e][i] = e
           /\ \A j \in DOMAIN s : j # i => [s EXCEPT ![i] = e][j] = s[j]
OBVIOUS

\* A page that gets a version, that is deleted, and that is added.
LEMMA PageFacts ==
    ASSUME TypeOK, NEW p \in DOMAIN page
    PROVE  /\ p \in Nat \ {0} /\ page[p] \in Page /\ Newest(p) \in Nat \ {0}
           /\ page[p].versions \in Seq(Version) /\ page[p].versions # <<>>
           /\ page[p].versions[Newest(p)] \in Version
           /\ BodyOf(p) \in Texts
<1>1. page \in Seq(Page) /\ page[p].versions # <<>>
  BY DEF TypeOK
<1>2. page[p] \in Page /\ p \in Nat \ {0}
  BY <1>1
<1>3. page[p].versions \in Seq(Version)
  BY <1>2 DEF Page
<1>4. Len(page[p].versions) \in Nat \ {0} /\ DOMAIN page[p].versions = 1..Len(page[p].versions)
  BY <1>1, <1>3
<1>5. page[p].versions[Len(page[p].versions)] \in Version
  BY <1>3, <1>4
<1>. QED
  BY <1>1, <1>2, <1>3, <1>4, <1>5 DEF Newest, BodyOf, Version

LEMMA PageTypes ==
    ASSUME TypeOK
    PROVE  /\ SpaceOK(page)
           /\ \A v \in Version : \A p \in DOMAIN page :
                  SpaceOK([page EXCEPT ![p].versions = Append(@, v)])
           /\ \A p \in DOMAIN page : SpaceOK([page EXCEPT ![p].live = FALSE])
           /\ \A v \in Version : \A d \in Nat, above \in SUBSET (Nat \cup {Root}) :
                  SpaceOK(Append(page, [title |-> d, above |-> above, live |-> TRUE,
                                        versions |-> <<v>>]))
<1>1. page \in Seq(Page) /\ \A p \in DOMAIN page : page[p].versions # <<>>
  BY DEF TypeOK
<1>2. ASSUME NEW p \in DOMAIN page, NEW to \in Page, to.versions # <<>>
      PROVE  SpaceOK([page EXCEPT ![p] = to])
  BY <1>1, <1>2, ReplaceFacts DEF SpaceOK
<1>3. ASSUME NEW v \in Version, NEW p \in DOMAIN page
      PROVE  SpaceOK([page EXCEPT ![p].versions = Append(@, v)])
  <2>. DEFINE new == [page[p] EXCEPT !.versions = Append(@, v)]
  <2>3. page[p] \in Page /\ page[p].versions \in Seq(Version)
    BY PageFacts
  <2>4. Append(page[p].versions, v) \in Seq(Version) /\ Append(page[p].versions, v) # <<>>
    BY <2>3, VersionAdded
  <2>1. new \in Page /\ new.versions # <<>>
    BY <2>3, <2>4 DEF Page
  <2>2. [page EXCEPT ![p].versions = Append(@, v)] = [page EXCEPT ![p] = new]
    OBVIOUS
  <2>. HIDE DEF new
  <2>. QED
    BY <1>2, <2>1, <2>2
<1>4. ASSUME NEW p \in DOMAIN page
      PROVE  SpaceOK([page EXCEPT ![p].live = FALSE])
  <2>. DEFINE new == [page[p] EXCEPT !.live = FALSE]
  <2>1. new \in Page /\ new.versions # <<>>
    BY PageFacts DEF Page
  <2>2. [page EXCEPT ![p].live = FALSE] = [page EXCEPT ![p] = new]
    OBVIOUS
  <2>. HIDE DEF new
  <2>. QED
    BY <1>2, <2>1, <2>2
<1>5. ASSUME NEW v \in Version, NEW d \in Nat, NEW above \in SUBSET (Nat \cup {Root})
      PROVE  SpaceOK(Append(page, [title |-> d, above |-> above, live |-> TRUE, versions |-> <<v>>]))
  <2>. DEFINE new == [title |-> d, above |-> above, live |-> TRUE, versions |-> <<v>>]
  <2>1. new \in Page /\ new.versions # <<>>
    BY DEF Page
  <2>. HIDE DEF new
  <2>2. /\ Append(page, new) \in Seq(Page)
        /\ \A q \in DOMAIN Append(page, new) :
              Append(page, new)[q] = new \/ (q \in DOMAIN page /\ Append(page, new)[q] = page[q])
    BY <1>1, <2>1, PageAdded
  <2>. QED
    BY <1>1, <2>1, <2>2 DEF new, SpaceOK
<1>. QED
  BY <1>1, <1>3, <1>4, <1>5 DEF SpaceOK
\* The document a pass is at, and the ways it goes on with it.
LEMMA AtDocument ==
    ASSUME TypeOK, pc \in {"find", "create", "get", "push", "again", "apply"}
    PROVE  /\ cur \in Docs /\ read[cur] \in Document
           /\ read[cur].body \in Texts /\ read[cur].birth \in Nat /\ read[cur].page \in Nat
           /\ read[cur].version \in Nat /\ Sent \in Version
<1>1. cur \in Docs /\ read[cur] \in Document
  BY DEF TypeOK
<1>2. /\ read[cur].body \in Texts /\ read[cur].birth \in Nat /\ read[cur].page \in Nat
      /\ read[cur].version \in Nat
  BY <1>1 DEF Document
<1>. QED
  BY <1>1, <1>2, ConstantTypes DEF Sent, Version

\* What a pass does without writing to the store.
PassOnly == UNCHANGED <<doc, user, listed, todo>>

LEMMA DoneType ==
    ASSUME TypeOK, PassShape, pc \notin {"idle", "root", "next", "list"},
           NEW p \in Nat, Done(p), user' = user, listed' = listed, todo' = todo,
           doc' \in [Docs -> Document \cup {None}], SpaceOK(page')
    PROVE  TypeOK' /\ PassShape'
<1>1. cur \in Docs /\ cur \notin todo
  BY DEF TypeOK, PassShape
<1>2. read' \in [Docs -> Document \cup {None}] /\ parent' \in Nat
  BY <1>1 DEF Done, Under, TypeOK
<1>3. \A d \in todo' : read'[d] # None
  BY <1>1 DEF Done, TypeOK
<1>4. None \notin todo
  BY ConstantTypes DEF TypeOK
<1>. QED
  BY <1>2, <1>3, <1>4 DEF Done, TypeOK, PassShape, SpaceOK, user

LEMMA WriteType ==
    ASSUME TypeOK, PassShape, pc \notin {"idle", "root", "next", "list"},
           NEW op \in {"created", "pushed", "pulled", "conflict", "gone"},
           NEW p \in Nat, NEW t \in Texts, NEW v \in Nat, NEW under \in Nat,
           Write(op, p, t, v, under), PassOnly, SpaceOK(page')
    PROVE  TypeOK' /\ PassShape'
<1>1. ans' \in Answer
  BY DEF Write, Answer
<1>. QED
  BY <1>1 DEF Write, PassOnly, TypeOK, PassShape, SpaceOK, user

LEMMA GotoType ==
    ASSUME TypeOK, PassShape, pc \in {"find", "create", "get", "push", "again"},
           NEW step \in {"create", "push", "again"}, Goto(step), PassOnly, page' = page
    PROVE  TypeOK' /\ PassShape'
BY DEF Goto, PassOnly, TypeOK, PassShape, user

\* The user's steps.
LEMMA UserType ==
    ASSUME TypeOK, PassShape, UserStep
    PROVE  TypeOK' /\ PassShape'
<1>. DEFINE StoreOK == /\ doc \in [Docs -> Document \cup {None}] /\ births \in Nat /\ acts \in Nat
                       /\ shown \in Screen \cup {None}
<1>1. UNCHANGED pass /\ UNCHANGED page
  BY DEF UserStep, EnsureRituals, Show, ForgetPage, DeleteDocument, SaveBody, ResolveMine, ResolveTheirs
<1>2. StoreOK
  BY DEF TypeOK
<1>3. ASSUME NEW k \in Docs, NEW row \in Document, doc' = [doc EXCEPT ![k] = row]
      PROVE  doc' \in [Docs -> Document \cup {None}]
  BY <1>2, <1>3
<1>4. StoreOK'
  <2>1. ASSUME NEW ds \in SUBSET Docs, EnsureRituals(ds) PROVE StoreOK'
    BY <1>2, <2>1, WriteTemplatesType DEF EnsureRituals, Act
  <2>2. ASSUME NEW d \in Docs, Show(d) PROVE StoreOK'
    <3>1. doc[d] \in Document
      BY <1>2, <2>2 DEF Show
    <3>. QED
      BY <1>2, <2>2, <3>1 DEF Show, Screen, Document
  <2>3. ASSUME NEW d \in Docs, ForgetPage(d) PROVE StoreOK'
    <3>1. doc[d] \in Document
      BY <1>2, <2>3 DEF ForgetPage
    <3>2. doc' = [doc EXCEPT ![d] = Forgotten(doc[d])]
      BY <1>2, <2>3 DEF ForgetPage, Forgotten
    <3>3. doc' \in [Docs -> Document \cup {None}]
      BY <1>3, <3>1, <3>2, EditedType
    <3>. QED
      BY <1>2, <2>3, <3>3 DEF ForgetPage, Reloads, Act
  <2>4. ASSUME NEW d \in Docs, DeleteDocument(d) PROVE StoreOK'
    BY <1>2, <2>4 DEF DeleteDocument, Reloads, Act
  <2>5. ASSUME NEW t \in Written, SaveBody(t) PROVE StoreOK'
    <3>1. shown \in Screen /\ shown.key \in Docs /\ doc[shown.key] \in Document /\ t \in Texts
      BY <1>2, <2>5, ConstantTypes DEF SaveBody, SameRow, Screen
    <3>2. [doc[shown.key] EXCEPT !.body = t, !.status = SavedStatus(doc[shown.key], t)] \in Document
      BY <3>1, SavedType
    <3>3. doc' = [doc EXCEPT ![shown.key] =
                    [doc[shown.key] EXCEPT !.body = t, !.status = SavedStatus(doc[shown.key], t)]]
      BY <1>2, <2>5, <3>1 DEF SaveBody
    <3>4. shown' \in Screen
      BY <2>5, <3>1 DEF SaveBody, Screen
    <3>5. births' = births /\ acts' \in Nat
      BY <1>2, <2>5 DEF SaveBody, Act
    <3>6. doc' \in [Docs -> Document \cup {None}]
      BY <1>3, <3>1, <3>2, <3>3
    <3>. QED
      BY <1>2, <3>4, <3>5, <3>6
  <2>6. CASE ResolveMine \/ ResolveTheirs
    <3>1. shown \in Screen /\ shown.key \in Docs /\ doc[shown.key] \in Document
      BY <1>2, <2>6 DEF ResolveMine, ResolveTheirs, Resolvable, Screen
    <3>2. Mine(doc[shown.key]) \in Document /\ Theirs(doc[shown.key]) \in Document
      BY <3>1, MineType, EditedType, ConstantTypes
    <3>3. doc' \in [Docs -> Document \cup {None}]
      BY <1>3, <2>6, <3>1, <3>2 DEF ResolveMine, ResolveTheirs
    <3>. QED
      BY <1>2, <2>6, <3>3 DEF ResolveMine, ResolveTheirs, Resolvable, Reloads, Act
  <2>. QED
    BY <2>1, <2>2, <2>3, <2>4, <2>5, <2>6 DEF UserStep
<1>. QED
  BY <1>1, <1>4 DEF TypeOK, PassShape, pass

\* What others do in Confluence.
LEMMA RemoteType ==
    ASSUME TypeOK, PassShape, RemoteStep
    PROVE  TypeOK' /\ PassShape'
<1>1. UNCHANGED <<doc, shown, births, pass>> /\ acts' \in Nat
  <2>1. RemoteStep => UNCHANGED <<doc, shown, births, pass>> /\ acts' = acts + 1
    BY DEF RemoteStep, RemoteEdit, RemoteDelete, RemoteCreate, Act
  <2>. QED
    BY <2>1 DEF TypeOK
<1>2. Others \subseteq Version
  BY ConstantTypes DEF Others, Version
<1>3. SpaceOK(page')
  <2>1. ASSUME NEW p \in DOMAIN page, RemoteDelete(p) PROVE SpaceOK(page')
    BY <2>1, PageTypes DEF RemoteDelete
  <2>2. ASSUME NEW p \in DOMAIN page, NEW v \in Others, RemoteEdit(p, v) PROVE SpaceOK(page')
    BY <1>2, <2>2, PageTypes DEF RemoteEdit
  <2>3. ASSUME NEW d \in Docs, NEW v \in Others, NEW under \in {Root} \cup DOMAIN page,
               NEW above \in {{}, {Root, under}}, RemoteCreate(d, above, v)
        PROVE  SpaceOK(page')
    <3>1. d \in Nat /\ above \in SUBSET (Nat \cup {Root})
      BY ConstantTypes DEF TypeOK
    <3>. QED
      BY <1>2, <2>3, <3>1, PageTypes DEF RemoteCreate
  <2>. QED
    BY <2>1, <2>2, <2>3 DEF RemoteStep
<1>. QED
  BY <1>1, <1>3 DEF TypeOK, PassShape, SpaceOK, pass

\* The order of a pass.
LEMMA OrderType ==
    ASSUME TypeOK, PassShape,
           \/ SyncStart \/ Leave \/ ReadAgreement \/ Ensure \/ Documents
           \/ \E d \in todo : Take(d)
    PROVE  TypeOK' /\ PassShape'
<1>1. CASE SyncStart
  BY <1>1, ConstantTypes DEF SyncStart, TypeOK, PassShape, user
<1>2. CASE Leave
  BY <1>2, ConstantTypes DEF Leave, TypeOK, PassShape, user
<1>3. CASE ReadAgreement
  BY <1>3, ConstantTypes DEF ReadAgreement, TypeOK, PassShape, user
<1>4. CASE Ensure
  <2>1. doc' \in [Docs -> Document \cup {None}] /\ births' \in Nat
    BY <1>4, WriteTemplatesType DEF Ensure
  <2>. QED
    BY <1>4, <2>1 DEF Ensure, TypeOK, PassShape, engine
<1>5. CASE Documents
  BY <1>5, ConstantTypes DEF Documents, TypeOK, PassShape, user
<1>6. ASSUME NEW d \in todo, Take(d) PROVE TypeOK' /\ PassShape'
  <2>1. d \in Docs /\ read[d] # None /\ cur = None /\ todo' = todo \ {d} /\ d # None
    BY <1>6, ConstantTypes DEF Take, TypeOK
  <2>2. CASE read[d].status = StatusGone \/ (read[d].page = NoPage /\ ParentOf(d) = NoPage)
    BY <1>6, <2>1, <2>2, ConstantTypes DEF Take, TypeOK, PassShape, user
  <2>3. CASE ~(read[d].status = StatusGone \/ (read[d].page = NoPage /\ ParentOf(d) = NoPage))
    BY <1>6, <2>1, <2>3, ConstantTypes DEF Take, TypeOK, PassShape, user
  <2>. QED
    BY <2>2, <2>3
<1>. QED
  BY <1>1, <1>2, <1>3, <1>4, <1>5, <1>6

\* The calls of a pass and its writes.
LEMMA CallType ==
    ASSUME TypeOK, PassShape,
           \/ FindPageByTitle \/ CreatePage \/ GetPageStorage \/ UpdatePage
           \/ UpdateConflict \/ GetPageAgain \/ CallFails
    PROVE  TypeOK' /\ PassShape'
<1>. DEFINE Ops == {"created", "pushed", "pulled", "conflict", "gone"}
<1>0. SpaceOK(page) /\ NoPage \in Nat /\ Blank \in Texts
  BY PageTypes, ConstantTypes
<1>p. \A p \in DOMAIN page : p \in Nat /\ BodyOf(p) \in Texts /\ Newest(p) \in Nat /\ Newest(p) + 1 \in Nat
  BY PageFacts
<1>a. pc \in {"find", "create", "get", "push", "again"}
  BY DEF FindPageByTitle, CreatePage, GetPageStorage, UpdatePage, UpdateConflict, GetPageAgain, CallFails
<1>b. /\ cur \in Docs /\ read[cur].body \in Texts /\ read[cur].page \in Nat /\ Sent \in Version
      /\ cur \in Nat
  BY <1>a, AtDocument, ConstantTypes
<1>c. LandCreate => SpaceOK(page')
  <2>1. {Root, ParentOf(cur)} \in SUBSET (Nat \cup {Root})
    BY DEF ParentOf, TypeOK
  <2>. QED
    BY <1>b, <2>1, PageTypes DEF LandCreate
<1>d. LandUpdate /\ Live(read[cur].page) => SpaceOK(page')
  BY <1>b, PageTypes DEF LandUpdate, Live
<1>1. CASE FindPageByTitle
  <2>1. PassOnly /\ page' = page /\ pc = "find"
    BY <1>1 DEF FindPageByTitle, PassOnly
  <2>2. CASE Goto("create")
    BY <1>a, <2>1, <2>2, GotoType
  <2>3. CASE Done(NoPage)
    BY <1>0, <2>1, <2>3, DoneType DEF PassOnly, TypeOK
  <2>4. ASSUME NEW p \in DOMAIN page, NEW op \in {"pulled", "conflict"},
               Write(op, p, BodyOf(p), Newest(p), p)
        PROVE  TypeOK' /\ PassShape'
    BY <1>0, <1>p, <2>1, <2>4, WriteType
  <2>. QED
    BY <1>1, <2>2, <2>3, <2>4 DEF FindPageByTitle, Titled
<1>2. CASE CreatePage
  <2>1. PassOnly /\ SpaceOK(page') /\ Len(page) + 1 \in Nat
    BY <1>0, <1>2, <1>c DEF CreatePage, PassOnly, SpaceOK
  <2>2. Write("created", Len(page) + 1, read[cur].body, 1, Len(page) + 1) /\ pc = "create"
    BY <1>2 DEF CreatePage
  <2>. QED
    BY <1>b, <2>1, <2>2, WriteType
<1>3. CASE GetPageStorage
  <2>. DEFINE p == read[cur].page
  <2>1. PassOnly /\ page' = page /\ pc = "get" /\ SpaceOK(page')
    BY <1>0, <1>3 DEF GetPageStorage, PassOnly
  <2>2. CASE Write("gone", p, Blank, 0, NoPage)
    BY <1>0, <1>b, <2>1, <2>2, WriteType
  <2>3. ASSUME NEW op \in {"pulled", "conflict"}, Live(p), Write(op, p, BodyOf(p), Newest(p), p)
        PROVE  TypeOK' /\ PassShape'
    BY <1>0, <1>p, <2>1, <2>3, WriteType DEF Live
  <2>4. CASE Goto("push")
    BY <1>a, <2>1, <2>4, GotoType
  <2>5. CASE Done(p)
    BY <1>b, <2>1, <2>5, DoneType DEF PassOnly, TypeOK
  <2>. QED
    BY <1>3, <2>2, <2>3, <2>4, <2>5 DEF GetPageStorage
<1>4. CASE UpdatePage
  <2>1. Live(read[cur].page) /\ read[cur].page \in DOMAIN page /\ LandUpdate /\ pc = "push"
    BY <1>4 DEF UpdatePage, InStep, Live
  <2>2. PassOnly /\ SpaceOK(page')
    BY <1>4, <1>d, <2>1 DEF UpdatePage, PassOnly
  <2>3. Write("pushed", read[cur].page, read[cur].body, Newest(read[cur].page) + 1, read[cur].page)
    BY <1>4 DEF UpdatePage
  <2>. QED
    BY <1>b, <1>p, <2>1, <2>2, <2>3, WriteType
<1>5. CASE UpdateConflict
  BY <1>5, <1>a, GotoType DEF UpdateConflict, PassOnly
<1>6. CASE GetPageAgain
  <2>. DEFINE p == read[cur].page
  <2>1. PassOnly /\ page' = page /\ pc = "again" /\ SpaceOK(page')
    BY <1>0, <1>6 DEF GetPageAgain, PassOnly
  <2>2. CASE Write("gone", p, Blank, 0, p)
    BY <1>0, <1>b, <2>1, <2>2, WriteType
  <2>3. CASE Live(p) /\ Write("conflict", p, BodyOf(p), Newest(p), p)
    BY <1>0, <1>p, <2>1, <2>3, WriteType DEF Live
  <2>5. CASE Done(p)
    BY <1>b, <2>1, <2>5, DoneType DEF PassOnly, TypeOK
  <2>. QED
    BY <1>6, <2>2, <2>3, <2>5 DEF GetPageAgain
<1>7. CASE CallFails
  <2>1. PassOnly /\ SpaceOK(page')
    <3>1. \/ page' = page \/ LandCreate
          \/ Live(read[cur].page) /\ LandUpdate
      BY <1>7 DEF CallFails, InStep
    <3>. QED
      BY <1>0, <1>7, <1>c, <1>d, <3>1 DEF CallFails, PassOnly
  <2>2. Done(NoPage) \/ Done(read[cur].page)
    BY <1>7 DEF CallFails
  <2>3. doc' \in [Docs -> Document \cup {None}]
    BY <2>1 DEF PassOnly, TypeOK
  <2>. QED
    BY <1>0, <1>a, <1>b, <2>1, <2>2, <2>3, DoneType DEF PassOnly
<1>. QED
  BY <1>1, <1>2, <1>3, <1>4, <1>5, <1>6, <1>7

LEMMA ApplyType ==
    ASSUME TypeOK, PassShape, Apply
    PROVE  TypeOK' /\ PassShape'
<1>1. /\ pc = "apply" /\ cur \in Docs /\ ans \in Answer /\ ans.under \in Nat
      /\ user' = user /\ listed' = listed /\ todo' = todo /\ SpaceOK(page')
  BY PageTypes DEF Apply, TypeOK, Answer
<1>2. CASE Current(doc[cur])
  <2>1. doc[cur] \in Document
    BY <1>1, <1>2 DEF Current, TypeOK
  <2>2. doc' \in [Docs -> Document \cup {None}] /\ Done(ans.under)
    <3>1. Applied(doc[cur]) \in Document /\ doc' = [doc EXCEPT ![cur] = Applied(doc[cur])]
      BY <1>1, <1>2, <2>1, AppliedType DEF Apply, TypeOK
    <3>. QED
      BY <1>1, <1>2, <3>1 DEF Apply, TypeOK
  <2>. QED
    BY <1>1, <2>2, DoneType
<1>3. CASE ~Current(doc[cur]) /\ ans.op # "pulled"
  <2>1. Done(ans.under) /\ doc' \in [Docs -> Document \cup {None}]
    BY <1>3 DEF Apply, TypeOK
  <2>. QED
    BY <1>1, <2>1, DoneType
<1>4. CASE ~Current(doc[cur]) /\ ans.op = "pulled"
  <2>1. /\ ans' = [ans EXCEPT !.op = "conflict"]
        /\ UNCHANGED <<doc, page, user, listed, todo, pc, read, cur, parent>>
    BY <1>4 DEF Apply
  <2>2. ans' \in Answer
    BY <1>1, <2>1 DEF Answer
  <2>. QED
    BY <1>1, <2>1, <2>2 DEF TypeOK, PassShape, user
<1>. QED
  BY <1>2, <1>3, <1>4

LEMMA TypeStep ==
    ASSUME TypeOK, PassShape, [Next]_vars
    PROVE  TypeOK' /\ PassShape'
<1>1. CASE UserStep
  BY <1>1, UserType
<1>2. CASE RemoteStep
  BY <1>2, RemoteType
<1>3. CASE SyncStart \/ PassStep \/ Crash
  BY <1>3, OrderType, CallType, ApplyType DEF PassStep, RootFails, SyncEnds, Crash
<1>4. CASE UNCHANGED vars
  BY <1>4 DEF vars, TypeOK, PassShape
<1>. QED
  BY <1>1, <1>2, <1>3, <1>4 DEF Next

LEMMA TypeInit == ASSUME Init PROVE TypeOK /\ PassShape
<1>1. page \in Seq(Page) /\ \A p \in DOMAIN page : page[p].versions # <<>>
  BY DEF Init
<1>2. todo \in SUBSET Docs /\ (\A d \in todo : read[d] # None) /\ cur \notin todo /\ parent \in Nat
  BY ConstantTypes DEF Init
<1>3. doc \in [Docs -> Document \cup {None}] /\ read \in [Docs -> Document \cup {None}]
  BY DEF Init
<1>. QED
  BY <1>1, <1>2, <1>3 DEF Init, TypeOK, PassShape

\* Whatever the user, Confluence and a pass do, every variable keeps its type,
\* and a pass does not meet a document twice.
THEOREM TypeCorrect == Spec => []TypeOK
<1>1. Init => TypeOK /\ PassShape
  BY TypeInit
<1>2. TypeOK /\ PassShape /\ [Next]_vars => (TypeOK /\ PassShape)'
  BY TypeStep
<1>. QED
  BY <1>1, <1>2, PTL DEF Spec

-----------------------------------------------------------------------------
\* A pass ends.

\* A call, or a write, takes the document it is about further or leaves it.
LEMMA FurtherWithDocument ==
    ASSUME TypeOK, PassShape,
           \/ FindPageByTitle \/ CreatePage \/ GetPageStorage \/ UpdatePage
           \/ UpdateConflict \/ GetPageAgain \/ CallFails \/ Apply
    PROVE  /\ todo' = todo /\ listed' = listed /\ pc # "list" /\ pc # "root"
           /\ pc' \notin {"list", "root"} /\ Stage(pc, ans) < Stage(pc', ans')
<1>. USE DEF Stage
<1>1. todo' = todo /\ listed' = listed
  BY DEF FindPageByTitle, CreatePage, GetPageStorage, UpdatePage, UpdateConflict, GetPageAgain,
         CallFails, Apply
<1>2. \A op, p, t, v, under : Write(op, p, t, v, under) =>
          /\ pc' = "apply" /\ Stage(pc', ans') \in {4, 5}
  BY DEF Write
<1>3. \A p : Done(p) => pc' = "next" /\ Stage(pc', ans') = 6
  BY DEF Done
<1>4. CASE FindPageByTitle
  BY <1>1, <1>2, <1>3, <1>4 DEF FindPageByTitle, Goto
<1>5. CASE CreatePage
  BY <1>1, <1>2, <1>3, <1>5 DEF CreatePage
<1>6. CASE GetPageStorage
  BY <1>1, <1>2, <1>3, <1>6 DEF GetPageStorage, Goto
<1>7. CASE UpdatePage
  BY <1>1, <1>2, <1>7 DEF UpdatePage
<1>8. CASE UpdateConflict
  BY <1>1, <1>8 DEF UpdateConflict, Goto
<1>9. CASE GetPageAgain
  BY <1>1, <1>2, <1>3, <1>9 DEF GetPageAgain
<1>10. CASE CallFails
  BY <1>1, <1>3, <1>10 DEF CallFails
<1>11. CASE Apply
  <2>1. pc = "apply" /\ Stage(pc, ans) \in {4, 5} /\ ans \in Answer
    BY <1>11 DEF Apply, TypeOK
  <2>2. CASE Done(ans.under)
    BY <1>1, <1>3, <2>1, <2>2
  <2>3. CASE ans.op = "pulled" /\ ans' = [ans EXCEPT !.op = "conflict"] /\ pc' = pc
    BY <1>1, <2>1, <2>3 DEF Answer
  <2>. QED
    BY <1>11, <2>2, <2>3 DEF Apply
<1>. QED
  BY <1>4, <1>5, <1>6, <1>7, <1>8, <1>9, <1>10, <1>11

LEMMA Advances ==
    ASSUME TypeOK, PassShape, [Next]_vars, pc # "idle", pc' # "idle", pass' # pass
    PROVE  \/ Part(pc, listed) < Part(pc', listed')
           \/ /\ Part(pc', listed') = Part(pc, listed)
              /\ \/ todo' \subseteq todo /\ todo' # todo
                 \/ todo' = todo /\ Stage(pc, ans) < Stage(pc', ans')
<1>. USE DEF Part
<1>1. listed \in BOOLEAN
  BY DEF TypeOK
<1>2. CASE UserStep \/ RemoteStep \/ UNCHANGED vars
  BY <1>2 DEF UserStep, RemoteStep, vars, pass, EnsureRituals, Show, ForgetPage, DeleteDocument,
              SaveBody, ResolveMine, ResolveTheirs, RemoteEdit, RemoteDelete, RemoteCreate
<1>3. CASE SyncStart \/ RootFails \/ SyncEnds \/ Crash
  BY <1>3 DEF SyncStart, RootFails, SyncEnds, Crash, Leave
<1>4. CASE ReadAgreement
  BY <1>1, <1>4 DEF ReadAgreement
<1>5. CASE Ensure
  BY <1>1, <1>5 DEF Ensure, engine
<1>6. CASE Documents
  BY <1>1, <1>6 DEF Documents, PassShape
<1>7. ASSUME NEW d \in todo, Take(d)
      PROVE  Part(pc', listed') = Part(pc, listed) /\ todo' \subseteq todo /\ todo' # todo
  BY <1>1, <1>7 DEF Take
<1>8. CASE \/ FindPageByTitle \/ CreatePage \/ GetPageStorage \/ UpdatePage
           \/ UpdateConflict \/ GetPageAgain \/ CallFails \/ Apply
  BY <1>8, FurtherWithDocument
<1>. QED
  BY <1>2, <1>3, <1>4, <1>5, <1>6, <1>7, <1>8 DEF Next, PassStep

\* For any number of documents: every step of a pass brings it nearer to its end.
THEOREM PassEnds == Spec => PassAdvances
<1>1. Init => TypeOK /\ PassShape
  BY TypeInit
<1>2. TypeOK /\ PassShape /\ [Next]_vars => (TypeOK /\ PassShape)'
  BY TypeStep
<1>3. TypeOK /\ PassShape /\ [Next]_vars =>
          [pc # "idle" /\ pc' # "idle" /\ pass' # pass =>
             \/ Part(pc, listed) < Part(pc', listed')
             \/ /\ Part(pc', listed') = Part(pc, listed)
                /\ \/ todo' \subseteq todo /\ todo' # todo
                   \/ todo' = todo /\ Stage(pc, ans) < Stage(pc', ans')]_vars
  BY Advances
<1>. QED
  BY <1>1, <1>2, <1>3, PTL DEF Spec, PassAdvances

-----------------------------------------------------------------------------
\* What every row keeps to.

\* A document without a page is local and carries nothing of one; a synced one
\* is at its base.
RowOK(row) ==
    /\ row.page = NoPage <=> row.status = StatusLocal
    /\ row.page = NoPage => row.version = 0 /\ row.base = Blank /\ row.took = 0
    /\ row.status = StatusSynced => row.body = row.base

StandsIn(space, text, p, v) ==
    p \in DOMAIN space /\ v \in DOMAIN space[p].versions /\ space[p].versions[v].text = Stored[text]

\* Base and conflict of a row were on its page.
Standing(space, row) ==
    row.page # NoPage =>
        /\ row.version > 0 => StandsIn(space, row.base, row.page, row.version)
        /\ row.status = StatusConflict => StandsIn(space, row.cbody, row.page, row.cversion)
        /\ row.status \notin {StatusConflict, StatusGone} => row.version > 0

\* The version a row is at goes back to the same writing, or the user took it.
Accounted(space, row) ==
    row.page # NoPage /\ row.version > 0 =>
        space[row.page].versions[row.version].birth = row.birth \/ row.took >= row.version

StoreInv    == \A d \in Docs : doc[d] # None => RowOK(doc[d]) /\ Standing(page, doc[d])
AccountInv  == \A d \in Docs : doc[d] # None => Accounted(page, doc[d])

\* Confluence holds normal forms only.
SpaceInv == \A p \in DOMAIN page : \A v \in DOMAIN page[p].versions :
                Stored[page[p].versions[v].text] = page[p].versions[v].text

\* What of a row a pass has read it still finds: only its body may have moved,
\* unless a conflict was resolved.
StillThere(was, row) ==
    /\ row # None /\ row.status # StatusGone /\ row.page = was.page /\ row.birth = was.birth
    /\ was.status # StatusConflict =>
          /\ row.status # StatusConflict
          /\ row.base = was.base /\ row.version = was.version /\ row.took = was.took

ReadInv ==
    /\ pc = "idle" => \A d \in Docs : read[d] = None
    /\ \A d \in Docs : read[d] # None /\ read[d].status # StatusGone =>
          /\ RowOK(read[d]) /\ StillThere(read[d], doc[d])

\* The document a pass is at is what the step it is at is for.
AtInv ==
    /\ pc \in {"find", "create"} => read[cur].page = NoPage
    /\ pc \in {"get", "push", "again"} => read[cur].page # NoPage
    /\ pc \in {"push", "again"} => read[cur].status # StatusConflict
    /\ pc \in {"find", "create", "get", "push", "again", "apply"} => read[cur].status # StatusGone

\* The answer a pass is about to write down.
Answers(row) ==
    /\ ans.op # "gone" => StandsIn(page, ans.text, ans.page, ans.version)
    /\ ans.op = "created" => row.page = NoPage
    /\ ans.op \in {"pushed", "gone"} => row.page = ans.page /\ row.page # NoPage
    /\ ans.op \in {"pulled", "conflict"} => row.page \in {NoPage, ans.page}
    /\ ans.op \in {"created", "pushed"} =>
          /\ row.status # StatusConflict
          /\ page[ans.page].versions[ans.version].birth = row.birth
    /\ ans.op = "pulled" =>
          /\ row.status # StatusConflict
          /\ row.body = IF row.page = NoPage THEN Template ELSE row.base
    /\ ans.op \in {"pushed", "pulled"} => row.page = NoPage \/ row.version < ans.version

AnswerInv == pc = "apply" => Answers(read[cur])

\* What the editor shows is behind its row by a version, or is what it holds.
Screened(row) ==
    /\ row # None /\ shown.page \in {NoPage, row.page}
    /\ shown.page = row.page =>
          /\ shown.version <= row.version
          /\ shown.version = row.version => row.body \in {shown.body, Template}

ScreenInv == shown # None => Screened(doc[shown.key])

Inv == TypeOK /\ PassShape /\ StoreInv /\ SpaceInv /\ ReadInv /\ AtInv /\ AnswerInv /\ ScreenInv

-----------------------------------------------------------------------------
\* Confluence only adds.
Grown(from, to) ==
    \A p \in DOMAIN from : /\ p \in DOMAIN to
                           /\ \A v \in DOMAIN from[p].versions :
                                 /\ v \in DOMAIN to[p].versions
                                 /\ to[p].versions[v] = from[p].versions[v]

LEMMA SpaceAdded ==
    ASSUME TypeOK, SpaceInv, NEW t \in Texts, NEW b \in Nat
    PROVE  LET v == [text |-> Stored[t], birth |-> b]
           IN  /\ \A p \in DOMAIN page : page' = [page EXCEPT ![p].versions = Append(@, v)] =>
                     /\ Grown(page, page') /\ SpaceInv'
                     /\ StandsIn(page', t, p, Newest(p) + 1)
                     /\ page'[p].versions[Newest(p) + 1] = v
               /\ \A d \in Nat, above \in SUBSET (Nat \cup {Root}) :
                     page' = Append(page, [title |-> d, above |-> above, live |-> TRUE, versions |-> <<v>>]) =>
                        /\ Grown(page, page') /\ SpaceInv'
                        /\ StandsIn(page', t, Len(page) + 1, 1)
                        /\ page'[Len(page) + 1].versions[1] = v
               /\ \A p \in DOMAIN page : page' = [page EXCEPT ![p].live = FALSE] =>
                     Grown(page, page') /\ SpaceInv'
<1>. DEFINE v == [text |-> Stored[t], birth |-> b]
<1>1. v \in Version /\ Stored[v.text] = v.text /\ v.text = Stored[t]
  BY ConstantTypes DEF Version
<1>. HIDE DEF v
<1>2. page \in Seq(Page)
  BY DEF TypeOK
<1>3. ASSUME NEW p \in DOMAIN page, page' = [page EXCEPT ![p].versions = Append(@, v)]
      PROVE  /\ Grown(page, page') /\ SpaceInv'
             /\ StandsIn(page', t, p, Newest(p) + 1)
             /\ page'[p].versions[Newest(p) + 1] = v
  <2>. DEFINE old == page[p].versions
              new == Append(page[p].versions, v)
  <2>1. old \in Seq(Version) /\ page[p] \in Page
    BY PageFacts
  <2>2. /\ Len(old) \in Nat /\ DOMAIN old = 1..Len(old)
        /\ DOMAIN new = 1..(Len(old) + 1) /\ new[Len(old) + 1] = v
        /\ \A i \in 1..Len(old) : new[i] = old[i]
    BY <1>1, <2>1, VersionAdded
  <2>. HIDE DEF new
  <2>3. DOMAIN page' = DOMAIN page /\ \A q \in DOMAIN page : q # p => page'[q] = page[q]
    BY <1>2, <1>3
  <2>4. page'[p].versions = new
    BY <1>2, <1>3, <2>1 DEF new, Page
  <2>5. /\ \A i \in DOMAIN old : i \in DOMAIN new /\ new[i] = old[i]
        /\ Len(old) + 1 \in DOMAIN new
        /\ \A i \in DOMAIN new : i = Len(old) + 1 \/ i \in DOMAIN old
    BY <2>2
  <2>6. Newest(p) = Len(old)
    BY DEF Newest
  <2>. HIDE DEF old
  <2>7. Grown(page, page')
    BY <2>3, <2>4, <2>5 DEF Grown, old
  <2>8. SpaceInv'
    <3>1. \A i \in DOMAIN new : Stored[new[i].text] = new[i].text
      BY <1>1, <2>2, <2>5 DEF SpaceInv, old
    <3>. QED
      BY <2>3, <2>4, <3>1 DEF SpaceInv
  <2>. QED
    BY <1>1, <2>2, <2>3, <2>4, <2>5, <2>6, <2>7, <2>8 DEF StandsIn
<1>4. ASSUME NEW d \in Nat, NEW above \in SUBSET (Nat \cup {Root}),
             page' = Append(page, [title |-> d, above |-> above, live |-> TRUE, versions |-> <<v>>])
      PROVE  /\ Grown(page, page') /\ SpaceInv'
             /\ StandsIn(page', t, Len(page) + 1, 1)
             /\ page'[Len(page) + 1].versions[1] = v
  <2>. DEFINE new == [title |-> d, above |-> above, live |-> TRUE, versions |-> <<v>>]
  <2>1. new \in Page /\ new.versions = <<v>>
    BY <1>1 DEF Page
  <2>. HIDE DEF new
  <2>2. page' = Append(page, new)
    BY <1>4 DEF new
  <2>3. /\ Len(page) \in Nat /\ DOMAIN page = 1..Len(page)
        /\ DOMAIN page' = 1..(Len(page) + 1)
        /\ \A i \in 1..Len(page) : page'[i] = page[i]
        /\ page'[Len(page) + 1] = new
    BY <1>2, <2>1, <2>2, PageAdded
  <2>4. /\ \A i \in DOMAIN page : i \in DOMAIN page' /\ page'[i] = page[i]
        /\ Len(page) + 1 \in DOMAIN page'
        /\ \A i \in DOMAIN page' : i = Len(page) + 1 \/ i \in DOMAIN page
    BY <2>3
  <2>5. DOMAIN new.versions = {1} /\ new.versions[1] = v
    BY <2>1
  <2>6. Grown(page, page')
    BY <2>4 DEF Grown
  <2>7. SpaceInv'
    BY <1>1, <2>3, <2>4, <2>5 DEF SpaceInv
  <2>. QED
    BY <1>1, <2>3, <2>4, <2>5, <2>6, <2>7 DEF StandsIn
<1>5. ASSUME NEW p \in DOMAIN page, page' = [page EXCEPT ![p].live = FALSE]
      PROVE  Grown(page, page') /\ SpaceInv'
  <2>1. /\ DOMAIN page' = DOMAIN page /\ \A q \in DOMAIN page : page'[q].versions = page[q].versions
    BY <1>2, <1>5, PageFacts DEF Page
  <2>. QED
    BY <2>1 DEF Grown, SpaceInv
<1>. QED
  BY <1>3, <1>4, <1>5 DEF v

LEMMA CreateLands ==
    ASSUME TypeOK, SpaceInv, pc \in {"find", "create", "get", "push", "again"}, LandCreate
    PROVE  /\ Grown(page, page') /\ SpaceInv'
           /\ StandsIn(page', read[cur].body, Len(page) + 1, 1)
           /\ page'[Len(page) + 1].versions[1].birth = read[cur].birth
<1>. DEFINE v == [text |-> Stored[read[cur].body], birth |-> read[cur].birth]
<1>1. read[cur].body \in Texts /\ read[cur].birth \in Nat /\ cur \in Nat
  BY AtDocument, ConstantTypes
<1>2. {Root, ParentOf(cur)} \in SUBSET (Nat \cup {Root})
  BY DEF ParentOf, TypeOK
<1>3. page' = Append(page, [title |-> cur, above |-> {Root, ParentOf(cur)}, live |-> TRUE,
                            versions |-> <<v>>])
  BY DEF LandCreate, Sent
<1>4. /\ Grown(page, page') /\ SpaceInv'
      /\ StandsIn(page', read[cur].body, Len(page) + 1, 1)
      /\ page'[Len(page) + 1].versions[1] = v
  BY <1>1, <1>2, <1>3, SpaceAdded
<1>5. v.birth = read[cur].birth
  OBVIOUS
<1>. HIDE DEF v
<1>. QED
  BY <1>4, <1>5

LEMMA UpdateLands ==
    ASSUME TypeOK, SpaceInv, pc \in {"find", "create", "get", "push", "again"}, LandUpdate,
           Live(read[cur].page)
    PROVE  LET p == read[cur].page
           IN  /\ Grown(page, page') /\ SpaceInv'
               /\ StandsIn(page', read[cur].body, p, Newest(p) + 1)
               /\ page'[p].versions[Newest(p) + 1].birth = read[cur].birth
<1>. DEFINE v == [text |-> Stored[read[cur].body], birth |-> read[cur].birth]
            p == read[cur].page
<1>1. read[cur].body \in Texts /\ read[cur].birth \in Nat
  BY AtDocument
<1>2. p \in DOMAIN page /\ page' = [page EXCEPT ![p].versions = Append(@, v)]
  BY DEF LandUpdate, Sent, Live
<1>3. /\ Grown(page, page') /\ SpaceInv'
      /\ StandsIn(page', read[cur].body, p, Newest(p) + 1)
      /\ page'[p].versions[Newest(p) + 1] = v
  BY <1>1, <1>2, SpaceAdded
<1>4. v.birth = read[cur].birth
  OBVIOUS
<1>. HIDE DEF v
<1>. QED
  BY <1>3, <1>4

LEMMA GrownItself == Grown(page, page)
BY DEF Grown

\* No step of anybody takes a version away, or adds one not in normal form.
LEMMA SpaceStep ==
    ASSUME TypeOK, SpaceInv, [Next]_vars
    PROVE  Grown(page, page') /\ SpaceInv'
<1>1. CASE page' = page
  BY <1>1, GrownItself DEF SpaceInv
<1>2. CASE RemoteStep
  <2>1. \A v \in Others : \E t \in Texts : v = [text |-> Stored[t], birth |-> 0]
    BY ConstantTypes DEF Others
  <2>2. ASSUME NEW p \in DOMAIN page, RemoteDelete(p) PROVE Grown(page, page') /\ SpaceInv'
    BY <2>2, ConstantTypes, SpaceAdded DEF RemoteDelete
  <2>3. ASSUME NEW p \in DOMAIN page, NEW v \in Others, RemoteEdit(p, v)
        PROVE  Grown(page, page') /\ SpaceInv'
    BY <2>1, <2>3, SpaceAdded DEF RemoteEdit
  <2>4. ASSUME NEW d \in Docs, NEW v \in Others, NEW under \in {Root} \cup DOMAIN page,
               NEW above \in {{}, {Root, under}}, RemoteCreate(d, above, v)
        PROVE  Grown(page, page') /\ SpaceInv'
    <3>1. d \in Nat /\ above \in SUBSET (Nat \cup {Root})
      BY ConstantTypes DEF TypeOK
    <3>. QED
      BY <2>1, <2>4, <3>1, SpaceAdded DEF RemoteCreate
  <2>. QED
    BY <1>2, <2>2, <2>3, <2>4 DEF RemoteStep
<1>3. CASE CreatePage \/ UpdatePage \/ CallFails
  <2>1. pc \in {"find", "create", "get", "push", "again"}
    BY <1>3 DEF CreatePage, UpdatePage, CallFails
  <2>2. \/ page' = page \/ LandCreate
        \/ Live(read[cur].page) /\ LandUpdate
    BY <1>3 DEF CreatePage, UpdatePage, CallFails, InStep
  <2>. QED
    BY <1>1, <2>1, <2>2, CreateLands, UpdateLands
<1>4. page' = page \/ RemoteStep \/ CreatePage \/ UpdatePage \/ CallFails
  <2>1. UserStep \/ SyncStart \/ Crash \/ UNCHANGED vars => page' = page
    BY DEF UserStep, EnsureRituals, Show, ForgetPage, DeleteDocument, SaveBody, ResolveMine,
           ResolveTheirs, SyncStart, Crash, Leave, vars
  <2>2. PassStep => page' = page \/ CreatePage \/ UpdatePage \/ CallFails
    BY DEF PassStep, ReadAgreement, RootFails, Leave, Ensure, Documents, Take, FindPageByTitle,
           GetPageStorage, UpdateConflict, GetPageAgain, Apply, SyncEnds
  <2>. QED
    BY <2>1, <2>2 DEF Next
<1>. QED
  BY <1>1, <1>2, <1>3, <1>4

\* What stood stands.
LEMMA StandsOn ==
    ASSUME NEW from, NEW to, Grown(from, to)
    PROVE  /\ \A t, p, v : StandsIn(from, t, p, v) => StandsIn(to, t, p, v)
           /\ \A row : Standing(from, row) => Standing(to, row)
           /\ \A row : Standing(from, row) /\ Accounted(from, row) => Accounted(to, row)
<1>1. \A t, p, v : StandsIn(from, t, p, v) =>
          /\ StandsIn(to, t, p, v) /\ to[p].versions[v] = from[p].versions[v]
  BY DEF Grown, StandsIn
<1>. QED
  BY <1>1 DEF Standing, Accounted

\* With the rows and the screen as they were, only Confluence may have grown.
LEMMA RowsStay ==
    ASSUME StoreInv, ScreenInv, Grown(page, page'), doc' = doc
    PROVE  /\ StoreInv' /\ (shown' = shown => ScreenInv')
           /\ AccountInv => AccountInv'
BY StandsOn DEF StoreInv, ScreenInv, Screened, AccountInv

LEMMA PassStays ==
    ASSUME ReadInv, AtInv, AnswerInv, Grown(page, page'), pass' = pass
    PROVE  AtInv' /\ AnswerInv' /\ (doc' = doc => ReadInv')
<1>1. AnswerInv'
  <2>1. \A p, v : Grown(page, page') /\ p \in DOMAIN page /\ v \in DOMAIN page[p].versions =>
             page'[p].versions[v] = page[p].versions[v]
    BY DEF Grown
  <2>. QED
    BY <2>1, StandsOn DEF AnswerInv, Answers, StandsIn, pass
<1>. QED
  BY <1>1 DEF ReadInv, AtInv, pass

-----------------------------------------------------------------------------
\* The store under the user, while nobody removes a document under a pass.

\* Templates go only where they replace nothing and a pass is not misled.
LEMMA TemplatesKeep ==
    ASSUME Inv, NEW ds \in SUBSET Docs, WriteTemplates(ds), page' = page, read' = read,
           shown' = shown, (pc' = "idle") = (pc = "idle")
    PROVE  StoreInv' /\ ReadInv' /\ ScreenInv' /\ (AccountInv => AccountInv')
<1>. USE DEF Inv
<1>1. ASSUME NEW d \in Docs
      PROVE  /\ doc[d] # None => doc[d] \in Document
             /\ doc'[d] = doc[d] \/ (NeedsTemplate(d) /\ doc'[d] = Rendered(d))
  BY DEF WriteTemplates, TypeOK
<1>2. ASSUME NEW d \in Docs, NeedsTemplate(d)
      PROVE  /\ RowOK(Rendered(d)) /\ Rendered(d).page = NoPage /\ Rendered(d).body = Template
             /\ Rendered(d).version = 0 /\ Rendered(d).base = Blank /\ Rendered(d).took = 0
             /\ Rendered(d).status = StatusLocal
             /\ doc[d] # None => /\ doc[d].page = NoPage /\ doc[d].version = 0
                                 /\ Rendered(d).birth = doc[d].birth
  <2>1. doc[d] # None => doc[d].page = NoPage /\ doc[d].version = 0
    BY <1>2 DEF NeedsTemplate, StoreInv, RowOK
  <2>. QED
    BY <2>1 DEF Rendered, RowOK, StatusLocal, StatusSynced
<1>3. StoreInv'
  BY <1>1, <1>2 DEF StoreInv, Standing
<1>4. ReadInv'
  <2>1. ASSUME NEW d \in Docs, read[d] # None, read[d].status # StatusGone
        PROVE  RowOK(read[d]) /\ StillThere(read[d], doc'[d])
    <3>1. RowOK(read[d]) /\ StillThere(read[d], doc[d])
      BY <2>1 DEF ReadInv
    <3>2. CASE NeedsTemplate(d) /\ doc'[d] = Rendered(d)
      <4>1. /\ doc[d] # None /\ read[d].page = NoPage /\ read[d].status = StatusLocal
            /\ read[d].base = Blank /\ read[d].version = 0 /\ read[d].took = 0
            /\ read[d].birth = Rendered(d).birth
        BY <1>2, <3>1, <3>2 DEF StillThere, RowOK
      <4>2. doc'[d] # None
        <5>1. doc' \in [Docs -> Document \cup {None}] /\ Rendered(d) \in Document
          BY WriteTemplatesType, RenderedType
        <5>. QED
          BY <3>2, <5>1, NoneIsNoDocument
      <4>. QED
        BY <1>2, <3>1, <3>2, <4>1, <4>2 DEF StillThere, StatusLocal, StatusConflict, StatusGone
    <3>. QED
      BY <1>1, <3>1, <3>2
  <2>. QED
    BY <2>1 DEF ReadInv
<1>5. ScreenInv'
  <2>1. ASSUME shown # None PROVE Screened(doc[shown.key])'
    <3>1. shown.key \in Docs /\ Screened(doc[shown.key])
      BY <2>1 DEF ScreenInv, TypeOK, Screen
    <3>2. CASE NeedsTemplate(shown.key) /\ doc'[shown.key] = Rendered(shown.key)
      <4>1. Rendered(shown.key) # None
        BY <3>1, RenderedType, NoneIsNoDocument
      <4>. QED
        BY <1>2, <3>1, <3>2, <4>1 DEF Screened
    <3>. QED
      BY <1>1, <3>1, <3>2 DEF Screened
  <2>. QED
    BY <2>1 DEF ScreenInv
<1>6. AccountInv => AccountInv'
  BY <1>1, <1>2 DEF AccountInv, Accounted
<1>. QED
  BY <1>3, <1>4, <1>5, <1>6

\* One row changed by the user.
LEMMA RowChanged ==
    ASSUME Inv, NEW k \in Docs, doc[k] # None, NEW row \in Document,
           doc' = [doc EXCEPT ![k] = row], page' = page, pass' = pass,
           RowOK(row), Standing(page, row),
           read[k] # None /\ read[k].status # StatusGone => StillThere(read[k], row)
    PROVE  /\ StoreInv' /\ ReadInv' /\ (shown' = None => ScreenInv')
           /\ AccountInv /\ Accounted(page, row) => AccountInv'
<1>1. /\ doc'[k] = row /\ \A d \in Docs : d # k => doc'[d] = doc[d]
      /\ row # None /\ read' = read /\ pc' = pc
  BY NoneIsNoDocument DEF Inv, TypeOK, pass
<1>2. StoreInv'
  BY <1>1 DEF Inv, StoreInv
<1>3. ReadInv'
  BY <1>1 DEF Inv, ReadInv
<1>. QED
  BY <1>1, <1>2, <1>3 DEF AccountInv, ScreenInv

LEMMA StatusesDiffer ==
    /\ StatusLocal # StatusSynced /\ StatusLocal # StatusUnsynced /\ StatusLocal # StatusConflict
    /\ StatusLocal # StatusGone /\ StatusSynced # StatusUnsynced /\ StatusSynced # StatusConflict
    /\ StatusSynced # StatusGone /\ StatusUnsynced # StatusConflict /\ StatusUnsynced # StatusGone
    /\ StatusConflict # StatusGone
BY DEF StatusLocal, StatusSynced, StatusUnsynced, StatusConflict, StatusGone

LEMMA SavedKeeps ==
    ASSUME Inv, NEW k \in Docs, doc[k] # None, NEW t \in Texts
    PROVE  LET row == [doc[k] EXCEPT !.body = t, !.status = SavedStatus(doc[k], t)]
           IN  /\ row \in Document /\ RowOK(row) /\ Standing(page, row)
               /\ read[k] # None /\ read[k].status # StatusGone => StillThere(read[k], row)
               /\ Accounted(page, doc[k]) => Accounted(page, row)
               /\ row.body = t /\ row.page = doc[k].page /\ row.version = doc[k].version
<1>. DEFINE row == [doc[k] EXCEPT !.body = t, !.status = SavedStatus(doc[k], t)]
<1>1. doc[k] \in Document /\ RowOK(doc[k]) /\ Standing(page, doc[k])
  BY DEF Inv, TypeOK, StoreInv
<1>2. row \in Document
  BY <1>1, SavedType
<1>3. /\ row.body = t /\ row.base = doc[k].base /\ row.page = doc[k].page
      /\ row.version = doc[k].version /\ row.cbody = doc[k].cbody /\ row.cversion = doc[k].cversion
      /\ row.birth = doc[k].birth /\ row.took = doc[k].took /\ row.status = SavedStatus(doc[k], t)
  BY <1>1 DEF Document
<1>4. /\ row.status = StatusConflict <=> doc[k].status = StatusConflict
      /\ row.status = StatusGone <=> doc[k].status = StatusGone
      /\ row.status = StatusLocal <=> row.page = NoPage
      /\ row.status = StatusSynced => row.base = t
  BY <1>1, <1>3, StatusesDiffer DEF SavedStatus, RowOK
<1>. HIDE DEF row
<1>5. RowOK(row) /\ Standing(page, row)
  BY <1>1, <1>3, <1>4 DEF RowOK, Standing
<1>6. Accounted(page, doc[k]) => Accounted(page, row)
  BY <1>3 DEF Accounted
<1>7. read[k] # None /\ read[k].status # StatusGone => StillThere(read[k], row)
  BY <1>2, <1>3, <1>4, NoneIsNoDocument DEF Inv, ReadInv, StillThere
<1>. QED
  BY <1>2, <1>3, <1>5, <1>6, <1>7 DEF row

LEMMA ResolvedKeeps ==
    ASSUME Inv, shown \in Screen, doc[shown.key] # None, doc[shown.key].status = StatusConflict,
           NEW row \in {Mine(doc[shown.key]), Theirs(doc[shown.key])}
    PROVE  /\ row \in Document /\ RowOK(row) /\ Standing(page, row)
           /\ read[shown.key] # None /\ read[shown.key].status # StatusGone
                 => StillThere(read[shown.key], row)
           /\ shown.cversion = doc[shown.key].cversion => Accounted(page, row)
<1>. DEFINE k == shown.key
<1>1. k \in Docs /\ doc[k] \in Document /\ RowOK(doc[k]) /\ Standing(page, doc[k])
  BY DEF Inv, TypeOK, StoreInv, Screen
<1>2. row \in Document
  BY <1>1, MineType, EditedType DEF Inv
<1>3. /\ row.base = doc[k].cbody /\ row.page = doc[k].page /\ row.version = doc[k].cversion
      /\ row.birth = doc[k].birth /\ row.took \in {shown.cversion, row.version}
      /\ row.status \in {StatusSynced, StatusUnsynced}
      /\ row.status = StatusSynced => row.body = row.base
  <2>1. CASE row = Mine(doc[k])
    BY <1>1, <2>1, StatusesDiffer DEF Mine, Document
  <2>2. CASE row = Theirs(doc[k])
    BY <1>1, <2>2, StatusesDiffer DEF Theirs, Document
  <2>. QED
    BY <2>1, <2>2
<1>4. doc[k].page # NoPage /\ StandsIn(page, row.base, row.page, row.version)
  BY <1>1, <1>3, StatusesDiffer DEF RowOK, Standing
<1>5. row.version > 0
  BY <1>4, PageFacts DEF Inv, StandsIn
<1>6. row.took = shown.cversion /\ shown.cversion = doc[k].cversion => row.took = row.version
  BY <1>3
<1>7. row.version \in Nat
  BY <1>2 DEF Document
<1>8. RowOK(row) /\ Standing(page, row)
  BY <1>3, <1>4, <1>5, StatusesDiffer DEF RowOK, Standing
<1>9. shown.cversion = doc[k].cversion => Accounted(page, row)
  BY <1>3, <1>6, <1>7 DEF Accounted
<1>10. read[k] # None /\ read[k].status # StatusGone => StillThere(read[k], row)
  <2>1. ASSUME read[k] # None, read[k].status # StatusGone PROVE StillThere(read[k], row)
    <3>1. StillThere(read[k], doc[k])
      BY <1>1, <2>1 DEF Inv, ReadInv
    <3>2. read[k].status = StatusConflict
      BY <3>1 DEF StillThere
    <3>. QED
      BY <1>2, <1>3, <3>1, <3>2, StatusesDiffer, NoneIsNoDocument DEF StillThere
  <2>. QED
    BY <2>1
<1>. QED
  BY <1>2, <1>8, <1>9, <1>10

\* Everything the user does, here.
LEMMA UserKeeps ==
    ASSUME Inv, "recreate" \notin Env, UserStep
    PROVE  /\ StoreInv' /\ ReadInv' /\ ScreenInv'
           /\ AccountInv /\ "late" \notin Env => AccountInv'
<1>. DEFINE Goal == /\ StoreInv' /\ ReadInv' /\ ScreenInv'
                    /\ AccountInv /\ "late" \notin Env => AccountInv'
<1>0. page' = page /\ pass' = pass /\ Grown(page, page')
  BY GrownItself DEF UserStep, EnsureRituals, Show, ForgetPage, DeleteDocument, SaveBody, ResolveMine,
                     ResolveTheirs
<1>1. ASSUME NEW ds \in SUBSET Docs, EnsureRituals(ds) PROVE Goal
  BY <1>0, <1>1, TemplatesKeep DEF EnsureRituals, pass
<1>2. ASSUME NEW d \in Docs, Show(d) PROVE Goal
  <2>1. ReadInv' /\ StoreInv' /\ (AccountInv => AccountInv')
    BY <1>0, <1>2, PassStays, RowsStay DEF Inv, Show
  <2>2. doc[d] \in Document /\ doc' = doc /\ doc[d] # None
    BY <1>2 DEF Inv, TypeOK, Show
  <2>3. /\ shown'.key = d /\ shown'.page = doc[d].page /\ shown'.version = doc[d].version
        /\ shown'.body = doc[d].body
    BY <1>2 DEF Show
  <2>4. ScreenInv'
    BY <2>2, <2>3 DEF ScreenInv, Screened, Document
  <2>. QED
    BY <2>1, <2>4
<1>3. ASSUME NEW d \in Docs, ForgetPage(d) PROVE Goal
  <2>1. doc[d] \in Document /\ doc[d] # None /\ doc[d].status = StatusGone
    BY <1>3 DEF Inv, TypeOK, ForgetPage
  <2>2. Forgotten(doc[d]) \in Document /\ doc' = [doc EXCEPT ![d] = Forgotten(doc[d])]
    BY <1>3, <2>1, EditedType DEF ForgetPage, Forgotten, Inv, TypeOK
  <2>3. /\ RowOK(Forgotten(doc[d])) /\ Standing(page, Forgotten(doc[d]))
        /\ Accounted(page, Forgotten(doc[d]))
    BY <2>1, StatusesDiffer DEF Forgotten, RowOK, Standing, Accounted, Document
  <2>4. ~(read[d] # None /\ read[d].status # StatusGone)
    BY <2>1 DEF Inv, ReadInv, StillThere
  <2>5. shown' = None
    BY <1>3 DEF ForgetPage, Reloads
  <2>. QED
    BY <1>0, <2>1, <2>2, <2>3, <2>4, <2>5, RowChanged
<1>4. ASSUME NEW d \in Docs, DeleteDocument(d) PROVE Goal
  <2>1. /\ doc' = [doc EXCEPT ![d] = None] /\ shown' = None /\ \A e \in Docs : read[e] = None
    BY <1>4 DEF DeleteDocument, Reloads, Inv, ReadInv
  <2>2. \A e \in Docs : doc'[e] # None => doc'[e] = doc[e]
    BY <2>1 DEF Inv, TypeOK
  <2>3. StoreInv' /\ (AccountInv => AccountInv')
    BY <1>0, <2>2 DEF Inv, StoreInv, AccountInv
  <2>. QED
    BY <1>0, <2>1, <2>3 DEF ReadInv, ScreenInv, pass
<1>5. ASSUME NEW t \in Written, SaveBody(t) PROVE Goal
  <2>. DEFINE k == shown.key
              row == [doc[k] EXCEPT !.body = t, !.status = SavedStatus(doc[k], t)]
  <2>1. shown \in Screen /\ k \in Docs /\ doc[k] # None /\ t \in Texts /\ shown # None
    BY <1>5, ConstantTypes DEF SaveBody, SameRow, Inv, TypeOK, Screen
  <2>2. doc' = [doc EXCEPT ![k] = row] /\ shown' = [shown EXCEPT !.body = t]
    BY <1>5, <2>1 DEF SaveBody, Inv, TypeOK
  <2>3. /\ row \in Document /\ RowOK(row) /\ Standing(page, row)
        /\ read[k] # None /\ read[k].status # StatusGone => StillThere(read[k], row)
        /\ Accounted(page, doc[k]) => Accounted(page, row)
        /\ row.body = t /\ row.page = doc[k].page /\ row.version = doc[k].version
    BY <2>1, SavedKeeps
  <2>. HIDE DEF row
  <2>4. StoreInv' /\ ReadInv' /\ (AccountInv => AccountInv')
    BY <1>0, <2>1, <2>2, <2>3, RowChanged DEF AccountInv
  <2>5. /\ shown'.key = k /\ shown'.page = shown.page /\ shown'.version = shown.version
        /\ shown'.body = t /\ doc'[k] = row
    BY <2>1, <2>2 DEF Screen, Inv, TypeOK
  <2>6. ScreenInv'
    BY <2>1, <2>3, <2>5, NoneIsNoDocument DEF Inv, ScreenInv, Screened
  <2>. QED
    BY <2>4, <2>6
<1>6. CASE ResolveMine \/ ResolveTheirs
  <2>. DEFINE k == shown.key
  <2>1. /\ shown \in Screen /\ k \in Docs /\ doc[k] # None /\ doc[k].status = StatusConflict
        /\ "late" \notin Env => shown.cversion = doc[k].cversion
        /\ shown' = None
    BY <1>6 DEF ResolveMine, ResolveTheirs, Resolvable, Reloads, Inv, TypeOK, Screen
  <2>2. PICK row \in {Mine(doc[k]), Theirs(doc[k])} : doc' = [doc EXCEPT ![k] = row]
    BY <1>6 DEF ResolveMine, ResolveTheirs
  <2>3. /\ row \in Document /\ RowOK(row) /\ Standing(page, row)
        /\ read[k] # None /\ read[k].status # StatusGone => StillThere(read[k], row)
        /\ shown.cversion = doc[k].cversion => Accounted(page, row)
    BY <2>1, <2>2, ResolvedKeeps
  <2>. QED
    BY <1>0, <2>1, <2>2, <2>3, RowChanged
<1>. QED
  BY <1>1, <1>2, <1>3, <1>4, <1>5, <1>6 DEF UserStep

-----------------------------------------------------------------------------
\* The steps of a pass.

LEMMA OrderKeeps ==
    ASSUME Inv,
           \/ SyncStart \/ Leave \/ ReadAgreement \/ Documents
           \/ \E d \in todo : Take(d)
    PROVE  ReadInv' /\ AtInv' /\ AnswerInv' /\ UNCHANGED <<doc, page, shown>>
<1>. USE DEF Inv
<1>0. \A d \in Docs : doc[d] # None /\ doc[d].status # StatusGone =>
          RowOK(doc[d]) /\ StillThere(doc[d], doc[d])
  BY DEF StoreInv, StillThere
<1>1. CASE SyncStart
  BY <1>1 DEF SyncStart, ReadInv, AtInv, AnswerInv, user
<1>2. CASE Leave
  BY <1>2 DEF Leave, ReadInv, AtInv, AnswerInv, user
<1>3. CASE ReadAgreement
  BY <1>0, <1>3 DEF ReadAgreement, ReadInv, AtInv, AnswerInv, user
<1>4. CASE Documents
  BY <1>0, <1>4 DEF Documents, ReadInv, AtInv, AnswerInv, user
<1>5. ASSUME NEW d \in todo, Take(d) PROVE ReadInv' /\ AtInv' /\ AnswerInv' /\ UNCHANGED <<doc, page, shown>>
  <2>1. d \in Docs /\ read[d] # None /\ pc = "next" /\ UNCHANGED <<doc, page, shown>>
    BY <1>5 DEF Take, TypeOK, user
  <2>2. CASE read[d].status = StatusGone \/ (read[d].page = NoPage /\ ParentOf(d) = NoPage)
    BY <1>5, <2>1, <2>2 DEF Take, ReadInv, AtInv, AnswerInv, TypeOK
  <2>3. CASE ~(read[d].status = StatusGone \/ (read[d].page = NoPage /\ ParentOf(d) = NoPage))
    BY <1>5, <2>1, <2>3 DEF Take, ReadInv, AtInv, AnswerInv, TypeOK
  <2>. QED
    BY <2>2, <2>3
<1>. QED
  BY <1>1, <1>2, <1>3, <1>4, <1>5

\* The three ways a call goes on.
LEMMA DoneKeeps ==
    ASSUME Inv, pc \in {"find", "create", "get", "push", "again", "apply"}, NEW p, Done(p),
           \A d \in Docs : d # cur => doc'[d] = doc[d]
    PROVE  ReadInv' /\ AtInv' /\ AnswerInv'
<1>1. /\ pc' = "next" /\ cur \in Docs /\ read'[cur] = None
      /\ \A d \in Docs : d # cur => read'[d] = read[d]
  BY DEF Inv, TypeOK, Done
<1>. QED
  BY <1>1 DEF Inv, ReadInv, AtInv, AnswerInv

LEMMA GotoKeeps ==
    ASSUME Inv, pc # "idle", NEW step \in {"create", "push", "again"}, Goto(step), doc' = doc,
           step = "create" => read[cur].page = NoPage,
           step \in {"push", "again"} => read[cur].page # NoPage /\ read[cur].status # StatusConflict,
           read[cur].status # StatusGone
    PROVE  ReadInv' /\ AtInv' /\ AnswerInv'
BY DEF Goto, Inv, ReadInv, AtInv, AnswerInv

LEMMA WriteKeeps ==
    ASSUME Inv, pc # "idle", NEW op, NEW p, NEW t, NEW v, NEW under, Write(op, p, t, v, under), doc' = doc,
           read[cur].status # StatusGone, Answers(read[cur])'
    PROVE  ReadInv' /\ AtInv' /\ AnswerInv'
<1>1. read' = read /\ cur' = cur /\ pc' = "apply"
  BY DEF Write
<1>. QED
  BY <1>1 DEF Inv, ReadInv, AtInv, AnswerInv

\* The document a pass is at, as it was read and as it is.
LEMMA AtRow ==
    ASSUME Inv, pc \in {"find", "create", "get", "push", "again", "apply"}
    PROVE  /\ cur \in Docs /\ read[cur] \in Document /\ read[cur].status # StatusGone
           /\ RowOK(read[cur]) /\ StillThere(read[cur], doc[cur])
           /\ doc[cur] \in Document /\ RowOK(doc[cur]) /\ Standing(page, doc[cur])
<1>1. cur \in Docs /\ read[cur] # None /\ read[cur] \in Document /\ read[cur].status # StatusGone
  BY DEF Inv, TypeOK, AtInv
<1>2. RowOK(read[cur]) /\ StillThere(read[cur], doc[cur])
  BY <1>1 DEF Inv, ReadInv
<1>3. doc[cur] # None
  BY <1>2 DEF StillThere
<1>. QED
  BY <1>1, <1>2, <1>3 DEF Inv, StoreInv, TypeOK

\* What a page is read to be stands there.
LEMMA AsRead ==
    ASSUME Inv, NEW p \in DOMAIN page
    PROVE  StandsIn(page, BodyOf(p), p, Newest(p)) /\ p # NoPage
<1>1. Newest(p) \in DOMAIN page[p].versions /\ p # 0
  BY PageFacts DEF Inv, Newest
<1>. QED
  BY <1>1 DEF Inv, SpaceInv, StandsIn, BodyOf, NoPage

LEMMA CallKeeps ==
    ASSUME Inv,
           \/ FindPageByTitle \/ CreatePage \/ GetPageStorage \/ UpdatePage
           \/ UpdateConflict \/ GetPageAgain \/ CallFails
    PROVE  ReadInv' /\ AtInv' /\ AnswerInv' /\ doc' = doc /\ shown' = shown
<1>. DEFINE row == read[cur]
            Goal == ReadInv' /\ AtInv' /\ AnswerInv'
<1>0. /\ pc \in {"find", "create", "get", "push", "again"}
      /\ doc' = doc /\ shown' = shown
  BY DEF FindPageByTitle, CreatePage, GetPageStorage, UpdatePage, UpdateConflict, GetPageAgain,
         CallFails, user
<1>1. row \in Document /\ row.status # StatusGone /\ RowOK(row) /\ SpaceInv
  BY <1>0, AtRow DEF Inv
<1>2. \A p : Done(p) => Goal
  BY <1>0, DoneKeeps
<1>3. CASE FindPageByTitle
  <2>1. page' = page /\ pc = "find" /\ row.page = NoPage
    BY <1>3 DEF FindPageByTitle, Inv, AtInv
  <2>2. CASE Goto("create")
    BY <1>0, <1>1, <2>1, <2>2, GotoKeeps
  <2>3. ASSUME NEW p \in DOMAIN page, NEW op \in {"pulled", "conflict"},
               Write(op, p, BodyOf(p), Newest(p), p), op = "pulled" => Adopts(row)
        PROVE  Goal
    <3>1. /\ ans' = [op |-> op, page |-> p, text |-> BodyOf(p), version |-> Newest(p), under |-> p]
          /\ read' = read /\ cur' = cur
      BY <2>3 DEF Write
    <3>2. StandsIn(page', BodyOf(p), p, Newest(p)) /\ row.status # StatusConflict
      BY <1>1, <2>1, AsRead, StatusesDiffer DEF RowOK
    <3>3. Answers(row)'
      BY <2>1, <2>3, <3>1, <3>2 DEF Answers, Adopts
    <3>. QED
      BY <1>0, <1>1, <2>3, <3>1, <3>3, WriteKeeps
  <2>. QED
    BY <1>0, <1>2, <1>3, <2>2, <2>3 DEF FindPageByTitle, Titled
<1>4. CASE CreatePage
  <2>1. /\ Write("created", Len(page) + 1, row.body, 1, Len(page) + 1)
        /\ LandCreate /\ pc = "create" /\ row.page = NoPage
    BY <1>4 DEF CreatePage, Inv, AtInv
  <2>2. /\ ans' = [op |-> "created", page |-> Len(page) + 1, text |-> row.body, version |-> 1,
                   under |-> Len(page) + 1]
        /\ read' = read /\ cur' = cur
    BY <2>1 DEF Write
  <2>3. /\ StandsIn(page', row.body, Len(page) + 1, 1)
        /\ page'[Len(page) + 1].versions[1].birth = row.birth
    BY <1>0, <2>1, CreateLands DEF Inv
  <2>4. Answers(row)'
    BY <1>1, <2>1, <2>2, <2>3, StatusesDiffer DEF Answers, RowOK
  <2>. QED
    BY <1>0, <1>1, <2>1, <2>2, <2>4, WriteKeeps
<1>5. CASE GetPageStorage
  <2>. DEFINE p == row.page
  <2>1. page' = page /\ pc = "get" /\ p # NoPage
    BY <1>5 DEF GetPageStorage, Inv, AtInv
  <2>2. CASE Write("gone", p, Blank, 0, NoPage)
    <3>1. ans'.op = "gone" /\ ans'.page = p /\ read' = read /\ cur' = cur
      BY <2>2 DEF Write
    <3>2. Answers(row)'
      BY <2>1, <3>1 DEF Answers
    <3>. QED
      BY <1>0, <1>1, <2>2, <3>1, <3>2, WriteKeeps
  <2>3. ASSUME NEW op \in {"pulled", "conflict"}, Live(p), Write(op, p, BodyOf(p), Newest(p), p),
               op = "pulled" => /\ row.status # StatusConflict /\ ~Dirty(row)
                                /\ Newest(p) > row.version
        PROVE  Goal
    <3>1. /\ ans' = [op |-> op, page |-> p, text |-> BodyOf(p), version |-> Newest(p), under |-> p]
          /\ read' = read /\ cur' = cur
      BY <2>3 DEF Write
    <3>2. StandsIn(page', BodyOf(p), p, Newest(p))
      BY <2>1, <2>3, AsRead DEF Live
    <3>3. Answers(row)'
      BY <2>1, <2>3, <3>1, <3>2 DEF Answers, Dirty
    <3>. QED
      BY <1>0, <1>1, <2>3, <3>1, <3>3, WriteKeeps
  <2>4. CASE Goto("push") /\ row.status # StatusConflict
    BY <1>0, <1>1, <2>1, <2>4, GotoKeeps
  <2>. QED
    BY <1>0, <1>2, <1>5, <2>2, <2>3, <2>4 DEF GetPageStorage
<1>6. CASE UpdatePage
  <2>. DEFINE p == row.page
  <2>1. /\ Write("pushed", p, row.body, Newest(p) + 1, p) /\ LandUpdate /\ Live(p)
        /\ Newest(p) = row.version /\ pc = "push" /\ p # NoPage /\ row.status # StatusConflict
    BY <1>6 DEF UpdatePage, InStep, Inv, AtInv
  <2>2. /\ ans' = [op |-> "pushed", page |-> p, text |-> row.body, version |-> Newest(p) + 1, under |-> p]
        /\ read' = read /\ cur' = cur
    BY <2>1 DEF Write
  <2>3. StandsIn(page', row.body, p, Newest(p) + 1) /\ page'[p].versions[Newest(p) + 1].birth = row.birth
    BY <1>0, <2>1, UpdateLands DEF Inv
  <2>4. row.version \in Nat
    BY <1>1 DEF Document
  <2>5. Answers(row)'
    BY <2>1, <2>2, <2>3, <2>4 DEF Answers
  <2>. QED
    BY <1>0, <1>1, <2>1, <2>2, <2>5, WriteKeeps
<1>7. CASE UpdateConflict
  <2>1. pc = "push" /\ Goto("again") /\ row.page # NoPage /\ row.status # StatusConflict
    BY <1>7 DEF UpdateConflict, Inv, AtInv
  <2>. QED
    BY <1>0, <1>1, <2>1, GotoKeeps
<1>8. CASE GetPageAgain
  <2>. DEFINE p == row.page
  <2>1. page' = page /\ pc = "again" /\ p # NoPage
    BY <1>8 DEF GetPageAgain, Inv, AtInv
  <2>2. CASE Write("gone", p, Blank, 0, p)
    <3>1. ans'.op = "gone" /\ ans'.page = p /\ read' = read /\ cur' = cur
      BY <2>2 DEF Write
    <3>2. Answers(row)'
      BY <2>1, <3>1 DEF Answers
    <3>. QED
      BY <1>0, <1>1, <2>2, <3>1, <3>2, WriteKeeps
  <2>3. CASE Live(p) /\ Write("conflict", p, BodyOf(p), Newest(p), p)
    <3>1. /\ ans' = [op |-> "conflict", page |-> p, text |-> BodyOf(p), version |-> Newest(p), under |-> p]
          /\ read' = read /\ cur' = cur
      BY <2>3 DEF Write
    <3>2. StandsIn(page', BodyOf(p), p, Newest(p))
      BY <2>1, <2>3, AsRead DEF Live
    <3>3. Answers(row)'
      BY <2>1, <3>1, <3>2 DEF Answers
    <3>. QED
      BY <1>0, <1>1, <2>3, <3>1, <3>3, WriteKeeps
  <2>. QED
    BY <1>0, <1>2, <1>8, <2>2, <2>3 DEF GetPageAgain
<1>9. CASE CallFails
  <2>1. Done(NoPage) \/ Done(read[cur].page)
    BY <1>9 DEF CallFails
  <2>. QED
    BY <1>0, <1>2, <2>1
<1>. QED
  BY <1>0, <1>3, <1>4, <1>5, <1>6, <1>7, <1>8, <1>9

\* What the write of an answer makes of the row it finds.
LEMMA AppliedKeeps ==
    ASSUME Inv, pc = "apply", Current(doc[cur])
    PROVE  LET row == doc[cur]
               new == Applied(row)
           IN  /\ new \in Document /\ RowOK(new) /\ Standing(page, new)
               /\ Accounted(page, row) => Accounted(page, new)
               /\ shown # None /\ Screened(row) => Screened(new)
<1>. DEFINE row == doc[cur]
            was == read[cur]
            new == Applied(row)
<1>1. /\ was \in Document /\ was.status # StatusGone /\ RowOK(was) /\ StillThere(was, row)
      /\ row \in Document /\ RowOK(row) /\ Standing(page, row)
  BY AtRow
<1>2. ans \in Answer /\ Answers(was)
  BY DEF Inv, TypeOK, AnswerInv
<1>3. new \in Document /\ new # None
  BY <1>1, <1>2, AppliedType, NoneIsNoDocument
<1>4. ans.op # "gone" => ans.page # NoPage /\ ans.version > 0
  BY <1>2, PageFacts DEF Inv, Answers, StandsIn, NoPage
<1>5. /\ row.version \in Nat /\ ans.version \in Nat
      /\ shown # None => shown.version \in Nat
  BY <1>1, <1>2 DEF Document, Answer, Inv, TypeOK, Screen
<1>6. row.page = was.page /\ row.birth = was.birth /\ row.status # StatusGone
  BY <1>1 DEF StillThere
<1>7. was.status # StatusConflict => row.version = was.version
  BY <1>1 DEF StillThere
<1>8. CASE ans.op = "created"
  <2>1. /\ new.page = ans.page /\ new.base = ans.text /\ new.version = ans.version
        /\ new.birth = row.birth /\ new.body = row.body
        /\ new.status \in {StatusSynced, StatusUnsynced}
        /\ new.status = StatusSynced => new.body = new.base
    BY <1>1, <1>8, StatusesDiffer DEF Applied, ByBody, Document
  <2>2. RowOK(new) /\ Standing(page, new)
    BY <1>2, <1>4, <1>8, <2>1, StatusesDiffer DEF Answers, RowOK, Standing
  <2>3. Accounted(page, new)
    BY <1>2, <1>6, <1>8, <2>1 DEF Answers, Accounted
  <2>4. shown # None /\ Screened(row) => Screened(new)
    BY <1>2, <1>3, <1>4, <1>6, <1>8, <2>1 DEF Answers, Screened
  <2>. QED
    BY <1>3, <2>2, <2>3, <2>4
<1>9. CASE ans.op = "pushed"
  <2>1. /\ new.page = row.page /\ new.base = ans.text /\ new.version = ans.version
        /\ new.birth = row.birth /\ new.body = row.body
        /\ new.status \in {StatusSynced, StatusUnsynced}
        /\ new.status = StatusSynced => new.body = new.base
    BY <1>1, <1>9, StatusesDiffer DEF Applied, ByBody, Document
  <2>2. row.page = ans.page /\ row.version < ans.version
    BY <1>2, <1>6, <1>7, <1>9 DEF Answers
  <2>3. RowOK(new) /\ Standing(page, new)
    BY <1>2, <1>4, <1>9, <2>1, <2>2, StatusesDiffer DEF Answers, RowOK, Standing
  <2>4. Accounted(page, new)
    BY <1>2, <1>6, <1>9, <2>1, <2>2 DEF Answers, Accounted
  <2>5. shown # None /\ Screened(row) => Screened(new)
    BY <1>3, <1>5, <2>1, <2>2 DEF Screened
  <2>. QED
    BY <1>3, <2>3, <2>4, <2>5
<1>10. CASE ans.op = "pulled"
  <2>1. /\ new.page = ans.page /\ new.base = ans.text /\ new.version = ans.version
        /\ new.body = ans.text /\ new.status = StatusSynced /\ new.took = ans.version
    BY <1>1, <1>10 DEF Applied, Document
  <2>2. RowOK(new) /\ Standing(page, new)
    BY <1>2, <1>4, <1>10, <2>1, StatusesDiffer DEF Answers, RowOK, Standing
  <2>3. Accounted(page, new)
    BY <1>5, <2>1 DEF Accounted
  <2>4. row.page = NoPage \/ row.version < new.version
    BY <1>2, <1>6, <1>7, <1>10, <2>1 DEF Answers
  <2>5. shown # None /\ Screened(row) => Screened(new)
    BY <1>2, <1>3, <1>4, <1>5, <1>6, <1>10, <2>1, <2>4 DEF Answers, Screened
  <2>. QED
    BY <1>3, <2>2, <2>3, <2>5
<1>11. CASE ans.op = "conflict"
  <2>1. /\ new.page = ans.page /\ new.base = row.base /\ new.version = row.version
        /\ new.body = row.body /\ new.status = StatusConflict /\ new.took = row.took
        /\ new.birth = row.birth /\ new.cbody = ans.text /\ new.cversion = ans.version
    BY <1>1, <1>11 DEF Applied, Document
  <2>2. row.page = ans.page \/ (row.page = NoPage /\ row.version = 0)
    BY <1>1, <1>2, <1>6, <1>11 DEF Answers, RowOK
  <2>3. RowOK(new) /\ Standing(page, new)
    BY <1>1, <1>2, <1>4, <1>11, <2>1, <2>2, StatusesDiffer DEF Answers, RowOK, Standing
  <2>4. Accounted(page, row) => Accounted(page, new)
    BY <1>4, <1>11, <2>1, <2>2 DEF Accounted
  <2>5. shown # None /\ Screened(row) => Screened(new)
    BY <1>3, <1>4, <1>11, <2>1, <2>2 DEF Screened
  <2>. QED
    BY <1>3, <2>3, <2>4, <2>5
<1>12. CASE ans.op = "gone"
  <2>1. /\ new.page = row.page /\ new.base = row.base /\ new.version = row.version
        /\ new.body = row.body /\ new.status = StatusGone /\ new.took = row.took
        /\ new.birth = row.birth
    BY <1>1, <1>12 DEF Applied, Document
  <2>2. row.page # NoPage
    BY <1>2, <1>6, <1>12 DEF Answers
  <2>3. RowOK(new) /\ Standing(page, new)
    BY <1>1, <2>1, <2>2, StatusesDiffer DEF RowOK, Standing
  <2>4. /\ Accounted(page, row) => Accounted(page, new)
        /\ shown # None /\ Screened(row) => Screened(new)
    BY <1>3, <2>1 DEF Accounted, Screened
  <2>. QED
    BY <1>3, <2>3, <2>4
<1>. QED
  BY <1>2, <1>8, <1>9, <1>10, <1>11, <1>12 DEF Answer

LEMMA ApplyKeeps ==
    ASSUME Inv, Apply
    PROVE  StoreInv' /\ ReadInv' /\ AtInv' /\ AnswerInv' /\ ScreenInv' /\ (AccountInv => AccountInv')
<1>1. pc = "apply" /\ page' = page /\ shown' = shown /\ cur \in Docs
  BY DEF Apply, user, Inv, TypeOK
<1>2. CASE Current(doc[cur])
  <2>. DEFINE new == Applied(doc[cur])
  <2>1. /\ doc' = [doc EXCEPT ![cur] = new] /\ Done(ans.under)
        /\ doc'[cur] = new /\ \A d \in Docs : d # cur => doc'[d] = doc[d]
    BY <1>1, <1>2 DEF Apply, Inv, TypeOK
  <2>2. /\ new \in Document /\ RowOK(new) /\ Standing(page, new)
        /\ Accounted(page, doc[cur]) => Accounted(page, new)
        /\ shown # None /\ Screened(doc[cur]) => Screened(new)
    BY <1>1, <1>2, AppliedKeeps
  <2>. HIDE DEF new
  <2>3. ReadInv' /\ AtInv' /\ AnswerInv'
    BY <1>1, <2>1, DoneKeeps
  <2>4. StoreInv'
    BY <1>1, <2>1, <2>2 DEF Inv, StoreInv
  <2>5. AccountInv => AccountInv'
    BY <1>1, <2>1, <2>2, AtRow, NoneIsNoDocument DEF AccountInv
  <2>6. ScreenInv'
    <3>1. ASSUME shown # None PROVE Screened(doc[shown.key])'
      BY <1>1, <2>1, <2>2, <3>1 DEF Inv, ScreenInv, Screened, TypeOK, Screen
    <3>. QED
      BY <1>1, <3>1 DEF ScreenInv
  <2>. QED
    BY <2>3, <2>4, <2>5, <2>6
<1>3. CASE ~Current(doc[cur]) /\ ans.op # "pulled"
  <2>1. Done(ans.under) /\ doc' = doc
    BY <1>3 DEF Apply
  <2>. QED
    BY <1>1, <2>1, DoneKeeps, RowsStay, GrownItself DEF Inv
<1>4. CASE ~Current(doc[cur]) /\ ans.op = "pulled"
  <2>1. /\ ans' = [ans EXCEPT !.op = "conflict"] /\ doc' = doc
        /\ UNCHANGED <<pc, read, cur, parent>>
    BY <1>4 DEF Apply
  <2>2. ans \in Answer /\ Answers(read[cur])
    BY <1>1 DEF Inv, TypeOK, AnswerInv
  <2>3. /\ ans'.op = "conflict" /\ ans'.page = ans.page /\ ans'.text = ans.text
        /\ ans'.version = ans.version
    BY <2>1, <2>2 DEF Answer
  <2>4. Answers(read[cur])'
    BY <1>1, <1>4, <2>1, <2>2, <2>3 DEF Answers
  <2>5. ReadInv' /\ AtInv' /\ AnswerInv'
    BY <2>1, <2>4 DEF Inv, ReadInv, AtInv, AnswerInv
  <2>. QED
    BY <1>1, <2>1, <2>5, RowsStay, GrownItself DEF Inv
<1>. QED
  BY <1>2, <1>3, <1>4

\* Every step keeps all of it.
LEMMA InvStep ==
    ASSUME Inv, "recreate" \notin Env, [Next]_vars
    PROVE  Inv' /\ (AccountInv /\ "late" \notin Env => AccountInv')
<1>1. TypeOK' /\ PassShape' /\ Grown(page, page') /\ SpaceInv'
  BY TypeStep, SpaceStep DEF Inv
<1>. DEFINE Goal == /\ StoreInv' /\ ReadInv' /\ AtInv' /\ AnswerInv' /\ ScreenInv'
                    /\ AccountInv /\ "late" \notin Env => AccountInv'
<1>2. CASE UserStep
  <2>1. pass' = pass
    BY <1>2 DEF UserStep, EnsureRituals, Show, ForgetPage, DeleteDocument, SaveBody, ResolveMine,
                ResolveTheirs
  <2>. QED
    BY <1>1, <1>2, <2>1, UserKeeps, PassStays DEF Inv
<1>3. CASE RemoteStep \/ UNCHANGED vars
  <2>1. pass' = pass /\ doc' = doc /\ shown' = shown
    BY <1>3 DEF RemoteStep, RemoteEdit, RemoteDelete, RemoteCreate, vars, pass
  <2>. QED
    BY <1>1, <2>1, PassStays, RowsStay DEF Inv
<1>4. CASE SyncStart \/ RootFails \/ SyncEnds \/ Crash \/ ReadAgreement \/ Documents \/ \E d \in todo : Take(d)
  BY <1>1, <1>4, OrderKeeps, RowsStay DEF Inv, RootFails, SyncEnds, Crash
<1>5. CASE Ensure
  <2>1. /\ WriteTemplates(Docs \ {Agreement}) /\ page' = page /\ shown' = shown
        /\ pc = "next" /\ pc' = "list" /\ UNCHANGED engine /\ cur' = cur /\ ans' = ans
    BY <1>5 DEF Ensure
  <2>2. StoreInv' /\ ReadInv' /\ ScreenInv' /\ (AccountInv => AccountInv')
    BY <2>1, TemplatesKeep DEF engine
  <2>3. AtInv' /\ AnswerInv'
    BY <2>1 DEF AtInv, AnswerInv
  <2>. QED
    BY <1>1, <2>2, <2>3 DEF Inv
<1>6. CASE \/ FindPageByTitle \/ CreatePage \/ GetPageStorage \/ UpdatePage
           \/ UpdateConflict \/ GetPageAgain \/ CallFails
  BY <1>1, <1>6, CallKeeps, RowsStay DEF Inv
<1>7. CASE Apply
  BY <1>1, <1>7, ApplyKeeps DEF Inv
<1>. QED
  BY <1>2, <1>3, <1>4, <1>5, <1>6, <1>7 DEF Next, PassStep

LEMMA InvInit == ASSUME Init PROVE Inv /\ AccountInv
<1>1. TypeOK /\ PassShape
  BY TypeInit
<1>2. /\ \A d \in Docs : doc[d] = None /\ read[d] = None
      /\ pc = "idle" /\ shown = None /\ page = <<>>
  BY DEF Init
<1>3. StoreInv /\ AccountInv /\ ReadInv /\ AtInv /\ AnswerInv /\ ScreenInv
  BY <1>2 DEF StoreInv, AccountInv, ReadInv, AtInv, AnswerInv, ScreenInv
<1>4. SpaceInv
  BY <1>2 DEF SpaceInv
<1>. QED
  BY <1>1, <1>3, <1>4 DEF Inv

-----------------------------------------------------------------------------
\* What they are for.

LEMMA InvAlways == ASSUME "recreate" \notin Env PROVE Spec => []Inv
<1>1. Init => Inv
  BY InvInit
<1>2. Inv /\ [Next]_vars => Inv'
  BY InvStep
<1>. QED
  BY <1>1, <1>2, PTL DEF Spec

\* The base and the conflict a pass decides from were on the page, for any
\* number of documents, unless one is removed under a pass and written again.
THEOREM BaseRests == ASSUME "recreate" \notin Env PROVE Spec => []BaseWasThere
<1>1. Inv => BaseWasThere
  BY DEF Inv, StoreInv, Standing, BaseWasThere, Stands, StandsIn
<1>. QED
  BY <1>1, InvAlways, PTL

\* A document drawn as synced is on its page.
THEOREM SyncedRests == ASSUME "recreate" \notin Env PROVE Spec => []SyncedIsThere
<1>1. Inv => SyncedIsThere
  <2>. SUFFICES ASSUME Inv, NEW d \in Docs, doc[d] # None, doc[d].status = StatusSynced
                PROVE  Stands(doc[d].body, doc[d].page, doc[d].version)
    BY DEF SyncedIsThere
  <2>1. RowOK(doc[d]) /\ Standing(page, doc[d])
    BY DEF Inv, StoreInv
  <2>. QED
    BY <2>1, StatusesDiffer DEF RowOK, Standing, Stands, StandsIn
<1>. QED
  BY <1>1, InvAlways, PTL

\* A pass takes no text of the user's: a save under it is never overwritten.
THEOREM NoTextIsTaken == ASSUME "recreate" \notin Env PROVE Spec => PullTakesNothing
<1>1. Inv /\ [Next]_vars =>
        [\A d \in Docs : PassStep /\ doc[d] # None /\ doc'[d] # None /\ doc'[d].body # doc[d].body =>
          \/ doc[d].body \in {Template, Blank}
          \/ Stands(doc[d].body, doc[d].page, doc[d].version)]_vars
  <2>. SUFFICES ASSUME Inv, NEW d \in Docs, PassStep, doc[d] # None, doc'[d] # None,
                       doc'[d].body # doc[d].body
                PROVE  \/ doc[d].body \in {Template, Blank}
                       \/ Stands(doc[d].body, doc[d].page, doc[d].version)
    OBVIOUS
  <2>1. Ensure \/ Apply
    BY DEF PassStep, ReadAgreement, RootFails, Leave, Documents, Take, FindPageByTitle, CreatePage,
           GetPageStorage, UpdatePage, UpdateConflict, GetPageAgain, CallFails, SyncEnds
  <2>2. CASE Ensure
    BY <2>2 DEF Ensure, WriteTemplates, NeedsTemplate, Inv, TypeOK
  <2>3. CASE Apply
    <3>. DEFINE row == doc[cur]
                was == read[cur]
    <3>1. /\ pc = "apply" /\ cur \in Docs /\ Current(row) /\ doc' = [doc EXCEPT ![cur] = Applied(row)]
          /\ d = cur
      BY <2>3 DEF Apply, Inv, TypeOK
    <3>2. /\ was \in Document /\ was.status # StatusGone /\ RowOK(was) /\ StillThere(was, row)
          /\ row \in Document /\ RowOK(row) /\ Standing(page, row)
      BY <3>1, AtRow
    <3>3. ans.op = "pulled"
      <4>1. Applied(row).body # row.body /\ ans \in Answer
        BY <3>1 DEF Inv, TypeOK
      <4>. QED
        BY <3>2, <4>1 DEF Applied, Document, Answer
    <3>4. was.status # StatusConflict /\ was.body = row.body
          /\ was.body = IF was.page = NoPage THEN Template ELSE was.base
      BY <3>1, <3>3 DEF Inv, AnswerInv, Answers, Current
    <3>5. CASE was.page # NoPage
      <4>1. row.page # NoPage /\ row.status \notin {StatusConflict, StatusGone} /\ row.base = row.body
        BY <3>2, <3>4, <3>5 DEF StillThere
      <4>2. StandsIn(page, row.body, row.page, row.version)
        BY <3>2, <4>1 DEF Standing
      <4>. QED
        BY <3>1, <4>2 DEF Stands, StandsIn
    <3>. QED
      BY <3>1, <3>4, <3>5
  <2>. QED
    BY <2>1, <2>2, <2>3
<1>. QED
  BY <1>1, InvAlways, PTL DEF Spec, PullTakesNothing

\* Nor a text of anybody's in Confluence that the user has not seen, unless a
\* conflict is resolved from a view that a pass has outdated.
THEOREM NothingUnseenIsTaken ==
    ASSUME "recreate" \notin Env, "late" \notin Env PROVE Spec => NothingOverwrittenUnseen
<1>1. Init => Inv /\ AccountInv
  BY InvInit
<1>2. Inv /\ AccountInv /\ [Next]_vars => (Inv /\ AccountInv)'
  BY InvStep
<1>3. Inv /\ AccountInv /\ [Next]_vars =>
        [\A p \in DOMAIN page : (UpdatePage \/ CallFails) /\ page'[p] # page[p] =>
          \/ page[p].versions[Newest(p)].birth = read[cur].birth
          \/ read[cur].took >= Newest(p)]_vars
  <2>. SUFFICES ASSUME Inv, AccountInv, NEW p \in DOMAIN page, UpdatePage \/ CallFails, page'[p] # page[p]
                PROVE  \/ page[p].versions[Newest(p)].birth = read[cur].birth
                       \/ read[cur].took >= Newest(p)
    OBVIOUS
  <2>. DEFINE row == doc[cur]
              was == read[cur]
  <2>1. LandCreate => page'[p] = page[p]
    <3>1. page \in Seq(Page)
      BY DEF Inv, TypeOK
    <3>. QED
      BY <3>1 DEF LandCreate
  <2>2. pc = "push" /\ InStep(was.page) /\ LandUpdate
    BY <2>1 DEF UpdatePage, CallFails
  <2>3. /\ was \in Document /\ StillThere(was, row) /\ cur \in Docs /\ was.status # StatusConflict
    BY <2>2, AtRow DEF Inv, AtInv
  <2>4. p = was.page /\ Newest(p) = was.version
    <3>1. page \in Seq(Page) /\ was.page \in DOMAIN page
      BY <2>2 DEF Inv, TypeOK, InStep, Live
    <3>. QED
      BY <2>2, <3>1 DEF LandUpdate, InStep
  <2>5. Newest(p) \in Nat \ {0} /\ p # NoPage
    BY PageFacts DEF Inv, NoPage
  <2>6. /\ row.page = p /\ row.version = Newest(p) /\ row.birth = was.birth /\ row.took = was.took
        /\ row # None
    BY <2>3, <2>4 DEF StillThere
  <2>7. Accounted(page, row)
    BY <2>3, <2>6 DEF AccountInv
  <2>. QED
    BY <2>5, <2>6, <2>7 DEF Accounted
<1>. QED
  BY <1>1, <1>2, <1>3, PTL DEF Spec, NothingOverwrittenUnseen

\* A save lands only on the text its editor showed, or on a template.
THEOREM SavesReplaceWhatWasShown ==
    ASSUME "recreate" \notin Env PROVE Spec => SaveReplacesWhatWasShown
<1>1. Inv /\ [Next]_vars =>
        [\A t \in Written : SaveBody(t) => doc[shown.key].body \in {shown.body, Template}]_vars
  BY DEF Inv, ScreenInv, Screened, SaveBody, SameRow
<1>. QED
  BY <1>1, InvAlways, PTL DEF Spec, SaveReplacesWhatWasShown

-----------------------------------------------------------------------------
\* The search as a list: an issue's offset in what was found.

LEMMA FoundIsFinite ==
    ASSUME NEW found \in SUBSET Keys
    PROVE  /\ IsFiniteSet(found) /\ Cardinality(found) \in Nat
           /\ Cardinality(found) <= Cardinality(Keys) /\ Cardinality(Keys) \in Nat
BY SyncPagingAssumption, FS_Subset, FS_CardinalityType

\* An offset is below the total.
LEMMA OffsetBelow ==
    ASSUME NEW found \in SUBSET Keys, NEW k \in found
    PROVE  Offset(found, k) \in 0..(Cardinality(found) - 1)
<1>. DEFINE before == {j \in found : j < k}
<1>1. IsFiniteSet(found) /\ Cardinality(found) \in Nat
  BY FoundIsFinite
<1>2. before \in SUBSET found /\ k \notin before
  BY SyncPagingAssumption
<1>3. IsFiniteSet(before) /\ Cardinality(before) <= Cardinality(found) /\ Cardinality(before) # Cardinality(found)
  BY <1>1, <1>2, FS_Subset
<1>4. Cardinality(before) \in Nat
  BY <1>3, FS_CardinalityType
<1>. HIDE DEF before
<1>5. Cardinality(before) \in 0..(Cardinality(found) - 1)
  BY <1>1, <1>3, <1>4
<1>. QED
  BY <1>5 DEF Offset, before

\* A later key has a larger offset.
LEMMA OffsetRises ==
    ASSUME NEW found \in SUBSET Keys, NEW j \in found, NEW k \in found, j < k
    PROVE  /\ {i \in found : i < j} \subseteq {i \in found : i < k}
           /\ {i \in found : i < j} # {i \in found : i < k}
           /\ Offset(found, j) < Offset(found, k)
<1>. DEFINE low == {i \in found : i < j}  high == {i \in found : i < k}
<1>1. j \in Int /\ k \in Int /\ \A i \in found : i \in Int
  BY SyncPagingAssumption
<1>2. low \in SUBSET high /\ low # high
  <2>1. j \in high /\ j \notin low
    BY <1>1
  <2>2. \A i \in low : i \in high
    BY <1>1
  <2>. QED
    BY <2>1, <2>2
<1>3. IsFiniteSet(high)
  BY FoundIsFinite, FS_Subset
<1>4. Cardinality(low) <= Cardinality(high) /\ Cardinality(low) # Cardinality(high) /\ IsFiniteSet(low)
  BY <1>2, <1>3, FS_Subset
<1>5. Cardinality(low) \in Nat /\ Cardinality(high) \in Nat
  BY <1>3, <1>4, FS_CardinalityType
<1>6. Cardinality(low) < Cardinality(high)
  <2>. HIDE DEF low, high
  <2>. QED BY <1>4, <1>5
<1>. QED
  BY <1>2, <1>6 DEF Offset

\* An issue that joins the result pushes the others back, never forward.
LEMMA OffsetGrows ==
    ASSUME NEW more \in SUBSET Keys, NEW found \in SUBSET more, NEW k
    PROVE  Offset(found, k) <= Offset(more, k)
<1>1. IsFiniteSet({j \in more : j < k})
  BY FoundIsFinite, FS_Subset
<1>2. {j \in found : j < k} \in SUBSET {j \in more : j < k}
  OBVIOUS
<1>. QED
  BY <1>1, <1>2, FS_Subset DEF Offset

\* As many issues as have their offsets in an interval fit into it.
LEMMA OffsetsFit ==
    ASSUME NEW found \in SUBSET Keys, NEW S \in SUBSET found, NEW a \in Int, NEW b \in Int,
           \A k \in S : Offset(found, k) \in a..b
    PROVE  Cardinality(S) <= IF a > b THEN 0 ELSE b - a + 1
<1>. DEFINE f == [k \in S |-> Offset(found, k)]
<1>1. f \in [S -> a..b]
  OBVIOUS
<1>2. ASSUME NEW j \in S, NEW k \in S, j # k PROVE f[j] # f[k]
  <2>1. j \in Int /\ k \in Int
    BY SyncPagingAssumption
  <2>2. j < k \/ k < j
    BY <1>2, <2>1
  <2>3. f[j] \in Int /\ f[k] \in Int /\ f[j] = Offset(found, j) /\ f[k] = Offset(found, k)
    BY <1>1
  <2>4. f[j] < f[k] \/ f[k] < f[j]
    BY <2>2, <2>3, OffsetRises
  <2>. QED
    BY <2>3, <2>4
<1>3. f \in Injection(S, a..b)
  <2>. HIDE DEF f
  <2>. QED BY <1>1, <1>2 DEF Injection, IsInjective
<1>4. IsFiniteSet(a..b) /\ Cardinality(a..b) = IF a > b THEN 0 ELSE b - a + 1
  BY FS_Interval
<1>5. Cardinality(S) <= Cardinality(a..b)
  <2>. HIDE DEF f
  <2>. QED BY <1>3, <1>4, FS_Injection
<1>. QED
  BY <1>4, <1>5

\* A page: how many it has at most, and that it has one while any are left.
LEMMA PageOf ==
    ASSUME NEW found \in SUBSET Keys, NEW at \in Nat, NEW taken,
           taken = {k \in found : Offset(found, k) \in at..(at + PageSize - 1)}
    PROVE  /\ Cardinality(taken) \in Nat /\ Cardinality(taken) <= PageSize
           /\ at <= Cardinality(Keys) => at + Cardinality(taken) <= Cardinality(Keys)
           /\ (\E k \in found : Offset(found, k) >= at) => taken # {}
<1>1. taken \in SUBSET found /\ PageSize \in Nat \ {0}
  BY SyncPagingAssumption
<1>2. Cardinality(taken) \in Nat /\ Cardinality(found) \in Nat
      /\ Cardinality(found) <= Cardinality(Keys) /\ Cardinality(Keys) \in Nat
  BY <1>1, FoundIsFinite
<1>3. Cardinality(taken) <= PageSize
  <2>1. \A k \in taken : Offset(found, k) \in at..(at + PageSize - 1)
    OBVIOUS
  <2>2. at \in Int /\ at + PageSize - 1 \in Int
    BY <1>1
  <2>3. Cardinality(taken) <= IF at > at + PageSize - 1 THEN 0 ELSE at + PageSize - 1 - at + 1
    BY ONLY <1>1, <2>1, <2>2, OffsetsFit, found \in SUBSET Keys
  <2>. QED
    BY <1>1, <1>2, <2>3
<1>4. ASSUME at <= Cardinality(Keys) PROVE at + Cardinality(taken) <= Cardinality(Keys)
  <2>1. \A k \in taken : Offset(found, k) \in at..(Cardinality(found) - 1)
    BY <1>1, <1>2, OffsetBelow
  <2>2. Cardinality(taken) <= IF at > Cardinality(found) - 1 THEN 0 ELSE Cardinality(found) - 1 - at + 1
    <3>1. at \in Int /\ Cardinality(found) - 1 \in Int
      BY <1>2
    <3>. QED
      BY ONLY <1>1, <2>1, <3>1, OffsetsFit, found \in SUBSET Keys
  <2>. QED
    BY <1>2, <1>4, <2>2
<1>5. ASSUME NEW k \in found, Offset(found, k) >= at PROVE taken # {}
  <2>. DEFINE before(j) == {i \in found : i < j}
              late == {before(j) : j \in {i \in found : Offset(found, i) >= at}}
  <2>1. late # {} /\ late \subseteq SUBSET found
    BY <1>5
  <2>2. IsWellFoundedOn(StrictSubsetOrdering(found), FiniteSubsetsOf(found))
    BY FS_StrictSubsetOrderingWellFounded
  <2>3. FiniteSubsetsOf(found) = SUBSET found
    BY FoundIsFinite, FS_FiniteSubsetsOfFinite
  <2>4. PICK B \in late : \A C \in late : <<C, B>> \notin StrictSubsetOrdering(found)
    <3>. HIDE DEF late
    <3>. QED BY <2>1, <2>2, <2>3, WFMin
  <2>5. PICK m \in found : Offset(found, m) >= at /\ B = before(m)
    OBVIOUS
  <2>6. ASSUME NEW j \in found, j < m PROVE Offset(found, j) < at
    <3>1. Offset(found, j) \in Int
      BY OffsetBelow, FoundIsFinite
    <3>2. SUFFICES ASSUME Offset(found, j) >= at PROVE FALSE
      BY <3>1
    <3>3. before(j) \in late
      BY <3>2
    <3>4. before(j) \subseteq before(m) /\ before(j) # before(m)
      BY <2>6, OffsetRises
    <3>5. <<before(j), before(m)>> \in StrictSubsetOrdering(found)
      BY <3>4 DEF StrictSubsetOrdering
    <3>. QED
      BY <2>4, <2>5, <3>3, <3>5
  <2>7. Offset(found, m) <= at
    <3>1. \A j \in before(m) : Offset(found, j) \in 0..(at - 1)
      BY <2>6, OffsetBelow, FoundIsFinite
    <3>2. before(m) \in SUBSET found
      OBVIOUS
    <3>3. Cardinality(before(m)) <= IF 0 > at - 1 THEN 0 ELSE at - 1 - 0 + 1
      <4>1. 0 \in Int /\ at - 1 \in Int
        OBVIOUS
      <4>. HIDE DEF before
      <4>. QED BY ONLY <3>1, <3>2, <4>1, OffsetsFit, found \in SUBSET Keys
    <3>. QED
      BY <3>3 DEF Offset
  <2>8. Offset(found, m) = at
    BY <2>5, <2>7, OffsetBelow, FoundIsFinite
  <2>. QED
    BY <1>1, <2>8
<1>. QED
  BY <1>2, <1>3, <1>4, <1>5

-----------------------------------------------------------------------------
\* The types.

\* A sync under way knows its type, and a page does not reach past the issues.
Shape ==
    /\ PagingTypeOK
    /\ syncPc # "idle" => sync.type \in Types
    /\ syncPc = "land" => sync.startAt + Cardinality(DOMAIN results) <= Cardinality(Keys)

LEMMA Numbers ==
    /\ Cardinality(Keys) \in Nat /\ PageSize \in Nat \ {0} /\ Backdate \in Nat
    /\ Skew \in Nat /\ Skew <= Backdate
BY SyncPagingAssumption, FS_CardinalityType

LEMMA NoPageIsAPage ==
    \E K \in SUBSET Keys : NoResults \in [K -> Row] /\ Cardinality(K) <= PageSize
<1>1. NoResults \in [{} -> Row] /\ Cardinality({}) = 0
  BY FS_EmptySet DEF NoResults
<1>. QED
  BY <1>1, Numbers

LEMMA IdleIsTyped ==
    Idle \in [full: BOOLEAN, start: Nat, since: Nat, type: Types \cup {NoRow},
              pages: Nat, startAt: 0..Cardinality(Keys),
              total: -1..Cardinality(Keys), from: 0..0, read: Nat]
BY Numbers DEF Idle

LEMMA ShapeAtFirst == PagingInit => Shape
<1>. SUFFICES ASSUME PagingInit PROVE Shape
  OBVIOUS
<1>1. jira \in [Keys -> [in: BOOLEAN, updated: 1..now]]
  BY DEF PagingInit
<1>2. sync \in [full: BOOLEAN, start: Nat, since: Nat, type: Types \cup {NoRow},
                pages: Nat, startAt: 0..Cardinality(Keys),
                total: -1..Cardinality(Keys), from: 0..now, read: Nat]
  BY IdleIsTyped DEF PagingInit
<1>. QED
  BY <1>1, <1>2, NoPageIsAPage DEF PagingInit, Shape, PagingTypeOK

LEMMA SearchKeepsShape == ASSUME Shape, SearchIssuesPage PROVE Shape'
<1>. DEFINE found == Matching(sync.since)
            taken == {k \in found : Offset(found, k) \in sync.startAt..(sync.startAt + PageSize - 1)}
<1>1. found \in SUBSET Keys
  BY DEF Matching
<1>2. results' = [k \in taken |-> [updated |-> jira[k].updated, type |-> sync.type]]
      /\ sync' = [sync EXCEPT !.total = Cardinality(found)] /\ syncPc' = "land" /\ syncPc = "search"
      /\ UNCHANGED <<remote, reqType, cache, state>>
  BY DEF SearchIssuesPage
<1>3. sync.startAt \in Nat /\ sync.startAt <= Cardinality(Keys)
  BY Numbers DEF Shape, PagingTypeOK
<1>4. Cardinality(taken) <= PageSize /\ sync.startAt + Cardinality(taken) <= Cardinality(Keys)
  <2>. HIDE DEF found
  <2>. QED BY <1>1, <1>3, PageOf
<1>5. Cardinality(found) \in 0..Cardinality(Keys)
  BY <1>1, FoundIsFinite
<1>. HIDE DEF found
<1>6. results' \in [taken -> Row] /\ taken \in SUBSET Keys
  <2>1. taken \in SUBSET Keys
    BY <1>1
  <2>2. \A k \in taken : [updated |-> jira[k].updated, type |-> sync.type] \in Row
    BY <2>1, <1>2 DEF Shape, PagingTypeOK, Row
  <2>. QED
    BY <1>2, <2>1, <2>2
<1>. HIDE DEF taken
<1>7. /\ sync' \in [full: BOOLEAN, start: Nat, since: Nat, type: Types \cup {NoRow},
                    pages: Nat, startAt: 0..Cardinality(Keys),
                    total: -1..Cardinality(Keys), from: 0..now, read: Nat]
      /\ sync'.startAt = sync.startAt /\ sync'.type = sync.type
  BY <1>2, <1>5 DEF Shape, PagingTypeOK
<1>8. DOMAIN results' = taken
  BY <1>6
<1>. QED
  BY <1>2, <1>4, <1>6, <1>7, <1>8 DEF Shape, PagingTypeOK, remote, state

LEMMA LandKeepsShape == ASSUME Shape, UpsertPage PROVE Shape'
<1>1. PICK K \in SUBSET Keys : results \in [K -> Row] /\ Cardinality(K) <= PageSize
  BY DEF Shape, PagingTypeOK
<1>2. DOMAIN results = K /\ \A k \in K : results[k] \in Row
  BY <1>1
<1>3. cache' \in [Keys -> Row \cup {NoRow}]
  BY <1>1, <1>2 DEF UpsertPage, Shape, PagingTypeOK
<1>4. Cardinality(K) \in Nat /\ sync.startAt + Cardinality(K) <= Cardinality(Keys) /\ sync.startAt \in Nat
  BY <1>2, FoundIsFinite, Numbers DEF Shape, PagingTypeOK, UpsertPage
<1>5. /\ sync' \in [full: BOOLEAN, start: Nat, since: Nat, type: Types \cup {NoRow},
                    pages: Nat, startAt: 0..Cardinality(Keys),
                    total: -1..Cardinality(Keys), from: 0..now, read: Nat]
      /\ sync'.type = sync.type
  <2>1. sync' = [sync EXCEPT !.pages = sync.pages + 1, !.startAt = sync.startAt + Cardinality(K)]
    BY <1>2 DEF UpsertPage, Advanced
  <2>2. sync.startAt + Cardinality(K) \in 0..Cardinality(Keys) /\ sync.pages + 1 \in Nat
    BY <1>4, Numbers DEF Shape, PagingTypeOK
  <2>. QED
    BY <2>1, <2>2 DEF Shape, PagingTypeOK
<1>6. syncPc = "land" /\ syncPc' \in {"finish", "search"} /\ results' = NoResults /\ UNCHANGED <<remote, reqType, state>>
  BY DEF UpsertPage
<1>. QED
  BY <1>3, <1>5, <1>6, NoPageIsAPage DEF Shape, PagingTypeOK, remote, state

LEMMA ShapeKept == ASSUME Shape, [PagingNext]_pagingVars PROVE Shape'
<1>1. CASE \E k \in Keys, in \in BOOLEAN : RemoteChange(k, in)
  <2>1. PICK k \in Keys, in \in BOOLEAN : RemoteChange(k, in)
    BY <1>1
  <2>2. now' = now + 1 /\ jira' = [jira EXCEPT ![k] = [in |-> in, updated |-> now + 1]]
        /\ UNCHANGED <<reqType, cache, state, syncPc, sync, results>>
    BY <2>1 DEF RemoteChange
  <2>3. now \in Nat /\ jira \in [Keys -> [in: BOOLEAN, updated: 1..now]]
    BY DEF Shape, PagingTypeOK
  <2>4. now' \in Nat /\ 1..now \subseteq 1..now' /\ 0..now \subseteq 0..now' /\ now + 1 \in 1..now'
    BY <2>2, <2>3
  <2>5. jira' \in [Keys -> [in: BOOLEAN, updated: 1..now']]
    BY <2>2, <2>3, <2>4
  <2>6. sync' \in [full: BOOLEAN, start: Nat, since: Nat, type: Types \cup {NoRow},
                   pages: Nat, startAt: 0..Cardinality(Keys),
                   total: -1..Cardinality(Keys), from: 0..now', read: Nat]
    BY <2>2, <2>4 DEF Shape, PagingTypeOK
  <2>7. asOf' \in [sync: 0..now', full: 0..now']
    BY <2>2, <2>4 DEF Shape, PagingTypeOK, state
  <2>. QED
    BY <2>2, <2>4, <2>5, <2>6, <2>7 DEF Shape, PagingTypeOK, state
<1>2. CASE \E type \in Types : SetProfileSetting(type)
  BY <1>2 DEF SetProfileSetting, Shape, PagingTypeOK, remote
<1>3. CASE \E full \in BOOLEAN, skew \in 0..Skew : StartSync(full, skew)
  <2>1. PICK full \in BOOLEAN, skew \in 0..Skew : StartSync(full, skew)
    BY <1>3
  <2>2. /\ sync' = [Idle EXCEPT !.full = full, !.start = now + skew, !.type = reqType,
                            !.since = IF full THEN 0 ELSE lastSynced, !.from = now, !.read = lastSynced]
        /\ syncPc' = "search" /\ UNCHANGED <<remote, reqType, cache, state, results>>
    BY <2>1 DEF StartSync
  <2>3. /\ sync' \in [full: BOOLEAN, start: Nat, since: Nat, type: Types \cup {NoRow},
                      pages: Nat, startAt: 0..Cardinality(Keys),
                      total: -1..Cardinality(Keys), from: 0..now, read: Nat]
        /\ sync'.type \in Types
    <3>1. sync' = [full |-> full, start |-> now + skew,
                   since |-> IF full THEN 0 ELSE lastSynced, type |-> reqType,
                   pages |-> 0, startAt |-> 0, total |-> -1, from |-> now, read |-> lastSynced]
      BY <2>2 DEF Idle
    <3>2. now + skew \in Nat /\ (IF full THEN 0 ELSE lastSynced) \in Nat /\ lastSynced \in Nat /\ now \in 0..now
          /\ 0 \in 0..Cardinality(Keys) /\ -1 \in -1..Cardinality(Keys) /\ reqType \in Types
      BY Numbers DEF Shape, PagingTypeOK
    <3>. QED
      BY <3>1, <3>2
  <2>. QED
    BY <2>2, <2>3 DEF Shape, PagingTypeOK, remote, state
<1>4. CASE SearchIssuesPage
  BY <1>4, SearchKeepsShape
<1>5. CASE UpsertPage
  BY <1>5, LandKeepsShape
<1>6. sync' = Idle => sync' \in [full: BOOLEAN, start: Nat, since: Nat, type: Types \cup {NoRow},
                                 pages: Nat, startAt: 0..Cardinality(Keys),
                                 total: -1..Cardinality(Keys), from: 0..now, read: Nat]
  <2>1. Idle \in [full: BOOLEAN, start: Nat, since: Nat, type: Types \cup {NoRow},
                  pages: Nat, startAt: 0..Cardinality(Keys),
                  total: -1..Cardinality(Keys), from: 0..0, read: Nat]
        /\ 0..0 \subseteq 0..now
    BY IdleIsTyped DEF Shape, PagingTypeOK
  <2>. QED
    BY <2>1
<1>7. CASE SetSyncState
  <2>1. asOf' \in [sync: 0..now, full: 0..now] /\ lastSynced' \in Nat /\ lastFull' \in Nat
    BY <1>7 DEF SetSyncState, Shape, PagingTypeOK
  <2>. QED
    BY <1>6, <1>7, <2>1 DEF SetSyncState, Shape, PagingTypeOK, remote
<1>8. CASE SyncFails
  <2>1. sync.read \in Nat /\ lastSynced \in Nat
    BY DEF Shape, PagingTypeOK
  <2>2. lastSynced' \in Nat
    BY <1>8, <2>1 DEF SyncFails
  <2>. QED
    BY <1>6, <1>8, <2>2, NoPageIsAPage DEF SyncFails, Shape, PagingTypeOK, remote
<1>9. CASE UNCHANGED pagingVars
  BY <1>9 DEF pagingVars, Shape, PagingTypeOK
<1>. QED
  BY <1>1, <1>2, <1>3, <1>4, <1>5, <1>7, <1>8, <1>9 DEF PagingNext, SyncStep

\* Every state has the types the model gives it: a page is at most as large as
\* was asked for, and the offset never passes the issues there can be.
THEOREM PagingTypeCorrect == PagingSpec => []PagingTypeOK
<1>1. Shape => PagingTypeOK
  BY DEF Shape
<1>. QED
  BY <1>1, ShapeAtFirst, ShapeKept, PTL DEF PagingSpec

-----------------------------------------------------------------------------
\* What the cache is worth while a sync is under way.

\* An issue that has not changed since the sync began, and one the cache has
\* as it is and the page about to land will not clear.
Unchanged(k) == jira[k].in /\ jira[k].updated <= sync.from
Cached(k)    == cache[k] = [updated |-> jira[k].updated, type |-> reqType]
PagingDone(k)      == Cached(k) /\ ~Clears

\* An issue the pages from this offset on will have.
ToCome(k, at) == k \in Matching(sync.since) /\ Offset(Matching(sync.since), k) >= at

\* The sync knows its type, and its clock is not too far ahead.
Clocks ==
    /\ asOf.sync <= now /\ lastSynced <= asOf.sync + Skew
    /\ syncPc # "idle" =>
          /\ sync.type = reqType
          /\ asOf.sync <= sync.from /\ sync.start <= sync.from + Skew
          /\ sync.since = IF sync.full THEN 0 ELSE lastSynced
          /\ sync.read = lastSynced
          /\ sync.pages = 0 => sync.startAt = 0 /\ syncPc # "finish"

\* A page about to land has what Jira has, but of issues that changed since.
Fresh ==
    syncPc = "land" => \A k \in DOMAIN results :
        /\ jira[k].in /\ results[k].type = sync.type
        /\ Unchanged(k) => results[k].updated = jira[k].updated

\* Every unchanged issue is done, on the page, or still to come; and the loop
\* goes on while there is one to come.
Taking ==
    /\ syncPc = "search" => \A k \in Keys : Unchanged(k) => PagingDone(k) \/ ToCome(k, sync.startAt)
    /\ syncPc = "land" => \A k \in Keys : Unchanged(k) =>
          \/ PagingDone(k)
          \/ k \in DOMAIN results
          \/ /\ ToCome(k, sync.startAt + Cardinality(DOMAIN results))
             /\ DOMAIN results # {} /\ sync.startAt + Cardinality(DOMAIN results) < sync.total
    /\ syncPc = "finish" => \A k \in Keys : Unchanged(k) => Cached(k)

\* A full sync that has cleared the cache.
Clearing == syncPc # "idle" /\ sync.full /\ sync.pages > 0

\* What it has put there since is in the scope; before it clears, the cache
\* is what the watermark says.
ClearedIsIn == Clearing => \A k \in Keys : cache[k] # NoRow => jira[k].in
Kept        == ~Clearing => NothingMissed

PagingCurrent == Shape /\ Clocks /\ Fresh /\ Taking /\ ClearedIsIn /\ Kept /\ NothingLeftOver

\* No issue leaves under a sync, no full one fails half way, no setting
\* changes under one.
Calm == "leave" \notin PagingEnv /\ "partial" \notin PagingEnv /\ "overlap" \notin PagingEnv

LEMMA Typed ==
    ASSUME Shape
    PROVE  /\ now \in Nat /\ lastSynced \in Nat /\ asOf.sync \in Nat /\ asOf.full \in Nat
           /\ sync.since \in Nat /\ sync.from \in Nat /\ sync.startAt \in Nat /\ sync.start \in Nat
           /\ sync.from <= now /\ asOf.full <= now /\ sync.pages \in Nat /\ sync.full \in BOOLEAN
           /\ \A k \in Keys : jira[k].updated \in Nat /\ jira[k].updated <= now /\ jira[k].in \in BOOLEAN
           /\ DOMAIN results \subseteq Keys /\ \A k \in DOMAIN results : results[k] \in Row
           /\ Cardinality(DOMAIN results) \in Nat
<1>1. PICK K \in SUBSET Keys : results \in [K -> Row]
  BY DEF Shape, PagingTypeOK
<1>2. DOMAIN results \subseteq Keys /\ \A k \in DOMAIN results : results[k] \in Row
  BY <1>1
<1>3. Cardinality(DOMAIN results) \in Nat
  BY <1>2, FoundIsFinite
<1>. QED
  BY <1>2, <1>3 DEF Shape, PagingTypeOK

\* What is seen of one issue depends on the issue alone, and its offset on
\* what joins the result.
LEMMA ToComeStays ==
    ASSUME NEW k \in Keys, NEW at \in Nat, ToCome(k, at),
           Matching(sync.since) \subseteq Matching(sync.since)'
    PROVE  ToCome(k, at)'
<1>. DEFINE found == Matching(sync.since)  more == Matching(sync.since)'
<1>1. found \in SUBSET more /\ more \in SUBSET Keys
  BY DEF Matching
<1>. HIDE DEF more
<1>3. k \in more /\ Offset(found, k) >= at /\ Offset(found, k) <= Offset(more, k)
  <2>1. k \in found /\ Offset(found, k) >= at
    BY DEF ToCome
  <2>. HIDE DEF found
  <2>. QED
    BY <1>1, <2>1, OffsetGrows
<1>4. Offset(found, k) \in Int /\ Offset(more, k) \in Int
  <2>1. found \in SUBSET Keys /\ k \in found
    BY <1>1 DEF ToCome
  <2>. HIDE DEF found
  <2>. QED
    BY <1>1, <1>3, <2>1, OffsetBelow, FoundIsFinite
<1>5. Offset(more, k) >= at
  <2>. HIDE DEF found
  <2>. QED BY <1>3, <1>4
<1>. QED
  BY <1>3, <1>5 DEF ToCome, more

LEMMA CurrentAtFirst == PagingInit => PagingCurrent
<1>. SUFFICES ASSUME PagingInit PROVE PagingCurrent
  OBVIOUS
<1>1. Shape
  BY ShapeAtFirst
<1>2. asOf.sync = 0 /\ lastSynced = 0 /\ now = 1 /\ syncPc = "idle" /\ lastFull = 0
  BY DEF PagingInit
<1>. QED
  BY <1>1, <1>2, Numbers DEF PagingCurrent, Clocks, Fresh, Taking, ClearedIsIn, Clearing, Kept, NothingMissed,
                            NothingLeftOver

LEMMA RemoteKeepsCurrent ==
    ASSUME PagingCurrent, Calm, NEW i \in Keys, NEW in \in BOOLEAN, RemoteChange(i, in)
    PROVE  PagingCurrent'
<1>0. Shape /\ Shape' /\ Clocks /\ Fresh /\ Taking /\ ClearedIsIn /\ Kept /\ NothingLeftOver
  BY ShapeKept DEF PagingCurrent, PagingNext
<1>1. /\ now' = now + 1 /\ jira' = [jira EXCEPT ![i] = [in |-> in, updated |-> now + 1]]
      /\ reqType' = reqType /\ cache' = cache /\ syncPc' = syncPc /\ sync' = sync /\ results' = results
      /\ lastSynced' = lastSynced /\ lastFull' = lastFull /\ asOf' = asOf
      /\ jira[i].in /\ ~in => syncPc = "idle"
      /\ jira[i].in \/ in
  BY DEF RemoteChange, Calm, state
<1>2. /\ jira'[i].in = in /\ jira'[i].updated = now + 1
      /\ \A k \in Keys \ {i} : jira'[k] = jira[k]
  BY <1>0, <1>1 DEF Shape, PagingTypeOK
<1>3. Clocks'
  BY <1>0, <1>1, Typed DEF Clocks
<1>4. \A k \in Keys : Unchanged(k)' => k # i /\ Unchanged(k)
  BY <1>0, <1>1, <1>2, Typed DEF Unchanged
<1>5. \A k \in Keys \ {i} : (PagingDone(k) => PagingDone(k)') /\ (Cached(k) => Cached(k)')
  BY <1>1, <1>2 DEF PagingDone, Cached, Clears
<1>6. syncPc # "idle" => in
  BY <1>1
<1>7. syncPc # "idle" => Matching(sync.since) \subseteq Matching(sync.since)'
  <2>. SUFFICES ASSUME syncPc # "idle", NEW k \in Matching(sync.since) PROVE k \in Matching(sync.since)'
    OBVIOUS
  <2>1. k \in Keys /\ jira[k].in /\ sinceClause(sync.since, jira[k].updated)
    BY DEF Matching
  <2>2. CASE k # i
    BY <1>1, <1>2, <2>1, <2>2 DEF Matching
  <2>3. CASE k = i
    <3>1. sync.since <= now + Skew
      BY <1>0, Typed, Numbers DEF Clocks
    <3>2. sinceClause(sync.since, now + 1)
      BY <1>0, <3>1, Typed, Numbers DEF sinceClause
    <3>. QED
      BY <1>1, <1>2, <1>6, <2>1, <2>3, <3>2 DEF Matching
  <2>. QED
    BY <2>2, <2>3
<1>8. \A k \in Keys, at \in Nat : syncPc # "idle" /\ ToCome(k, at) => ToCome(k, at)'
  BY <1>0, <1>1, <1>7, ToComeStays
<1>9. Fresh'
  BY <1>0, <1>1, <1>2, <1>4, <1>6, Typed DEF Fresh
<1>10. Taking'
  <2>1. ASSUME syncPc' = "search", NEW k \in Keys, Unchanged(k)' PROVE PagingDone(k)' \/ ToCome(k, sync.startAt)'
    BY <1>0, <1>1, <1>4, <1>5, <1>8, <2>1, Typed DEF Taking
  <2>2. ASSUME syncPc' = "land", NEW k \in Keys, Unchanged(k)'
        PROVE  \/ PagingDone(k)'
               \/ k \in DOMAIN results'
               \/ /\ ToCome(k, sync.startAt + Cardinality(DOMAIN results))'
                  /\ (DOMAIN results # {} /\ sync.startAt + Cardinality(DOMAIN results) < sync.total)'
    <3>1. sync.startAt + Cardinality(DOMAIN results) \in Nat
      BY <1>0, Typed
    <3>2. ToCome(k, sync.startAt + Cardinality(DOMAIN results)) => ToCome(k, sync.startAt + Cardinality(DOMAIN results))'
      BY <1>1, <1>8, <2>2, <3>1
    <3>. QED
      BY <1>0, <1>1, <1>4, <1>5, <2>2, <3>2 DEF Taking
  <2>3. ASSUME syncPc' = "finish", NEW k \in Keys, Unchanged(k)' PROVE Cached(k)'
    BY <1>0, <1>1, <1>4, <1>5, <2>3 DEF Taking
  <2>. QED
    BY <2>1, <2>2, <2>3 DEF Taking
<1>11. ClearedIsIn'
  BY <1>0, <1>1, <1>2, <1>6 DEF ClearedIsIn, Clearing
<1>12. Kept'
  BY <1>0, <1>1, <1>2, Typed DEF Kept, Clearing, NothingMissed, Clocks
<1>13. NothingLeftOver'
  BY <1>0, <1>1, <1>2, Typed DEF NothingLeftOver
<1>. QED
  BY <1>0, <1>3, <1>9, <1>10, <1>11, <1>12, <1>13 DEF PagingCurrent

LEMMA StartKeepsCurrent ==
    ASSUME PagingCurrent, NEW full \in BOOLEAN, NEW skew \in 0..Skew, StartSync(full, skew)
    PROVE  PagingCurrent'
<1>0. Shape /\ Shape' /\ Clocks /\ Kept /\ NothingLeftOver
  BY ShapeKept DEF PagingCurrent, PagingNext
<1>1. /\ sync' = [full |-> full, start |-> now + skew,
                  since |-> IF full THEN 0 ELSE lastSynced, type |-> reqType,
                  pages |-> 0, startAt |-> 0, total |-> -1, from |-> now, read |-> lastSynced]
      /\ syncPc = "idle" /\ syncPc' = "search"
      /\ now' = now /\ jira' = jira /\ reqType' = reqType /\ cache' = cache
      /\ lastSynced' = lastSynced /\ lastFull' = lastFull /\ asOf' = asOf
  BY DEF StartSync, Idle, remote, state
<1>2. Clocks'
  BY <1>0, <1>1, Typed, Numbers DEF Clocks
<1>3. NothingMissed
  BY <1>0, <1>1 DEF Kept, Clearing
<1>4. ASSUME NEW k \in Keys, Unchanged(k)' PROVE PagingDone(k)' \/ ToCome(k, sync.startAt)'
  <2>1. jira[k].in /\ sync'.since \in Nat /\ sync'.startAt = 0
    BY <1>0, <1>1, <1>4, Typed DEF Unchanged
  <2>2. CASE sinceClause(sync'.since, jira[k].updated)
    <3>1. k \in Matching(sync.since)'
      BY <1>1, <2>1, <2>2 DEF Matching
    <3>2. Matching(sync.since)' \in SUBSET Keys
      BY DEF Matching
    <3>3. Offset(Matching(sync.since)', k) >= 0
      <4>. DEFINE found == Matching(sync.since)'
      <4>. HIDE DEF found
      <4>. SUFFICES Offset(found, k) >= 0
        BY DEF found
      <4>1. found \in SUBSET Keys /\ k \in found
        BY <3>1, <3>2 DEF found
      <4>. QED
        BY <4>1, OffsetBelow, FoundIsFinite
    <3>. QED
      BY <2>1, <3>1, <3>3 DEF ToCome
  <2>3. CASE ~sinceClause(sync'.since, jira[k].updated)
    <3>1. ~full /\ lastSynced # 0 /\ ~(jira[k].updated >= lastSynced - Backdate)
      BY <1>1, <2>3 DEF sinceClause
    <3>2. jira[k].updated <= asOf.sync
      BY <1>0, <3>1, Typed, Numbers DEF Clocks
    <3>3. Cached(k)
      BY <1>3, <2>1, <3>1, <3>2 DEF NothingMissed, Cached
    <3>. QED
      BY <1>1, <3>1, <3>3 DEF PagingDone, Cached, Clears
  <2>. QED
    BY <2>2, <2>3
<1>5. Fresh' /\ Taking'
  BY <1>1, <1>4 DEF Fresh, Taking
<1>6. ClearedIsIn' /\ Kept' /\ NothingLeftOver'
  BY <1>0, <1>1, <1>3 DEF ClearedIsIn, Clearing, Kept, NothingMissed, NothingLeftOver
<1>. QED
  BY <1>0, <1>2, <1>5, <1>6 DEF PagingCurrent

LEMMA SearchKeepsCurrent == ASSUME PagingCurrent, SearchIssuesPage PROVE PagingCurrent'
<1>0. Shape /\ Shape' /\ Clocks /\ Taking /\ ClearedIsIn /\ Kept /\ NothingLeftOver
  BY SearchKeepsShape DEF PagingCurrent
<1>. DEFINE found == Matching(sync.since)
            taken == {k \in found : Offset(found, k) \in sync.startAt..(sync.startAt + PageSize - 1)}
<1>1. /\ results' = [k \in taken |-> [updated |-> jira[k].updated, type |-> sync.type]]
      /\ sync' = [sync EXCEPT !.total = Cardinality(found)]
      /\ syncPc = "search" /\ syncPc' = "land"
      /\ now' = now /\ jira' = jira /\ reqType' = reqType /\ cache' = cache
      /\ lastSynced' = lastSynced /\ lastFull' = lastFull /\ asOf' = asOf
  BY DEF SearchIssuesPage, remote, state
<1>2. /\ sync'.since = sync.since /\ sync'.from = sync.from /\ sync'.full = sync.full
      /\ sync'.pages = sync.pages /\ sync'.startAt = sync.startAt /\ sync'.type = sync.type
      /\ sync'.start = sync.start /\ sync'.total = Cardinality(found) /\ sync'.read = sync.read
  BY <1>0, <1>1 DEF Shape, PagingTypeOK
<1>3. DOMAIN results' = taken
  BY <1>1
<1>4. found \in SUBSET Keys /\ (\A k \in found : jira[k].in) /\ found = Matching(sync.since)'
  BY <1>1, <1>2 DEF Matching
<1>5. Clocks'
  BY <1>0, <1>1, <1>2 DEF Clocks
<1>6. Fresh'
  <2>1. \A k \in taken : /\ results'[k].updated = jira[k].updated /\ results'[k].type = sync.type /\ k \in found
    BY <1>1
  <2>. QED
    BY <1>1, <1>2, <1>3, <1>4, <2>1 DEF Fresh
<1>7. ASSUME NEW k \in Keys, Unchanged(k)', ~PagingDone(k)', k \notin DOMAIN results'
      PROVE  /\ ToCome(k, sync.startAt + Cardinality(DOMAIN results))'
             /\ (DOMAIN results # {} /\ sync.startAt + Cardinality(DOMAIN results) < sync.total)'
  <2>1. Unchanged(k) /\ ~PagingDone(k)
    BY <1>1, <1>2, <1>7 DEF Unchanged, PagingDone, Cached, Clears
  <2>2. ToCome(k, sync.startAt)
    BY <1>0, <1>1, <2>1 DEF Taking
  <2>3. k \in found /\ Offset(found, k) >= sync.startAt /\ k \notin taken
    BY <1>3, <1>7, <2>2 DEF ToCome
  <2>4. Offset(found, k) \in 0..(Cardinality(found) - 1) /\ Cardinality(found) \in Nat
    <3>. HIDE DEF found
    <3>. QED BY <1>4, <2>3, OffsetBelow, FoundIsFinite
  <2>5. sync.startAt \in Nat
    BY <1>0, Typed
  <2>6. Offset(found, k) >= sync.startAt + PageSize
    BY <2>3, <2>4, <2>5, Numbers
  <2>7. Cardinality(taken) \in Nat /\ Cardinality(taken) <= PageSize /\ taken # {}
    <3>. HIDE DEF found
    <3>. QED BY <1>4, <2>3, <2>5, PageOf
  <2>8. Offset(found, k) >= sync.startAt + Cardinality(taken) /\ sync.startAt + Cardinality(taken) < Cardinality(found)
    <3>. HIDE DEF found, taken
    <3>. QED BY <2>4, <2>5, <2>6, <2>7, Numbers
  <2>. QED
    BY <1>2, <1>3, <1>4, <2>3, <2>7, <2>8 DEF ToCome
<1>8. Taking'
  BY <1>1, <1>7 DEF Taking
<1>9. ClearedIsIn' /\ Kept' /\ NothingLeftOver'
  BY <1>0, <1>1, <1>2 DEF ClearedIsIn, Clearing, Kept, NothingMissed, NothingLeftOver
<1>. QED
  BY <1>0, <1>5, <1>6, <1>8, <1>9 DEF PagingCurrent

LEMMA LandKeepsCurrent == ASSUME PagingCurrent, UpsertPage PROVE PagingCurrent'
<1>0. Shape /\ Shape' /\ Clocks /\ Fresh /\ Taking /\ ClearedIsIn /\ Kept /\ NothingLeftOver
  BY LandKeepsShape DEF PagingCurrent
<1>1. /\ cache' = [k \in Keys |-> IF k \in DOMAIN results THEN results[k] ELSE IF Clears THEN NoRow ELSE cache[k]]
      /\ syncPc = "land" /\ syncPc' \in {"search", "finish"}
      /\ syncPc' = "finish" <=> DOMAIN results = {} \/ sync'.startAt >= sync.total
      /\ now' = now /\ jira' = jira /\ reqType' = reqType
      /\ lastSynced' = lastSynced /\ lastFull' = lastFull /\ asOf' = asOf
  BY DEF UpsertPage, remote, state
<1>2. /\ sync'.since = sync.since /\ sync'.from = sync.from /\ sync'.full = sync.full
      /\ sync'.pages = sync.pages + 1 /\ sync'.startAt = sync.startAt + Cardinality(DOMAIN results)
      /\ sync'.type = sync.type /\ sync'.start = sync.start /\ sync'.total = sync.total
      /\ sync'.read = sync.read
  BY <1>0 DEF UpsertPage, Advanced, Shape, PagingTypeOK
<1>3. Clocks'
  BY <1>0, <1>1, <1>2, Typed DEF Clocks
<1>4. \A k \in DOMAIN results : /\ results[k] = [updated |-> results[k].updated, type |-> reqType] /\ jira[k].in
                                /\ Unchanged(k) => results[k].updated = jira[k].updated
  <2>1. \A k \in DOMAIN results : results[k] \in Row /\ results[k].type = reqType
    BY <1>0, <1>1, Typed DEF Fresh, Clocks
  <2>. QED
    BY <1>0, <1>1, <2>1 DEF Fresh, Row
<1>5. ~Clears' /\ (Clears <=> sync.full /\ sync.pages = 0)
  BY <1>0, <1>2, Typed DEF Clears
<1>6. \A k \in Keys : /\ Unchanged(k)' <=> Unchanged(k)
                      /\ k \in DOMAIN results /\ Unchanged(k) => Cached(k)'
                      /\ PagingDone(k) /\ Unchanged(k) => Cached(k)'
  BY <1>1, <1>2, <1>4 DEF Unchanged, Cached, PagingDone
<1>7. \A k \in Keys, at \in Nat : ToCome(k, at) => ToCome(k, at)'
  BY <1>1, <1>2 DEF ToCome, Matching
<1>8. Taking'
  <2>. SUFFICES ASSUME NEW k \in Keys, Unchanged(k)'
                PROVE  Cached(k)' \/ (syncPc' = "search" /\ ToCome(k, sync.startAt)')
    BY <1>1, <1>5 DEF Taking, PagingDone
  <2>1. CASE PagingDone(k) \/ k \in DOMAIN results
    BY <1>6, <2>1
  <2>2. CASE ~PagingDone(k) /\ k \notin DOMAIN results
    <3>1. /\ ToCome(k, sync.startAt + Cardinality(DOMAIN results))
          /\ DOMAIN results # {} /\ sync.startAt + Cardinality(DOMAIN results) < sync.total
      BY <1>0, <1>1, <1>6, <2>2 DEF Taking
    <3>2. sync'.startAt \in Nat /\ sync.total \in Int
      BY <1>0, <1>2, Typed DEF Shape, PagingTypeOK
    <3>3. syncPc' = "search"
      BY <1>1, <1>2, <3>1, <3>2
    <3>4. PICK n \in Nat : n = sync'.startAt
      BY <3>2
    <3>5. ToCome(k, n)'
      BY <1>2, <1>7, <3>1, <3>4
    <3>. QED
      BY <3>3, <3>4, <3>5 DEF ToCome
  <2>. QED
    BY <2>1, <2>2
<1>9. Fresh'
  BY <1>1 DEF Fresh
<1>10. ClearedIsIn'
  <2>. SUFFICES ASSUME sync.full, NEW k \in Keys, cache'[k] # NoRow PROVE jira[k].in
    BY <1>1, <1>2 DEF ClearedIsIn, Clearing
  <2>1. CASE k \in DOMAIN results
    BY <1>4, <2>1
  <2>2. CASE k \notin DOMAIN results
    BY <1>0, <1>1, <1>5, <2>2, Typed DEF ClearedIsIn, Clearing
  <2>. QED
    BY <2>1, <2>2
<1>11. Kept'
  <2>. SUFFICES ASSUME ~sync.full, lastSynced # 0, NEW k \in Keys, jira[k].in, jira[k].updated <= asOf.sync
                PROVE  cache'[k] = [updated |-> jira[k].updated, type |-> reqType]
    <3>1. ~Clearing' => ~sync.full
      BY <1>0, <1>1, <1>2, Typed DEF Clearing
    <3>. QED
      BY <1>1, <3>1 DEF Kept, NothingMissed
  <2>1. Unchanged(k)
    BY <1>0, <1>1, Typed DEF Unchanged, Clocks
  <2>2. Cached(k)
    BY <1>0 DEF Kept, Clearing, NothingMissed, Cached
  <2>. QED
    BY <1>1, <1>4, <1>5, <2>1, <2>2 DEF Cached
<1>12. NothingLeftOver'
  BY <1>0, <1>1, <1>4 DEF NothingLeftOver
<1>. QED
  BY <1>0, <1>3, <1>8, <1>9, <1>10, <1>11, <1>12 DEF PagingCurrent

LEMMA EndsKeepCurrent == ASSUME PagingCurrent, Calm, SetSyncState \/ SyncFails PROVE PagingCurrent'
<1>0. Shape /\ Shape' /\ Clocks /\ Taking /\ ClearedIsIn /\ Kept /\ NothingLeftOver
  BY ShapeKept DEF PagingCurrent, PagingNext, SyncStep
<1>1. /\ syncPc # "idle" /\ syncPc' = "idle"
      /\ now' = now /\ jira' = jira /\ reqType' = reqType /\ cache' = cache
  BY DEF SetSyncState, SyncFails, remote
<1>2. syncPc = "finish" => NothingMissed
  BY <1>0, <1>1, Typed DEF Taking, Unchanged, Cached, NothingMissed, Clocks
<1>3. Fresh' /\ Taking' /\ ClearedIsIn'
  BY <1>1 DEF Fresh, Taking, ClearedIsIn, Clearing
<1>4. CASE SetSyncState
  <2>1. /\ syncPc = "finish" /\ lastSynced' = sync.start
        /\ lastFull' = IF sync.full THEN sync.start ELSE lastFull
        /\ asOf'.sync = sync.from /\ asOf'.full = IF sync.full THEN sync.from ELSE asOf.full
    BY <1>4 DEF SetSyncState
  <2>2. Clocks'
    BY <1>0, <1>1, <2>1, Typed DEF Clocks
  <2>3. NothingMissed'
    BY <1>0, <1>1, <2>1 DEF Taking, Unchanged, Cached, NothingMissed
  <2>4. NothingLeftOver'
    <3>1. CASE sync.full
      <4>1. Clearing
        BY <1>0, <1>1, <2>1, <3>1, Typed DEF Clearing, Clocks
      <4>. QED
        BY <1>0, <1>1, <2>1, <4>1 DEF ClearedIsIn, NothingLeftOver
    <3>2. CASE ~sync.full
      BY <1>0, <1>1, <2>1, <3>2 DEF NothingLeftOver
    <3>. QED
      BY <3>1, <3>2
  <2>. QED
    BY <1>0, <1>3, <2>2, <2>3, <2>4 DEF PagingCurrent, Kept
<1>5. CASE SyncFails
  <2>1. UNCHANGED state /\ (sync.full /\ sync.pages > 0 => syncPc = "finish")
    BY <1>0, <1>1, <1>5 DEF SyncFails, Calm, Clocks, state
  <2>2. NothingMissed
    BY <1>0, <1>2, <2>1 DEF Kept, Clearing
  <2>3. Clocks' /\ NothingMissed' /\ NothingLeftOver'
    BY <1>0, <1>1, <2>1, <2>2 DEF state, Clocks, NothingMissed, NothingLeftOver
  <2>. QED
    BY <1>0, <1>3, <2>3 DEF PagingCurrent, Kept
<1>. QED
  BY <1>4, <1>5

LEMMA CurrentKept == ASSUME PagingCurrent, Calm, [PagingNext]_pagingVars PROVE PagingCurrent'
<1>1. CASE \E k \in Keys, in \in BOOLEAN : RemoteChange(k, in)
  BY <1>1, RemoteKeepsCurrent
<1>2. CASE \E type \in Types : SetProfileSetting(type)
  <2>1. /\ syncPc = "idle" /\ syncPc' = "idle" /\ lastSynced' = 0
        /\ now' = now /\ jira' = jira /\ cache' = cache /\ lastFull' = lastFull /\ asOf' = asOf
    BY <1>2 DEF SetProfileSetting, Calm, remote
  <2>2. Shape /\ Shape' /\ Clocks /\ NothingLeftOver
    BY ShapeKept DEF PagingCurrent
  <2>3. Clocks'
    BY <2>1, <2>2, Typed, Numbers DEF Clocks
  <2>. QED
    BY <2>1, <2>2, <2>3 DEF PagingCurrent, Fresh, Taking, ClearedIsIn, Clearing, Kept, NothingMissed, NothingLeftOver
<1>3. CASE \E full \in BOOLEAN, skew \in 0..Skew : StartSync(full, skew)
  BY <1>3, StartKeepsCurrent
<1>4. CASE SearchIssuesPage
  BY <1>4, SearchKeepsCurrent
<1>5. CASE UpsertPage
  BY <1>5, LandKeepsCurrent
<1>6. CASE SetSyncState \/ SyncFails
  BY <1>6, EndsKeepCurrent
<1>7. CASE UNCHANGED pagingVars
  <2>. USE <1>7 DEF pagingVars
  <2>1. Shape' /\ Clocks' /\ Fresh'
    BY ShapeKept DEF PagingCurrent, Clocks, Fresh, Unchanged
  <2>2. Taking'
    BY DEF PagingCurrent, Taking, PagingDone, Cached, Clears, Unchanged, ToCome, Matching
  <2>3. ClearedIsIn' /\ Kept' /\ NothingLeftOver'
    BY DEF PagingCurrent, ClearedIsIn, Clearing, Kept, NothingMissed, NothingLeftOver
  <2>. QED
    BY <2>1, <2>2, <2>3 DEF PagingCurrent
<1>. QED
  BY <1>1, <1>2, <1>3, <1>4, <1>5, <1>6, <1>7 DEF PagingNext, SyncStep

\* Between syncs the cache holds what its watermarks claim, for any number of
\* issues in pages of any size and however they change while the pages are
\* taken: unless one leaves the scope between two pages, a full sync fails half
\* way, or the requirement type changes under a sync.
THEOREM SyncLeavesCurrent ==
    ASSUME "leave" \notin PagingEnv, "partial" \notin PagingEnv, "overlap" \notin PagingEnv
    PROVE  PagingSpec => []CacheIsCurrent
<1>1. PagingInit => PagingCurrent
  BY CurrentAtFirst
<1>2. PagingCurrent /\ [PagingNext]_pagingVars => PagingCurrent'
  BY CurrentKept DEF Calm
<1>3. PagingCurrent => CacheIsCurrent
  BY DEF PagingCurrent, Kept, Clearing, CacheIsCurrent
<1>. QED
  BY <1>1, <1>2, <1>3, PTL DEF PagingSpec
=============================================================================
