----------------------------- MODULE RankOrder -----------------------------
(***************************************************************************)
(* Cards dropped above or below another card of their cell.  A rank moves  *)
(* nothing in the cache: it is journaled with the neighbour it was dropped *)
(* against, the board read lays it over the order Jira last answered       *)
(* (boardrepo/pendingmoves.go, cellorder.go), and Commit pushes it as the  *)
(* last group, every card anchored against the card above it               *)
(* (committer/ranks.go).  Jira keeps one rank over all cards.              *)
(*                                                                         *)
(* One board without swimlanes.  What decides the column of a card is      *)
(* module BoardMoves; here a card changes column in one step.              *)
(*                                                                         *)
(* Env says what a behaviour may contain:                                  *)
(*   "overlap"  cards are dragged and ranks discarded while ranks are      *)
(*              pushed                                                     *)
(*   "early"    the same, between reading the rows and reading the order   *)
(*   "fault"    a call fails, an answer is lost, or the app is killed      *)
(*   "column"   cards change column                                        *)
(*   "leave"    cards come to the board and leave it in Jira               *)
(*   "remote"   somebody else ranks in Jira                                *)
(*   "discard"  the user discards a rank                                   *)
(***************************************************************************)
EXTENDS Journal, SequencesExt

CONSTANTS Keys,       \* issue keys, numbered in the order the journal is read
          Columns,    \* the columns, numbered from left to right
          Start,      \* the orders Jira may have to begin with
          Drawn,      \* the columns the cards may be drawn in to begin with
          None,
          MaxDrops,   \* bound on the drops the user makes
          MaxOutside, \* bound on the changes made outside the rank group
          Env

Disturbances == {"overlap", "early", "fault", "column", "leave", "remote", "discard"}

EntityRank == "issue_rank"
FieldRank  == "rank"

\* RankValue: the card it was dropped against, and whether before it.
RankValue == Keys \X BOOLEAN
Rows      == PendingChange({EntityRank}, Keys, {FieldRank}, RankValue \cup {None})

ASSUME RankOrderAssumption ==
    /\ Keys \subseteq Nat /\ IsFiniteSet(Keys)
    /\ Columns \subseteq Nat /\ IsFiniteSet(Columns)
    /\ Start \subseteq SetToSeqs(Keys)
    /\ Drawn \subseteq [Keys -> Columns]
    /\ None \notin Keys \cup RankValue
    /\ MaxDrops \in Nat /\ MaxOutside \in Nat
    /\ Env \subseteq Disturbances

VARIABLES
    jira,      \* the one order Jira keeps
    onBoard,   \* the cards the board has in Jira
    board,     \* board_issue: the cards of the board in the order last read
    column,    \* the column each card is drawn in
    journal,   \* the pending_change table
    nextId,    \* the next AUTOINCREMENT id
    job,       \* "none", "commit" before the order is read, "ranks" after it
    want,      \* the rank rows the board pass read
    order,     \* the order of the board they are pushed in
    at,        \* how far down that order the pass is
    prev,      \* the last card known to be in its place
    clearing,  \* the rows that landed and are to be cleared
    failed,    \* the cards whose rank failed in this pass
    asked,     \* history: where the user last dropped each card
    drops,     \* how many drops there were
    outside,   \* how many changes outside the rank group there were
    shown,     \* history: the rank rows the order was drawn with
    calm       \* history: the order read is the one Jira had and the board shows

remote == <<jira, onBoard>>
cache  == <<board, column, journal, nextId>>
pass   == <<want, order, at, prev, clearing, failed>>
vars   == <<jira, onBoard, board, column, journal, nextId, job, want, order, at, prev,
            clearing, failed, asked, drops, outside, shown, calm>>

-----------------------------------------------------------------------------
\* How far down an order a card stands, 0 when it is not there.
Position(s, k) == SelectInSeq(s, LAMBDA j : j = k)

Above(s, j, k) == Position(s, j) < Position(s, k)

\* Mutant of Placed: the card is put back without having been taken out.
PlacedTwice(s, k, n, before) ==
    LET i == Position(s, n)
    IN  InsertAt(s, IF before THEN i ELSE i + 1, k)

\* The order s with k taken out and put back next to n.
Placed(s, k, n, before) ==
    LET rest == RemoveFirst(s, k)
        i    == Position(rest, n)
    IN  InsertAt(rest, IF before THEN i ELSE i + 1, k)

\* The cards of S, each above those that come after it.
InOrder(S, comesBefore(_, _)) ==
    CHOOSE s \in SetToSeqs(S) : \A i, j \in DOMAIN s : i < j => comesBefore(s[i], s[j])

Ranks(j, k) == RowsAt(j, EntityRank, k, FieldRank)

\* Card k is put where its pending rank says, unless its neighbour is not
\* drawn in the same cell.
rankCard(s, k) ==
    IF \E r \in Ranks(journal, k) :
          /\ {k, r.after[1]} \subseteq ToSet(s) /\ k # r.after[1]
          /\ column[k] = column[r.after[1]]
    THEN LET r == RowAt(journal, EntityRank, k, FieldRank)
         IN  Placed(s, k, r.after[1], r.after[2])
    ELSE s

\* Every pending rank, in the order of the keys.
rankCards(cards) == FoldLeft(rankCard, cards, InOrder(Keys, <))

\* The cards of S as they stand in the order s.
Among(s, S) == InOrder(S, LAMBDA j, k : Above(s, j, k))

\* One column of an order, top to bottom.
InColumn(s, c) == Among(s, {k \in ToSet(s) : column[k] = c})

\* cellOrder: the columns left to right, each as it is drawn.
CellOrder ==
    LET drawn == rankCards(board)
    IN  InOrder(ToSet(drawn), LAMBDA j, k : \/ column[j] < column[k]
                                            \/ column[j] = column[k] /\ Above(drawn, j, k))

\* The cards of the board in the one order of Jira.
BoardOrder == Among(jira, onBoard)

-----------------------------------------------------------------------------
Init ==
    /\ jira \in Start
    /\ onBoard = Keys /\ board = jira
    /\ column \in Drawn
    /\ journal = {} /\ nextId = 1
    /\ job = "none"
    /\ want = {} /\ order = <<>> /\ at = 1 /\ prev = None /\ clearing = {} /\ failed = {}
    /\ asked = [k \in Keys |-> None]
    /\ drops = 0 /\ outside = 0 /\ shown = {} /\ calm = FALSE

\* No binding of the user takes the guard.
Unguarded ==
    \/ job = "none"
    \/ job = "commit" /\ "early" \in Env
    \/ job = "ranks" /\ "overlap" \in Env

Outside == outside < MaxOutside /\ outside' = outside + 1

\* RankIssue: a card is dropped against another one of its cell.
RankIssue(k, n, before) ==
    LET pending == Ranks(journal, k)
    IN  /\ Unguarded
        /\ k # n /\ {k, n} \subseteq ToSet(board) /\ column[k] = column[n]
        /\ \A r \in pending : r.after # <<n, before>>
        /\ drops < MaxDrops /\ drops' = drops + 1
        /\ journal' = Put(journal, nextId, EntityRank, k, FieldRank, None, <<n, before>>, 0)
        /\ nextId' = IF pending = {} THEN nextId + 1 ELSE nextId
        /\ asked' = [asked EXCEPT ![k] = <<n, before>>]
        /\ UNCHANGED <<remote, board, column, job, pass, outside, shown, calm>>

\* DiscardPendingChange: a rank has no cached value to put back.
DiscardPendingChange(r) ==
    /\ "discard" \in Env /\ Unguarded
    /\ journal' = Delete(journal, {r.id})
    /\ asked' = [asked EXCEPT ![r.key] = None]
    /\ UNCHANGED <<remote, board, column, nextId, job, pass, drops, outside, shown, calm>>

\* The card is transitioned, or a sync finds it was.
ChangeColumn(k, c) ==
    /\ "column" \in Env /\ Unguarded /\ Outside
    /\ column' = [column EXCEPT ![k] = c]
    /\ calm' = FALSE
    /\ UNCHANGED <<remote, board, journal, nextId, job, pass, asked, drops, shown>>

\* The boards pass of a sync, which holds the guard: the order Jira has now.
SyncBoards ==
    /\ job = "none"
    /\ board' = BoardOrder
    /\ UNCHANGED <<remote, column, journal, nextId, job, pass, asked, drops, outside, shown, calm>>

RemoteRank(k, n) ==
    /\ "remote" \in Env /\ Outside
    /\ k # n
    /\ jira' = Placed(jira, k, n, FALSE)
    /\ calm' = FALSE
    /\ UNCHANGED <<onBoard, cache, job, pass, asked, drops, shown>>

RemoteMembership(k) ==
    /\ "leave" \in Env /\ Outside
    /\ onBoard' = (onBoard \ {k}) \cup ({k} \ onBoard)
    /\ UNCHANGED <<jira, cache, job, pass, asked, drops, shown, calm>>

-----------------------------------------------------------------------------
\* The board pass reads its rows, pushes the other moves, then the ranks.
CommitStart ==
    /\ job = "none" /\ journal # {}
    /\ job' = "commit"
    /\ want' = journal
    /\ UNCHANGED <<remote, cache, order, at, prev, clearing, failed, asked, drops, outside, shown, calm>>

\* pushBoardRanks: the order is derived from what the store holds by now.
ReadOrder ==
    /\ job = "commit"
    /\ job' = "ranks"
    /\ order' = CellOrder
    /\ shown' = journal
    /\ calm' = (want = journal /\ board = BoardOrder)
    /\ UNCHANGED <<remote, cache, want, at, prev, clearing, failed, asked, drops, outside>>

\* dropRanks: the order could not be read, and every row stays.
ReadOrderFails ==
    /\ "fault" \in Env
    /\ job = "commit"
    /\ job' = "none" /\ want' = {}
    /\ UNCHANGED <<remote, cache, order, at, prev, clearing, failed, asked, drops, outside, shown, calm>>

\* The next position of the order with a rank to push, 0 when there is none.
NextRank == SelectInSubSeq(order, at, Len(order), LAMBDA k : Ranks(want, k) # {})

\* The last card in its place above position i.
PrevAt(i) == IF i = at THEN prev ELSE order[i - 1]

\* rankAnchor: after the card above, or before the card below the topmost
\* one, or nothing to rank against.
rankAnchor(i) ==
    IF PrevAt(i) # None THEN {<<PrevAt(i), FALSE>>}
    ELSE IF i = 1 /\ Len(order) > 1 THEN {<<order[2], TRUE>>}
    ELSE {}

\* Jira has the drop of k the order was drawn with.
Reached(k) == asked' = IF \E r \in Ranks(shown, k) : r.after = asked[k]
                       THEN [asked EXCEPT ![k] = None] ELSE asked

Ranking == job = "ranks" /\ clearing = {} /\ NextRank # 0

\* RankIssue of the backend took it: the row is cleared, and the card can
\* anchor the next one.
PushRank ==
    LET i == NextRank
        k == order[i]
    IN  /\ Ranking
        /\ \E anchor \in rankAnchor(i) : jira' = Placed(jira, k, anchor[1], anchor[2])
        /\ at' = i + 1 /\ prev' = k
        /\ clearing' = Ranks(want, k)
        /\ Reached(k)
        /\ UNCHANGED <<onBoard, cache, job, want, order, failed, drops, outside, shown, calm>>

\* Mutant of PushRankFails: the next card is anchored against one that stayed
\* where it was.
PushRankFailsAndAnchors ==
    LET i == NextRank
    IN  /\ "fault" \in Env /\ Ranking
        /\ at' = i + 1 /\ prev' = order[i]
        /\ failed' = failed \cup {order[i]}
        /\ UNCHANGED <<remote, cache, job, want, order, clearing, asked, drops, outside, shown, calm>>

\* Nothing to anchor against, or Jira refused: prev stays where it was.
\* A lost answer looks the same, and the card has moved.
PushRankFails ==
    LET i == NextRank
        k == order[i]
    IN  /\ Ranking
        /\ \/ (rankAnchor(i) = {} \/ "fault" \in Env) /\ UNCHANGED jira
           \/ /\ "fault" \in Env
              /\ \E anchor \in rankAnchor(i) : jira' = Placed(jira, k, anchor[1], anchor[2])
        /\ at' = i + 1 /\ prev' = PrevAt(i)
        /\ failed' = failed \cup {k}
        /\ UNCHANGED <<onBoard, cache, job, want, order, clearing, asked, drops, outside, shown, calm>>

\* Mutant of clearMoveRow: the row goes by id, whatever it holds by now.
clearMoveById(r) == Delete(journal, {r.id})

clearMoveRow(r) == {s \in journal : ~(s.id = r.id /\ s.after = r.after)}

ClearMove(r) ==
    /\ clearing' = clearing \ {r}
    /\ journal' = clearMoveRow(r)
    /\ Reached(r.key)
    /\ UNCHANGED <<remote, board, column, nextId, job, want, order, at, prev, failed,
                   drops, outside, shown, calm>>

ClearFails(r) ==
    /\ "fault" \in Env
    /\ clearing' = clearing \ {r}
    /\ UNCHANGED <<remote, cache, job, want, order, at, prev, failed, asked, drops, outside, shown, calm>>

Rest == /\ job' = "none"
        /\ want' = {} /\ order' = <<>> /\ at' = 1 /\ prev' = None
        /\ clearing' = {} /\ failed' = {} /\ shown' = {} /\ calm' = FALSE

\* The ranks of cards that left the board are reported, and stay.
CommitEnds ==
    /\ job = "ranks" /\ clearing = {} /\ NextRank = 0
    /\ Rest
    /\ UNCHANGED <<remote, cache, asked, drops, outside>>

Crash ==
    /\ "fault" \in Env
    /\ job # "none"
    /\ Rest
    /\ UNCHANGED <<remote, cache, asked, drops, outside>>

Next ==
    \/ \E k, n \in Keys, before \in BOOLEAN : RankIssue(k, n, before)
    \/ \E r \in journal : DiscardPendingChange(r)
    \/ \E k \in Keys, c \in Columns : ChangeColumn(k, c)
    \/ SyncBoards
    \/ \E k, n \in Keys : RemoteRank(k, n)
    \/ \E k \in Keys : RemoteMembership(k)
    \/ CommitStart \/ ReadOrder \/ ReadOrderFails \/ PushRank \/ PushRankFails
    \/ \E r \in clearing : ClearMove(r) \/ ClearFails(r)
    \/ CommitEnds \/ Crash

Spec == Init /\ [][Next]_vars

-----------------------------------------------------------------------------
\* The types; an order never has a card twice and Jira never loses one.
TypeOK ==
    /\ jira \in Seq(Keys) /\ IsInjective(jira) /\ Len(jira) = Cardinality(Keys)
    /\ onBoard \subseteq Keys
    /\ board \in Seq(Keys) /\ IsInjective(board)
    /\ column \in [Keys -> Columns]
    /\ journal \subseteq Rows /\ WellKeyed(journal) /\ \A r \in journal : r.id < nextId
    /\ job \in {"none", "commit", "ranks"}
    /\ want \subseteq Rows /\ clearing \subseteq want
    /\ order \in Seq(ToSet(board)) /\ IsInjective(order)
    /\ at \in 1..Len(order) + 1
    /\ prev \in ToSet(order) \cup {None}
    /\ failed \subseteq ToSet(order)
    /\ asked \in [Keys -> RankValue \cup {None}]
    /\ drops \in 0..MaxDrops /\ outside \in 0..MaxOutside /\ shown \subseteq Rows /\ calm \in BOOLEAN

\* The cards the pass is past and whose rank did not fail.
Settled == {order[i] : i \in 1..(IF NextRank = 0 THEN Len(order) ELSE NextRank - 1)} \ failed

\* The cards of S in column c stand in Jira as the pass found them drawn.
AsDrawn(c, S) ==
    \A j, k \in {key \in S : column[key] = c} : Above(order, j, k) => Above(jira, j, k)

\* However many ranks fail, are lost or are dropped on the way, what Jira has
\* taken so far stands in the order the board showed, in every column whose
\* topmost card was not itself ranked (the comment on prev in ranks.go: no
\* card is anchored against one Jira never moved).
SettledAsDrawn ==
    job = "ranks" /\ calm =>
        \A c \in Columns :
            LET drawn == InColumn(order, c)
            IN  drawn # <<>> /\ Ranks(want, Head(drawn)) = {} => AsDrawn(c, Settled)

\* A drop made while an older one of the same card is pushed is kept, until
\* Jira has it or the user discards it (the comment on MarkMoveCommitted).
NoRankLost ==
    \A k \in Keys : asked[k] # None => \E r \in Ranks(journal, k) : r.after = asked[k]
=============================================================================
