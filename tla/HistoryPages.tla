----------------------------- MODULE HistoryPages -----------------------------
(***************************************************************************)
(* listThreadTurns and listThreadItems (src/src/desktop_history.rs): one   *)
(* client reads the list page by page, following nextCursor, while the     *)
(* desktop appends to the history and rolls it back.                       *)
(*                                                                         *)
(* A row is a turn of the thread, or an item of the turn.  Its id never    *)
(* returns; its ordinal is unique among the rows there are, grows with     *)
(* each appended row, and may be used again after a rollback.  Every       *)
(* request reads one state of the database (BEGIN DEFERRED, a connection   *)
(* of its own), row by row.                                                *)
(*                                                                         *)
(* Abstracted: what a row displays, and its size.  Any row but the first   *)
(* of a page may be the one that exceeds the byte budget.  The cursor is   *)
(* passed back as it was given: one of another query is refused by         *)
(* Cursor::decode and reads nothing.  A response that is lost is a page    *)
(* that was not asked for, since a request changes nothing.                *)
(***************************************************************************)
EXTENDS Integers, Sequences

CONSTANTS
  Limit,     \* rows per page
  OfItems,   \* the list is of the items of a turn, which may disappear
  MaxRows,   \* bound: rows ever appended
  MaxGap     \* bound: by how much an ordinal exceeds the one before

ASSUME PagesAssumption ==
  /\ Limit \in Nat \ {0} /\ OfItems \in BOOLEAN
  /\ MaxRows \in Nat /\ MaxGap \in Nat

VARIABLES
  rows,     \* the rows in the database
  born,     \* number of rows ever appended
  turn,     \* the turn whose items are listed exists
  sort,     \* "asc" or "desc"
  phase,    \* where the client's pagination stands
  view,     \* the rows the current, or last, request sees
  opened,   \* the rows the first request saw
  head,     \* Cursor.head: the highest ordinal of the first request
  anchor,   \* Cursor.id and ordinal: the last row returned, or NoRow
  count,    \* rows in the current page
  data      \* the rows of all pages, as the client puts them together

desktopVars == <<rows, born, turn>>
clientVars  == <<sort, phase, view, opened, head, anchor, count, data>>
vars == <<desktopVars, clientVars>>

Rows  == [id : Nat, ordinal : Nat]
NoRow == [id |-> -1, ordinal |-> -1]

Ordinals(R) == {r.ordinal : r \in R}

\* coalesce(max(rollout_ordinal), -1)
IsHead(R, h) == h \in Ordinals(R) \cup {-1} /\ \A r \in R : r.ordinal <= h

Precedes(q, r) == IF sort = "asc" THEN q.ordinal < r.ordinal ELSE r.ordinal < q.ordinal

Init ==
  /\ rows = {} /\ born = 0 /\ turn = TRUE
  /\ sort \in {"asc", "desc"}
  /\ phase = "ask" /\ view = {} /\ opened = {} /\ head = -1
  /\ anchor = NoRow /\ count = 0 /\ data = <<>>

-----------------------------------------------------------------------------
(* The desktop.                                                            *)

AppendRow(gap) ==
  /\ turn /\ born < MaxRows
  /\ \E h \in Ordinals(rows) \cup {-1} :
       /\ IsHead(rows, h)
       /\ rows' = rows \cup {[id |-> born, ordinal |-> h + 1 + gap]}
  /\ born' = born + 1
  /\ UNCHANGED <<turn, clientVars>>

Rollback(r) ==
  /\ rows' = {q \in rows : q.ordinal < r.ordinal}
  /\ UNCHANGED <<born, turn, clientVars>>

\* A rollback beyond the turn takes its items with it.
DropTurn ==
  /\ OfItems /\ turn
  /\ turn' = FALSE /\ rows' = {}
  /\ UNCHANGED <<born, clientVars>>

-----------------------------------------------------------------------------
(* A request.                                                              *)

Begin ==
  /\ phase = "ask"
  /\ phase' = IF turn THEN "begun" ELSE "missing"
  /\ view' = rows
  /\ count' = 0
  /\ UNCHANGED <<desktopVars, sort, opened, head, anchor, data>>

\* Fault: the anchor is looked up by its ordinal alone.
AnchorGoneByOrdinal == anchor.ordinal \notin Ordinals(view)

AnchorGone == anchor \notin view

\* The first request fixes the head; the others check anchor and head.
Check(h) ==
  /\ phase = "begun" /\ IsHead(view, h)
  /\ IF data = <<>>
     THEN phase' = "reading" /\ head' = h /\ opened' = view
     ELSE /\ phase' = IF AnchorGone \/ h < head THEN "stale" ELSE "reading"
          /\ UNCHANGED <<head, opened>>
  /\ UNCHANGED <<desktopVars, sort, view, anchor, count, data>>

\* Fault: the comparison with the anchor includes it.
RestFromAnchor == {r \in view : r.ordinal <= head /\ (anchor = NoRow \/ ~Precedes(r, anchor))}

\* The rows the statement selects.
Rest == {r \in view : r.ordinal <= head /\ (anchor = NoRow \/ Precedes(anchor, r))}

Fetched == Limit + 1

\* The next row of the statement.
IsNext(r) == count < Fetched /\ r \in Rest /\ \A q \in Rest : ~Precedes(q, r)

\* The row is displayed in full, and the cursor moves to it.
TakeRow(r) ==
  /\ phase = "reading" /\ IsNext(r) /\ count < Limit
  /\ data' = Append(data, r)
  /\ anchor' = r
  /\ count' = count + 1
  /\ UNCHANGED <<desktopVars, sort, phase, view, opened, head>>

\* Fault: a row that exceeds the budget ends the page even if it is the first.
PageFullEmpty == TRUE

\* The page has its rows, or the next row exceeds the byte budget of a page
\* that is not empty.
PageFull == count > 0

EndPage(r) ==
  /\ phase = "reading" /\ IsNext(r) /\ PageFull
  /\ phase' = "ask"
  /\ UNCHANGED <<desktopVars, sort, view, opened, head, anchor, count, data>>

\* The statement has no more rows: the list is complete, and no cursor is given.
EndList ==
  /\ phase = "reading" /\ (Rest = {} \/ count = Fetched)
  /\ phase' = "done"
  /\ UNCHANGED <<desktopVars, sort, view, opened, head, anchor, count, data>>

-----------------------------------------------------------------------------
DesktopStep ==
  \/ \E gap \in 0..MaxGap : AppendRow(gap)
  \/ \E r \in rows : Rollback(r)
  \/ DropTurn

PageStep ==
  \/ Begin \/ EndList
  \/ \E h \in Ordinals(view) \cup {-1} : Check(h)
  \/ \E r \in view : TakeRow(r) \/ EndPage(r)

Next == DesktopStep \/ PageStep

Spec == Init /\ [][Next]_vars

\* The client goes on asking, and requests are answered.
PagedSpec == Spec /\ WF_vars(PageStep)

-----------------------------------------------------------------------------
Returned == {data[i] : i \in 1..Len(data)}

\* Type invariant.
TypeOK ==
  /\ rows \in SUBSET Rows /\ born \in Nat /\ turn \in BOOLEAN
  /\ sort \in {"asc", "desc"}
  /\ phase \in {"ask", "begun", "reading", "done", "stale", "missing"}
  /\ view \in SUBSET Rows /\ opened \in SUBSET Rows
  /\ head \in Nat \cup {-1}
  /\ anchor \in Rows \cup {NoRow}
  /\ count \in 0..Limit
  /\ data \in Seq(Rows)

\* The pages follow one another in the order asked for: no row is returned
\* twice, at page boundaries least of all, and none out of its place.
PagesInOrder ==
  \A i, j \in 1..Len(data) : i < j => Precedes(data[i], data[j])

\* A pagination that reaches its end has returned one history the thread really
\* had, without a gap: downwards, all that was there when it began; upwards, all
\* that is there at the end, up to the head it fixed.
OneHistory ==
  phase = "done" =>
    Returned = IF sort = "desc" THEN opened ELSE {r \in view : r.ordinal <= head}

\* Every pagination ends: a page that announces another has advanced, whatever
\* the size of its rows.
EveryPaginationEnds == <>(phase \in {"done", "stale", "missing"})
=============================================================================
