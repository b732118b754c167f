-------------------------- MODULE HistoryPagesProofs --------------------------
(***************************************************************************)
(* A pagination that completes has returned one history: the theorems of   *)
(* HistoryPages, for any page size, any history, and any bound on it.      *)
(***************************************************************************)
EXTENDS HistoryPages, SequenceTheorems, TLAPS

\* No two rows share an ordinal.
Distinct(R) == \A x, y \in R : x.ordinal = y.ordinal => x = y

\* A row that both states hold has the same predecessors in both: the history
\* is only ever cut from above.
Agrees(A, B) ==
  \A x \in A \cap B : \A y \in A \cup B :
    y.ordinal < x.ordinal => (y \in A <=> y \in B)

\* What the desktop's rows have to do with what the client saw.
HistoryInv ==
  /\ \A r \in rows \cup view \cup opened : r.id < born
  /\ Distinct(rows) /\ Distinct(view) /\ Distinct(opened)
  /\ Agrees(opened, rows) /\ Agrees(view, rows) /\ Agrees(opened, view)

\* The anchor is the last row returned, and the pages are in order.
AnchorInv ==
  /\ data = <<>> <=> anchor = NoRow
  /\ data # <<>> => anchor = data[Len(data)]
  /\ PagesInOrder

\* The rows the sort order puts before a row.
UpTo(r, R) == {q \in R : q = r \/ Precedes(q, r)}

\* What has been returned is everything up to the anchor: of the first state
\* downwards, of the present one upwards.
ReturnedInv ==
  /\ phase \in {"ask", "reading", "done"} => anchor = NoRow \/ anchor \in view
  /\ phase \in {"reading", "done"} /\ data = <<>> => view = opened
  /\ data # <<>> \/ phase \in {"reading", "done"} => \A r \in opened : r.ordinal <= head
  /\ anchor # NoRow => anchor.ordinal <= head
  /\ sort = "desc" /\ anchor # NoRow =>
       anchor \in opened /\ Returned = UpTo(anchor, opened)
  /\ sort = "asc" /\ anchor \in view => Returned = UpTo(anchor, view)

-----------------------------------------------------------------------------
(* Type correctness.                                                        *)

\* A row returned extends what was returned, and nothing before it changes.
LEMMA ReturnRow ==
  ASSUME TypeOK, NEW r \in view, data' = Append(data, r)
  PROVE  /\ data' \in Seq(Rows) /\ data' # <<>>
         /\ Len(data') = Len(data) + 1 /\ data'[Len(data')] = r
         /\ \A i \in 1..Len(data) : data'[i] = data[i]
         /\ Returned' = Returned \cup {r}
<1>1. data \in Seq(Rows) /\ r \in Rows /\ Len(data) \in Nat  BY LenProperties DEF TypeOK
<1>2. /\ data' \in Seq(Rows) /\ Len(data') = Len(data) + 1 /\ data'[Len(data')] = r
      /\ \A i \in 1..Len(data) : data'[i] = data[i]
      BY <1>1, AppendProperties
<1>3. data' # <<>>  BY <1>1, <1>2, EmptySeq
<1>4. Returned' = Returned \cup {r}
  <2>1. 1..Len(data') = 1..Len(data) \cup {Len(data')}  BY <1>1, <1>2
  <2> QED BY <2>1, <1>2 DEF Returned
<1> QED BY <1>2, <1>3, <1>4

\* The desktop appends and removes rows, and nothing else.
LEMMA DesktopTypeOK == TypeOK /\ DesktopStep => TypeOK'
<1> SUFFICES ASSUME TypeOK, DesktopStep  PROVE TypeOK'
    OBVIOUS
<1> USE DEF TypeOK, clientVars
<1>1. ASSUME NEW gap \in 0..MaxGap, AppendRow(gap)  PROVE TypeOK'
  <2>1. PICK h \in Ordinals(rows) \cup {-1} :
          rows' = rows \cup {[id |-> born, ordinal |-> h + 1 + gap]}
        BY <1>1 DEF AppendRow
  <2>2. h \in Nat \cup {-1}  BY DEF Ordinals, Rows
  <2>3. [id |-> born, ordinal |-> h + 1 + gap] \in Rows
        BY <2>2, PagesAssumption DEF Rows
  <2> QED BY <1>1, <2>1, <2>3 DEF AppendRow
<1>2. ASSUME NEW r \in rows, Rollback(r)  PROVE TypeOK'
      BY <1>2 DEF Rollback
<1>3. CASE DropTurn  BY <1>3 DEF DropTurn
<1> QED BY <1>1, <1>2, <1>3 DEF DesktopStep

\* So does every step of a request.
LEMMA PageTypeOK == TypeOK /\ PageStep => TypeOK'
<1> SUFFICES ASSUME TypeOK, PageStep  PROVE TypeOK'
    OBVIOUS
<1> USE PagesAssumption DEF TypeOK, desktopVars
<1>1. CASE Begin  BY <1>1 DEF Begin
<1>2. CASE EndList  BY <1>2 DEF EndList
<1>3. ASSUME NEW h \in Ordinals(view) \cup {-1}, Check(h)  PROVE TypeOK'
  <2>1. h \in Nat \cup {-1}  BY DEF Ordinals, Rows
  <2> QED BY <1>3, <2>1 DEF Check
<1>4. ASSUME NEW r \in view, TakeRow(r)  PROVE TypeOK'
  <2>1. data' \in Seq(Rows)  BY <1>4, ReturnRow DEF TakeRow
  <2> QED BY <1>4, <2>1 DEF TakeRow
<1>5. ASSUME NEW r \in view, EndPage(r)  PROVE TypeOK'
      BY <1>5 DEF EndPage
<1> QED BY <1>1, <1>2, <1>3, <1>4, <1>5 DEF PageStep

\* Every step keeps every variable in its type.
LEMMA NextTypeOK == TypeOK /\ [Next]_vars => TypeOK'
<1>1. TypeOK /\ UNCHANGED vars => TypeOK'
      BY DEF vars, desktopVars, clientVars, TypeOK
<1> QED BY <1>1, DesktopTypeOK, PageTypeOK DEF Next

\* Nothing is known at the start.
LEMMA InitTypeOK == Init => TypeOK
BY PagesAssumption, EmptySeq DEF Init, TypeOK

\* Every variable of the model keeps its type.
THEOREM TypeCorrect == Spec => []TypeOK
<1> QED BY InitTypeOK, NextTypeOK, PTL DEF Spec
-----------------------------------------------------------------------------
(* The history is only cut from above.                                      *)

\* An append and a rollback leave alone what precedes a row that stays.
LEMMA DesktopHistory == TypeOK /\ HistoryInv /\ DesktopStep => HistoryInv'
<1> SUFFICES ASSUME TypeOK, HistoryInv, DesktopStep  PROVE HistoryInv'
    OBVIOUS
<1> USE DEF clientVars
<1>0. /\ rows \in SUBSET Rows /\ view \in SUBSET Rows /\ opened \in SUBSET Rows
      /\ born \in Nat
      BY DEF TypeOK
<1>1. ASSUME NEW gap \in 0..MaxGap, AppendRow(gap)  PROVE HistoryInv'
  <2>1. PICK h \in Ordinals(rows) \cup {-1} :
          IsHead(rows, h) /\ rows' = rows \cup {[id |-> born, ordinal |-> h + 1 + gap]}
        BY <1>1 DEF AppendRow
  <2> DEFINE n == [id |-> born, ordinal |-> h + 1 + gap]
  <2>2. h \in Nat \cup {-1}  BY <1>0 DEF Ordinals, Rows
  <2>3. n \in Rows /\ n.id = born /\ \A r \in rows : r.ordinal < n.ordinal
        BY <1>0, <2>1, <2>2, PagesAssumption DEF Rows, IsHead
  <2>4. \A r \in rows \cup view \cup opened : r.id < born /\ r # n /\ r.id < born + 1
        BY <1>0, <2>3 DEF HistoryInv, Rows
  <2>5. rows' = rows \cup {n} /\ born' = born + 1 /\ view' = view /\ opened' = opened
        BY <1>1, <2>1 DEF AppendRow
  <2> HIDE DEF n
  <2>6. Distinct(rows')  BY <1>0, <2>3, <2>5 DEF HistoryInv, Distinct, Rows
  <2>7. ASSUME NEW V, V \in {view, opened}, Agrees(V, rows)  PROVE Agrees(V, rows')
        BY <1>0, <2>3, <2>4, <2>5, <2>7 DEF Agrees, Rows
  <2>8. \A r \in rows' \cup view' \cup opened' : r.id < born'
        BY <1>0, <2>3, <2>4, <2>5
  <2> QED BY <2>5, <2>6, <2>7, <2>8 DEF HistoryInv
<1>2. ASSUME NEW r \in rows, Rollback(r)  PROVE HistoryInv'
  <2>1. /\ rows' = {q \in rows : q.ordinal < r.ordinal} /\ born' = born
        /\ view' = view /\ opened' = opened
        BY <1>2 DEF Rollback
  <2>2. ASSUME NEW V, V \in {view, opened}, Agrees(V, rows)  PROVE Agrees(V, rows')
        BY <1>0, <2>1, <2>2 DEF Agrees, Rows
  <2> QED BY <2>1, <2>2 DEF HistoryInv, Distinct
<1>3. CASE DropTurn
      BY <1>3 DEF DropTurn, HistoryInv, Distinct, Agrees
<1> QED BY <1>1, <1>2, <1>3 DEF DesktopStep

\* A request sees the rows there are, and the first one is remembered.
LEMMA PageHistory == TypeOK /\ HistoryInv /\ PageStep => HistoryInv'
<1> SUFFICES ASSUME TypeOK, HistoryInv, PageStep  PROVE HistoryInv'
    OBVIOUS
<1> USE DEF desktopVars, HistoryInv
<1>1. CASE Begin
  <2>1. Agrees(rows, rows)  BY DEF Agrees
  <2> QED BY <1>1, <2>1 DEF Begin
<1>2. CASE EndList  BY <1>2 DEF EndList
<1>3. ASSUME NEW h \in Ordinals(view) \cup {-1}, Check(h)  PROVE HistoryInv'
  <2>1. Agrees(view, view)  BY DEF Agrees
  <2> QED BY <1>3, <2>1 DEF Check
<1>4. ASSUME NEW r \in view, TakeRow(r) \/ EndPage(r)  PROVE HistoryInv'
      BY <1>4 DEF TakeRow, EndPage
<1> QED BY <1>1, <1>2, <1>3, <1>4 DEF PageStep

-----------------------------------------------------------------------------
(* The pages follow one another.                                            *)

\* A row the statement selects comes after every row returned.
LEMMA NextRowFollows ==
  ASSUME TypeOK, AnchorInv, NEW r \in Rest, NEW i \in 1..Len(data)
  PROVE  Precedes(data[i], r)
<1>1. /\ data \in Seq(Rows) /\ Len(data) \in Nat /\ r \in Rows /\ anchor \in Rows \cup {NoRow}
      /\ data[i] \in Rows
      BY LenProperties, ElementOfSeq DEF TypeOK, Rest
<1>2. data # <<>> /\ anchor = data[Len(data)] /\ anchor # NoRow
      BY <1>1, LenProperties DEF AnchorInv
<1>3. Precedes(anchor, r)  BY <1>2 DEF Rest
<1>4. CASE i = Len(data)  BY <1>2, <1>3, <1>4
<1>5. CASE i < Len(data)
  <2>1. Precedes(data[i], anchor)  BY <1>1, <1>2, <1>5 DEF AnchorInv, PagesInOrder
  <2> QED BY <1>1, <1>2, <1>3, <2>1 DEF Precedes, Rows
<1> QED BY <1>1, <1>4, <1>5

\* Every step keeps the pages in order.
LEMMA NextAnchor == TypeOK /\ AnchorInv /\ [Next]_vars => AnchorInv'
<1> SUFFICES ASSUME TypeOK, AnchorInv, [Next]_vars  PROVE AnchorInv'
    OBVIOUS
<1>1. CASE UNCHANGED <<data, anchor, sort>>
      BY <1>1 DEF AnchorInv, PagesInOrder, Precedes
<1>2. ASSUME NEW r \in view, TakeRow(r)  PROVE AnchorInv'
  <2>1. r \in Rest /\ data' = Append(data, r) /\ anchor' = r /\ sort' = sort
        BY <1>2 DEF TakeRow, IsNext
  <2>2. r \in Rows /\ r # NoRow  BY DEF TypeOK, Rows, NoRow
  <2>3. /\ data' # <<>> /\ Len(data') = Len(data) + 1 /\ data'[Len(data')] = r
        /\ \A i \in 1..Len(data) : data'[i] = data[i]
        BY <2>1, ReturnRow
  <2>4. Len(data) \in Nat  BY LenProperties DEF TypeOK
  <2>5. ASSUME NEW i \in 1..Len(data'), NEW j \in 1..Len(data'), i < j
        PROVE Precedes(data[i], data'[j])
    <3>1. i \in 1..Len(data)  BY <2>3, <2>4, <2>5
    <3>2. CASE j = Len(data')  BY <3>1, <3>2, <2>1, <2>3, NextRowFollows
    <3>3. CASE j # Len(data')
          BY <3>1, <3>3, <2>3, <2>4, <2>5 DEF AnchorInv, PagesInOrder
    <3> QED BY <3>2, <3>3
  <2>6. PagesInOrder'
    <3>1. ASSUME NEW i \in 1..Len(data'), NEW j \in 1..Len(data'), i < j
          PROVE Precedes(data[i], data'[j]) /\ data'[i] = data[i]
          BY <2>3, <2>4, <2>5, <3>1
    <3> QED BY <3>1, <2>1 DEF PagesInOrder, Precedes
  <2> QED BY <2>1, <2>2, <2>3, <2>6 DEF AnchorInv
<1>3. [Next]_vars => UNCHANGED <<data, anchor, sort>> \/ \E r \in view : TakeRow(r)
      BY DEF Next, DesktopStep, PageStep, AppendRow, Rollback, DropTurn, Begin, Check,
             EndPage, EndList, vars, clientVars, desktopVars
<1> QED BY <1>1, <1>2, <1>3
\* The pages of a list follow one another in the order asked for, whatever the
\* desktop does between them.
THEOREM PagesFollow == Spec => []PagesInOrder
<1>1. Init => AnchorInv
      BY LenProperties, EmptySeq DEF Init, AnchorInv, PagesInOrder
<1>2. AnchorInv => PagesInOrder  BY DEF AnchorInv
<1> QED BY <1>1, <1>2, InitTypeOK, NextTypeOK, NextAnchor, PTL DEF Spec

-----------------------------------------------------------------------------
(* What has been returned is one history.                                   *)

\* The invariant speaks of the client only, and the desktop leaves it alone.
LEMMA ClientUnchanged ==
  ASSUME UNCHANGED clientVars
  PROVE  (ReturnedInv => ReturnedInv') /\ (OneHistory => OneHistory')
BY DEF clientVars, ReturnedInv, OneHistory, Returned, UpTo, Precedes

\* The first row of a list is the first of all.
LEMMA FirstRow ==
  ASSUME TypeOK, HistoryInv, AnchorInv, ReturnedInv, NEW r \in view, TakeRow(r), data = <<>>
  PROVE  ReturnedInv'
<1> DEFINE returned == Returned
<1>1. /\ view \in SUBSET Rows /\ opened \in SUBSET Rows /\ sort \in {"asc", "desc"}
      /\ anchor = NoRow /\ view = opened /\ Distinct(view)
      /\ r \in Rest /\ \A q \in Rest : ~Precedes(q, r)
      /\ \A q \in view : q.ordinal <= head
      BY DEF TypeOK, AnchorInv, ReturnedInv, HistoryInv, TakeRow, IsNext
<1>2. returned = {}
  <2>1. Len(data) = 0  BY EmptySeq
  <2> QED BY <2>1 DEF Returned
<1>3. /\ data' # <<>> /\ Returned' = returned \cup {r} /\ anchor' = r
      /\ UNCHANGED <<view, opened, sort, phase, head>>
      BY ReturnRow DEF TakeRow
<1> HIDE DEF returned
<1>4. \A q \in view : q # r => ~Precedes(q, r)
      BY <1>1 DEF Rest, Rows
<1>5. UpTo(r, view) = {r}  BY <1>1, <1>4 DEF UpTo
<1>6. UpTo(anchor, view)' = UpTo(r, view) /\ UpTo(anchor, opened)' = UpTo(r, view)
      BY <1>1, <1>3 DEF UpTo, Precedes
<1> QED BY <1>1, <1>2, <1>3, <1>5, <1>6 DEF ReturnedInv

\* Every further row is the one after the anchor.
LEMMA FurtherRow ==
  ASSUME TypeOK, HistoryInv, AnchorInv, ReturnedInv, NEW r \in view, TakeRow(r), data # <<>>
  PROVE  ReturnedInv'
<1> DEFINE returned == Returned
<1>1. /\ view \in SUBSET Rows /\ opened \in SUBSET Rows /\ sort \in {"asc", "desc"}
      /\ anchor \in Rows /\ anchor # NoRow /\ anchor \in view
      /\ Distinct(view) /\ Distinct(opened) /\ Agrees(opened, view)
      /\ \A q \in opened : q.ordinal <= head
      BY DEF TypeOK, AnchorInv, ReturnedInv, HistoryInv, TakeRow
<1>2. r \in Rest /\ Precedes(anchor, r) /\ r.ordinal <= head
      /\ \A q \in Rest : ~Precedes(q, r)
      BY <1>1 DEF TakeRow, IsNext, Rest
<1>3. /\ data' # <<>> /\ Returned' = returned \cup {r} /\ anchor' = r
      /\ UNCHANGED <<view, opened, sort, phase, head>>
      BY ReturnRow DEF TakeRow
<1> HIDE DEF returned
<1>4. CASE sort = "asc"
  <2>1. returned = UpTo(anchor, view)  BY <1>1, <1>4 DEF ReturnedInv, returned
  <2>2. UpTo(r, view) = UpTo(anchor, view) \cup {r}
    <3>1. ASSUME NEW q \in view, q.ordinal < r.ordinal, ~(q.ordinal < anchor.ordinal)
          PROVE q = anchor
      <4>1. q \notin Rest  BY <1>2, <1>4, <3>1 DEF Precedes
      <4>2. head \in Int /\ q \in Rows /\ r \in Rows  BY <1>1 DEF TypeOK
      <4>3. q.ordinal = anchor.ordinal
            BY <1>1, <1>2, <1>4, <3>1, <4>1, <4>2 DEF Precedes, Rest, Rows
      <4> QED BY <1>1, <4>3 DEF Distinct
    <3>2. \A q \in view : q.ordinal < anchor.ordinal => q.ordinal < r.ordinal
          BY <1>1, <1>2, <1>4 DEF Precedes, Rows
    <3> QED BY <1>1, <1>2, <1>4, <3>1, <3>2 DEF UpTo, Precedes
  <2>3. UpTo(anchor, view)' = UpTo(r, view)  BY <1>3 DEF UpTo, Precedes
  <2> QED BY <1>1, <1>2, <1>3, <1>4, <2>1, <2>2, <2>3 DEF ReturnedInv
<1>5. CASE sort = "desc"
  <2>1. anchor \in opened /\ returned = UpTo(anchor, opened)
        BY <1>1, <1>5 DEF ReturnedInv, returned
  <2>2. \A q : q.ordinal < anchor.ordinal => (q \in opened <=> q \in view)
        BY <1>1, <2>1 DEF Agrees
  <2>3. r \in opened  BY <1>1, <1>2, <1>5, <2>2 DEF Precedes
  <2>4. UpTo(r, opened) = UpTo(anchor, opened) \cup {r}
        BY <1>1, <1>2, <1>5, <2>1, <2>2, <2>3 DEF UpTo, Precedes, Rest, Distinct, Rows
  <2>5. UpTo(anchor, opened)' = UpTo(r, opened)  BY <1>3 DEF UpTo, Precedes
  <2> QED BY <1>1, <1>2, <1>3, <1>5, <2>1, <2>3, <2>4, <2>5 DEF ReturnedInv
<1> QED BY <1>1, <1>4, <1>5

\* A new request keeps what the pages before it established: if its view still
\* holds the anchor, it holds what precedes it.
LEMMA BeginReturned ==
  ASSUME TypeOK, HistoryInv, AnchorInv, ReturnedInv, Begin
  PROVE  ReturnedInv'
<1>1. /\ phase = "ask" /\ phase' \in {"begun", "missing"} /\ view' = rows
      /\ UNCHANGED <<sort, opened, head, anchor, data>>
      BY DEF Begin
<1>2. /\ rows \in SUBSET Rows /\ view \in SUBSET Rows
      /\ anchor = NoRow \/ anchor \in view
      /\ Distinct(rows) /\ Distinct(view) /\ Agrees(view, rows)
      BY <1>1 DEF TypeOK, HistoryInv, ReturnedInv
<1>3. ASSUME anchor \in rows, sort = "asc"  PROVE Returned' = UpTo(anchor, rows)
  <2>1. anchor \in view  BY <1>2, <1>3 DEF Rows, NoRow
  <2>2. Returned = UpTo(anchor, view)  BY <1>3, <2>1 DEF ReturnedInv
  <2>3. UpTo(anchor, rows) = UpTo(anchor, view)
        BY <1>2, <1>3, <2>1 DEF UpTo, Precedes, Agrees
  <2> QED BY <1>1, <2>2, <2>3 DEF Returned
<1>4. UpTo(anchor, view)' = UpTo(anchor, rows) /\ UpTo(anchor, opened)' = UpTo(anchor, opened)
      /\ Returned' = Returned
      BY <1>1 DEF UpTo, Precedes, Returned
<1> QED BY <1>1, <1>3, <1>4 DEF ReturnedInv

\* The end of the statement is the end of the history.
LEMMA EndIsComplete ==
  ASSUME TypeOK, HistoryInv, AnchorInv, ReturnedInv, EndList
  PROVE  OneHistory'
<1>1. /\ Rest = {} /\ phase = "reading"
      /\ UNCHANGED <<view, opened, head, sort, data>>
      BY PagesAssumption DEF EndList, TypeOK, Fetched
<1>2. /\ view \in SUBSET Rows /\ opened \in SUBSET Rows /\ sort \in {"asc", "desc"}
      /\ anchor \in Rows \cup {NoRow} /\ head \in Int
      /\ Distinct(view) /\ Distinct(opened) /\ Agrees(opened, view)
      /\ \A q \in opened : q.ordinal <= head
      BY <1>1 DEF TypeOK, HistoryInv, ReturnedInv
<1>3. Returned = IF sort = "desc" THEN opened ELSE {r \in view : r.ordinal <= head}
  <2>1. CASE anchor = NoRow
    <3>1. data = <<>> /\ view = opened  BY <1>1, <2>1 DEF AnchorInv, ReturnedInv
    <3>2. Returned = {}  BY <3>1, EmptySeq DEF Returned
    <3>3. {r \in view : r.ordinal <= head} = {}  BY <1>1, <2>1 DEF Rest
    <3> QED BY <1>2, <3>1, <3>2, <3>3
  <2>2. CASE anchor # NoRow /\ sort = "asc"
    <3>1. anchor \in view /\ Returned = UpTo(anchor, view) /\ anchor.ordinal <= head
          BY <1>1, <2>2 DEF ReturnedInv
    <3>2. ASSUME NEW q \in view, q.ordinal <= head  PROVE q \in UpTo(anchor, view)
      <4>1. ~(anchor.ordinal < q.ordinal)  BY <1>1, <2>2, <3>2 DEF Rest, Precedes
      <4> QED BY <1>2, <2>2, <3>1, <4>1 DEF UpTo, Precedes, Distinct, Rows
    <3>3. \A q \in UpTo(anchor, view) : q \in view /\ q.ordinal <= head
          BY <1>2, <2>2, <3>1 DEF UpTo, Precedes, Rows
    <3> QED BY <2>2, <3>1, <3>2, <3>3
  <2>3. CASE anchor # NoRow /\ sort = "desc"
    <3>1. anchor \in opened /\ anchor \in view /\ Returned = UpTo(anchor, opened)
          BY <1>1, <2>3 DEF ReturnedInv
    <3>2. ASSUME NEW q \in opened  PROVE q \in UpTo(anchor, opened)
      <4>1. ~(q.ordinal < anchor.ordinal)
            BY <1>1, <1>2, <2>3, <3>1, <3>2 DEF Agrees, Rest, Precedes
      <4> QED BY <1>2, <2>3, <3>1, <4>1 DEF UpTo, Precedes, Distinct, Rows
    <3>3. UpTo(anchor, opened) \subseteq opened  BY DEF UpTo
    <3> QED BY <2>3, <3>1, <3>2, <3>3
  <2> QED BY <1>2, <2>1, <2>2, <2>3
<1> QED BY <1>1, <1>3 DEF OneHistory, Returned

\* Every step keeps what was returned a part of one history.
LEMMA NextReturned ==
  TypeOK /\ HistoryInv /\ AnchorInv /\ ReturnedInv /\ OneHistory /\ [Next]_vars
    => ReturnedInv' /\ OneHistory'
<1> SUFFICES ASSUME TypeOK, HistoryInv, AnchorInv, ReturnedInv, OneHistory, [Next]_vars
             PROVE  ReturnedInv' /\ OneHistory'
    OBVIOUS
<1>1. CASE UNCHANGED clientVars  BY <1>1, ClientUnchanged
<1>2. CASE Begin
  <2>1. phase' # "done"  BY <1>2 DEF Begin
  <2> QED BY <1>2, <2>1, BeginReturned DEF OneHistory
<1>3. CASE EndList
  <2>1. /\ UNCHANGED <<sort, view, opened, head, anchor, data>>
        /\ phase = "reading" /\ phase' = "done"
        BY <1>3 DEF EndList
  <2>2. ReturnedInv'
        BY <2>1 DEF ReturnedInv, Returned, UpTo, Precedes
  <2> QED BY <1>3, <2>2, EndIsComplete
<1>4. ASSUME NEW h \in Ordinals(view) \cup {-1}, Check(h)
      PROVE  ReturnedInv' /\ OneHistory'
  <2>1. phase' # "done"  BY <1>4 DEF Check
  <2>2. CASE data = <<>>
    <3>1. /\ UNCHANGED <<sort, view, anchor, data>> /\ phase' = "reading"
          /\ opened' = view /\ head' = h /\ anchor = NoRow
          /\ \A r \in view : r.ordinal <= h
          BY <1>4, <2>2 DEF Check, IsHead, AnchorInv
    <3>2. NoRow \notin view  BY DEF TypeOK, Rows, NoRow
    <3>3. ReturnedInv'  BY <3>1, <3>2 DEF ReturnedInv
    <3> QED BY <2>1, <3>3 DEF OneHistory
  <2>3. CASE data # <<>>
    <3>1. /\ UNCHANGED <<sort, view, anchor, data, opened, head>>
          /\ phase' \in {"reading", "stale"} /\ (phase' = "reading" => anchor \in view)
          BY <1>4, <2>3 DEF Check, AnchorGone
    <3>2. ReturnedInv'
          BY <2>3, <3>1 DEF ReturnedInv, Returned, UpTo, Precedes
    <3> QED BY <2>1, <3>2 DEF OneHistory
  <2> QED BY <2>2, <2>3
<1>5. ASSUME NEW r \in view, TakeRow(r)  PROVE ReturnedInv' /\ OneHistory'
  <2>1. phase' # "done"  BY <1>5 DEF TakeRow
  <2> QED BY <1>5, <2>1, FirstRow, FurtherRow DEF OneHistory
<1>6. ASSUME NEW r \in view, EndPage(r)  PROVE ReturnedInv' /\ OneHistory'
  <2>1. /\ UNCHANGED <<sort, view, opened, head, anchor, data>>
        /\ phase = "reading" /\ phase' = "ask"
        BY <1>6 DEF EndPage
  <2>2. ReturnedInv'
        BY <2>1 DEF ReturnedInv, Returned, UpTo, Precedes
  <2> QED BY <2>1, <2>2 DEF OneHistory
<1>7. DesktopStep \/ UNCHANGED vars => UNCHANGED clientVars
      BY DEF DesktopStep, AppendRow, Rollback, DropTurn, vars
<1> QED BY <1>1, <1>2, <1>3, <1>4, <1>5, <1>6, <1>7 DEF Next, PageStep

\* A list that was read to its end is one history the thread really had, with
\* no gap and no row of another, although every page reads another state.
THEOREM CompleteLists == Spec => []OneHistory
<1> DEFINE IInv == TypeOK /\ HistoryInv /\ AnchorInv /\ ReturnedInv /\ OneHistory
<1>1. Init => IInv
  <2>1. ASSUME Init  PROVE HistoryInv
        BY <2>1 DEF Init, HistoryInv, Distinct, Agrees
  <2>2. ASSUME Init  PROVE AnchorInv
        BY <2>2, EmptySeq, LenProperties DEF Init, AnchorInv, PagesInOrder
  <2>3. ASSUME Init  PROVE ReturnedInv /\ OneHistory
        BY <2>3 DEF Init, ReturnedInv, OneHistory
  <2> QED BY <2>1, <2>2, <2>3, InitTypeOK
<1>2. HistoryInv /\ UNCHANGED vars => HistoryInv'
      BY DEF HistoryInv, Distinct, Agrees, vars, desktopVars, clientVars
<1>3. IInv /\ [Next]_vars => IInv'
      BY <1>2, NextTypeOK, DesktopHistory, PageHistory, NextAnchor, NextReturned DEF Next
<1> QED BY <1>1, <1>3, PTL DEF Spec
=============================================================================
