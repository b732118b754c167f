-------------------------- MODULE LocalReadsProofs ---------------------------
(***************************************************************************)
(* What is read from the local database while the desktop writes it: the   *)
(* chunks of an item belong to one version of its text, for any chunk size *)
(* and any texts; a listing misses no more rows than fell out of the pages *)
(* already read, for any table, any limits and any number of writes.       *)
(***************************************************************************)
EXTENDS ItemContent, DesktopCatalog, SequenceTheorems, FiniteSetTheorems, TLAPS

\* The cursor stands where the last chunk ended, in its version; it is passed
\* back only while text is left.
CursorInv ==
  /\ chunks = <<>> <=> cursor = NoCursor
  /\ chunks # <<>> =>
       /\ cursor.offset = EndOf(chunks[Len(chunks)])
       /\ \A i \in 1..Len(chunks) : chunks[i].version = cursor.version
  /\ chunks # <<>> /\ phase \in {"ask", "done"} => cursor.offset <= cursor.length
  /\ phase = "begun" => view \in Items
  /\ phase = "done" => cursor.version = view.version /\ cursor.offset = view.length
  /\ phase \in {"ask", "begun"} => \A i \in 1..Len(chunks) : chunks[i].size > 0

ContentInv == TypeOK /\ CursorInv /\ OneText

-----------------------------------------------------------------------------
\* Nothing is read at the start.
LEMMA InitContent == Init => ContentInv
<1> SUFFICES ASSUME Init  PROVE ContentInv
    OBVIOUS
<1>1. chunks = <<>> /\ cursor = NoCursor /\ phase = "ask" /\ view = Gone
      /\ Len(chunks) = 0 /\ chunks \in Seq(Chunks)
      BY EmptySeq DEF Init
<1>2. item \in Items  BY ContentAssumption DEF Init, Items
<1>3. TypeOK  BY <1>1, <1>2 DEF TypeOK
<1>4. CursorInv  BY <1>1 DEF CursorInv
<1>5. OneText  BY <1>1 DEF OneText
<1> QED BY <1>3, <1>4, <1>5 DEF ContentInv

\* The desktop does not touch what the client has.
LEMMA DesktopContent == ContentInv /\ DesktopStep => ContentInv'
<1> SUFFICES ASSUME ContentInv, DesktopStep  PROVE ContentInv'
    OBVIOUS
<1>1. /\ item' \in Items \cup {Gone}
      /\ UNCHANGED <<phase, view, cursor, chunks>>
      BY ContentAssumption
      DEF ContentInv, TypeOK, DesktopStep, Remove, Rewrite, Items, Gone
<1> QED BY <1>1 DEF ContentInv, TypeOK, CursorInv, OneText

\* A chunk that is returned continues the ones before it.
LEMMA ChunkContinues == ContentInv /\ ReturnChunk => ContentInv'
<1> SUFFICES ASSUME ContentInv, ReturnChunk  PROVE ContentInv'
    OBVIOUS
<1> DEFINE from == Offset
           c == [version |-> view.version, offset |-> from, size |-> Size(from)]
           L == Len(chunks)
<1>1. /\ view \in Items /\ chunks \in Seq(Chunks) /\ L \in Nat
      /\ cursor \in Cursors \cup {NoCursor}
      BY LenProperties DEF ContentInv, TypeOK, CursorInv, ReturnChunk
<1>2. view.version \in Nat /\ view.length \in Nat  BY <1>1 DEF Items
<1>3. from \in Nat /\ from <= view.length
      BY <1>1, <1>2 DEF Offset, ReturnChunk, CursorFits, Cursors
<1>4. /\ Size(from) \in Nat /\ from + Size(from) <= view.length
      /\ from < view.length => Size(from) > 0
      BY <1>2, <1>3, ContentAssumption DEF Size
<1>5. /\ cursor' = [version |-> view.version, length |-> view.length,
                    offset |-> from + Size(from)]
      /\ chunks' = Append(chunks, c) /\ view' = view /\ item' = item
      /\ phase' = IF from + Size(from) < view.length THEN "ask" ELSE "done"
      BY DEF ReturnChunk, TextLeft
<1>6. c \in Chunks /\ c.version = view.version /\ c.offset = from /\ c.size = Size(from)
      /\ EndOf(c) = from + Size(from)
      BY <1>2, <1>3, <1>4 DEF Chunks, EndOf
<1>7. cursor' \in Cursors /\ cursor' # NoCursor
      /\ cursor'.version = view.version /\ cursor'.length = view.length
      /\ cursor'.offset = from + Size(from)
      BY <1>2, <1>3, <1>4, <1>5 DEF Cursors, NoCursor
<1> HIDE DEF from, c
<1>8. /\ chunks' \in Seq(Chunks) /\ Len(chunks') = L + 1 /\ chunks'[L + 1] = c
      /\ \A i \in 1..L : chunks'[i] = chunks[i]
      /\ chunks' # <<>>
      BY <1>1, <1>5, <1>6, AppendProperties, EmptySeq
<1>9. L > 0 => /\ from = EndOf(chunks[L])
               /\ \A i \in 1..L : chunks[i].version = view.version /\ chunks[i].size > 0
               /\ chunks[1].offset = 0
  <2>1. L > 0 => chunks # <<>>  BY <1>1, EmptySeq
  <2>2. chunks # <<>> => cursor # NoCursor /\ cursor.version = view.version
        BY DEF ContentInv, CursorInv, ReturnChunk, CursorFits
  <2>3. phase = "begun"  BY DEF ReturnChunk
  <2> QED BY <1>1, <2>1, <2>2, <2>3 DEF ContentInv, CursorInv, OneText, Offset, from
<1>10. L = 0 => from = 0
  <2>1. L = 0 => chunks = <<>>  BY <1>1, EmptySeq
  <2> QED BY <2>1 DEF ContentInv, CursorInv, Offset, from
<1>11. \A i \in 1..Len(chunks') :
         /\ chunks'[i].version = view.version
         /\ i = L + 1 \/ (i \in 1..L /\ chunks[i].size > 0)
       BY <1>1, <1>6, <1>8, <1>9
<1>12. TypeOK'  BY <1>5, <1>7, <1>8 DEF ContentInv, TypeOK
<1>13. CursorInv'
  <2>1. phase' = "ask" => Size(from) > 0
        BY <1>2, <1>3, <1>4, <1>5
  <2>2. phase' = "done" => from + Size(from) = view.length
        BY <1>2, <1>3, <1>4, <1>5
  <2>3. phase' \in {"ask", "done"} /\ view' = view  BY <1>5
  <2>4. \A i \in 1..Len(chunks') : phase' = "ask" => chunks'[i].size > 0
        BY <1>1, <1>6, <1>8, <1>11, <2>1
  <2>5. EndOf(chunks[Len(chunks)])' = from + Size(from)  BY <1>1, <1>6, <1>8
  <2> QED BY <1>4, <1>7, <1>8, <1>11, <2>2, <2>3, <2>4, <2>5 DEF CursorInv
<1>14. OneText'
  <2>1. chunks'[1].offset = 0
        BY <1>1, <1>6, <1>8, <1>9, <1>10
  <2>2. \A i \in 1..Len(chunks') : i + 1 \in 1..Len(chunks') =>
          chunks'[i + 1].offset = EndOf(chunks'[i])
    <3> SUFFICES ASSUME NEW i \in 1..Len(chunks'), i + 1 \in 1..Len(chunks')
                 PROVE  chunks'[i + 1].offset = EndOf(chunks'[i])
        OBVIOUS
    <3>1. i \in 1..L  BY <1>1, <1>8
    <3>2. CASE i = L  BY <1>1, <1>6, <1>8, <1>9, <3>1, <3>2
    <3>3. CASE i < L
          BY <1>1, <1>8, <3>1, <3>3 DEF ContentInv, OneText
    <3> QED BY <1>1, <3>1, <3>2, <3>3
  <2>3. phase' = "done" => EndOf(chunks'[Len(chunks')]) = view.length
    <3>1. phase' = "done" => from + Size(from) = view.length
          BY <1>2, <1>3, <1>4, <1>5
    <3> QED BY <1>1, <1>6, <1>8, <3>1
  <2> QED BY <1>1, <1>5, <1>8, <1>11, <2>1, <2>2, <2>3 DEF OneText, EndOf
<1> QED BY <1>12, <1>13, <1>14 DEF ContentInv

\* Every step keeps the invariant.
LEMMA NextContent == ContentInv /\ [Next]_vars => ContentInv'
<1> SUFFICES ASSUME ContentInv, [Next]_vars  PROVE ContentInv'
    OBVIOUS
<1>1. CASE Begin
  <2>1. phase = "ask" /\ phase' \in {"missing", "begun"} /\ view' = item
        /\ (phase' = "begun" => item # Gone)
        /\ UNCHANGED <<item, cursor, chunks>>
        BY <1>1 DEF Begin
  <2> QED BY <2>1 DEF ContentInv, TypeOK, CursorInv, OneText
<1>2. CASE RefuseStale
  <2>1. phase = "begun" /\ phase' = "stale" /\ UNCHANGED <<item, view, cursor, chunks>>
        BY <1>2 DEF RefuseStale
  <2> QED BY <2>1 DEF ContentInv, TypeOK, CursorInv, OneText
<1>3. CASE UNCHANGED vars
      BY <1>3 DEF vars, ContentInv, TypeOK, CursorInv, OneText
<1> QED BY <1>1, <1>2, <1>3, DesktopContent, ChunkContinues DEF Next, ReadStep

\* Every variable of the model keeps its type.
THEOREM TypeCorrect == Spec => []TypeOK
<1>1. ContentInv => TypeOK  BY DEF ContentInv
<1> QED BY <1>1, InitContent, NextContent, PTL DEF Spec

\* The chunks of a reading are one version's text, however often the desktop
\* rewrites the item in between.
THEOREM ChunksOfOneText == Spec => []OneText
<1>1. ContentInv => OneText  BY DEF ContentInv
<1> QED BY <1>1, InitContent, NextContent, PTL DEF Spec

\* A reading makes progress with every request.
THEOREM ChunksAdvance == Spec => []EveryChunkAdvances
<1>1. ContentInv => EveryChunkAdvances  BY DEF ContentInv, CursorInv, EveryChunkAdvances
<1> QED BY <1>1, InitContent, NextContent, PTL DEF Spec

-----------------------------------------------------------------------------
(* The catalog (module DesktopCatalog): listings read page after page.      *)

\* The rows at the first n places of a listing.
FirstOf(q, n) == {q[i] : i \in {k \in 1..Len(q) : k <= n}}

\* Rows nobody wrote that the pages read so far have passed over.
Skipped == (FirstOf(table, next) \ moved) \ listed

\* A page passes over at most the rows that fell out of the places before it.
CatalogInv ==
  /\ CatalogTypeOK /\ fallen <= writes
  /\ next # End => Cardinality(Skipped) <= fallen
  /\ MissedOnlyForTheFallen

\* w is the listing q with the row r taken out, if it was in it.
RemovedFrom(q, r, w) ==
  \/ w = q /\ \A i \in 1..Len(q) : q[i] # r
  \/ \E p \in 1..Len(q) :
       /\ q[p] = r /\ Len(w) = Len(q) - 1
       /\ \A j \in 1..Len(w) : w[j] = IF j < p THEN q[j] ELSE q[j + 1]

\* A listing is a sequence of different rows, no longer than there are rows.
LEMMA ListingFacts ==
  ASSUME NEW q \in Listings
  PROVE  /\ q \in Seq(Rows) /\ Len(q) \in Nat /\ Len(q) <= Cardinality(Rows)
         /\ \A i, j \in 1..Len(q) : q[i] = q[j] => i = j
<1>0. Cardinality(Rows) \in Nat  BY CatalogAssumption, FS_CardinalityType
<1>1. PICK n \in 0..Cardinality(Rows) : q \in [1..n -> Rows]  BY DEF Listings
<1>2. n \in Nat /\ n <= Cardinality(Rows)  BY <1>0
<1>3. q \in Seq(Rows) /\ Len(q) = n  BY <1>1, <1>2
<1>4. \A i, j \in DOMAIN q : q[i] = q[j] => i = j  BY DEF Listings
<1> QED BY <1>1, <1>2, <1>3, <1>4

\* A sequence of different rows is a listing: it cannot be longer than there are rows.
LEMMA IsListing ==
  ASSUME NEW q \in Seq(Rows), \A i, j \in 1..Len(q) : q[i] = q[j] => i = j
  PROVE  q \in Listings
<1> DEFINE n == Len(q)
<1>1. n \in Nat /\ q \in [1..n -> Rows]  OBVIOUS
<1>2. q \in Injection(1..n, Rows)  BY <1>1 DEF Injection, IsInjective
<1> HIDE DEF n
<1>3. Cardinality(1..n) <= Cardinality(Rows)  BY <1>2, CatalogAssumption, FS_Injection
<1>4. Cardinality(1..n) = n  BY <1>1, FS_Interval
<1>5. Cardinality(Rows) \in Nat  BY CatalogAssumption, FS_CardinalityType
<1>6. n \in 0..Cardinality(Rows)  BY <1>1, <1>3, <1>4, <1>5
<1>7. q \in UNION {[1..m -> Rows] : m \in 0..Cardinality(Rows)}  BY <1>1, <1>6
<1> QED BY <1>1, <1>7 DEF Listings, n

\* Taking a row out of a listing leaves a listing it is not in.
LEMMA RemovedIsListing ==
  ASSUME NEW q \in Listings, NEW r, NEW w \in Seq(Rows), RemovedFrom(q, r, w)
  PROVE  w \in Listings /\ \A i \in 1..Len(w) : w[i] # r
<1>1. /\ Len(q) \in Nat /\ Len(w) \in Nat
      /\ \A i, j \in 1..Len(q) : q[i] = q[j] => i = j
      BY ListingFacts
<1>2. CASE w = q /\ \A i \in 1..Len(q) : q[i] # r  BY <1>2
<1>3. ASSUME NEW p \in 1..Len(q), q[p] = r, Len(w) = Len(q) - 1,
             \A j \in 1..Len(w) : w[j] = IF j < p THEN q[j] ELSE q[j + 1]
      PROVE  w \in Listings /\ \A i \in 1..Len(w) : w[i] # r
  <2> DEFINE was(i) == IF i < p THEN i ELSE i + 1
  <2>1. \A i \in 1..Len(w) : was(i) \in 1..Len(q) /\ was(i) # p /\ w[i] = q[was(i)]  BY <1>1, <1>3
  <2>2. \A i, j \in 1..Len(w) : was(i) = was(j) => i = j  BY <1>1, <1>3
  <2> HIDE DEF was
  <2>3. \A i, j \in 1..Len(w) : w[i] = w[j] => i = j  BY <1>1, <2>1, <2>2
  <2>4. \A i \in 1..Len(w) : w[i] # r  BY <1>1, <1>3, <2>1
  <2> QED BY <2>3, <2>4, IsListing
<1> QED BY <1>2, <1>3 DEF RemovedFrom

\* The table without a row is the table with that row taken out.
LEMMA WithoutRemoves ==
  ASSUME table \in Listings, NEW r \in Rows
  PROVE  Without(r) \in Seq(Rows) /\ RemovedFrom(table, r, Without(r))
<1> DEFINE n == Len(table)
<1>1. table \in Seq(Rows) /\ n \in Nat  BY ListingFacts
<1>2. r \in RowsAt(0, n) <=> \E j \in 1..n : table[j] = r  BY <1>1 DEF RowsAt
<1>3. CASE ~(\E j \in 1..n : table[j] = r)
      BY <1>1, <1>2, <1>3 DEF Without, RemovedFrom
<1>4. CASE \E j \in 1..n : table[j] = r
  <2> DEFINE p == CHOOSE j \in 1..n : table[j] = r
             front == SubSeq(table, 1, p - 1)
             back == SubSeq(table, p + 1, n)
  <2>1. p \in 1..n /\ table[p] = r  BY <1>4
  <2>2. Without(r) = front \o back  BY <1>2, <1>4 DEF Without
  <2> HIDE DEF p
  <2>3. /\ front \in Seq(Rows) /\ Len(front) = p - 1
        /\ \A j \in 1..(p - 1) : front[j] = table[j]
        BY <1>1, <2>1
  <2>4. /\ back \in Seq(Rows) /\ Len(back) = n - p
        /\ \A j \in 1..(n - p) : back[j] = table[p + j]
        BY <1>1, <2>1
  <2> HIDE DEF front, back
  <2>5. /\ front \o back \in Seq(Rows) /\ Len(front \o back) = n - 1
        /\ \A j \in 1..(n - 1) : (front \o back)[j] = IF j <= p - 1 THEN front[j] ELSE back[j - (p - 1)]
    <3>1. /\ front \o back \in Seq(Rows) /\ Len(front \o back) = Len(front) + Len(back)
          /\ \A j \in 1..(Len(front) + Len(back)) :
               (front \o back)[j] = IF j <= Len(front) THEN front[j] ELSE back[j - Len(front)]
          BY <2>3, <2>4, ConcatProperties
    <3>2. Len(front) + Len(back) = n - 1  BY <1>1, <2>1, <2>3, <2>4
    <3> QED BY <2>3, <3>1, <3>2
  <2>6. ASSUME NEW j \in 1..(n - 1)
        PROVE  (front \o back)[j] = IF j < p THEN table[j] ELSE table[j + 1]
    <3>1. CASE j < p
      <4>1. j \in 1..(p - 1) /\ j <= p - 1  BY <1>1, <2>1, <3>1
      <4> QED BY <2>3, <2>5, <3>1, <4>1
    <3>2. CASE ~(j < p)
      <4>1. j - (p - 1) \in 1..(n - p) /\ p + (j - (p - 1)) = j + 1 /\ ~(j <= p - 1)
            BY <1>1, <2>1, <3>2
      <4> QED BY <2>4, <2>5, <3>2, <4>1
    <3> QED BY <3>1, <3>2
  <2> HIDE DEF n
  <2>7. \E q \in 1..n : /\ table[q] = r /\ Len(Without(r)) = n - 1
                        /\ \A j \in 1..Len(Without(r)) :
                             Without(r)[j] = IF j < q THEN table[j] ELSE table[j + 1]
        BY <2>1, <2>2, <2>5, <2>6
  <2> QED BY <2>2, <2>5, <2>7 DEF RemovedFrom, n
<1> QED BY <1>3, <1>4

\* A row put into a listing without it makes a listing, from which taking it out
\* gives the first again.
LEMMA WithInserts ==
  ASSUME NEW w \in Listings, NEW r \in Rows, \A j \in 1..Len(w) : w[j] # r,
         NEW i \in 1..(Len(w) + 1)
  PROVE  With(w, r, i) \in Listings /\ RemovedFrom(With(w, r, i), r, w)
<1> DEFINE n == Len(w)
           front == SubSeq(w, 1, i - 1)
           back == SubSeq(w, i, n)
           s == front \o <<r>> \o back
<1>1. /\ w \in Seq(Rows) /\ n \in Nat
      /\ \A j, k \in 1..n : w[j] = w[k] => j = k
      BY ListingFacts
<1>2. /\ front \in Seq(Rows) /\ Len(front) = i - 1
      /\ \A j \in 1..(i - 1) : front[j] = w[j]
      BY <1>1
<1>3. /\ back \in Seq(Rows) /\ Len(back) = n - i + 1
      /\ \A j \in 1..(n - i + 1) : back[j] = w[i + j - 1]
      BY <1>1
<1> HIDE DEF front, back, n
<1>4. /\ front \o <<r>> \in Seq(Rows) /\ Len(front \o <<r>>) = i
      /\ \A j \in 1..i : (front \o <<r>>)[j] = IF j < i THEN w[j] ELSE r
  <2>1. <<r>> \in Seq(Rows) /\ Len(<<r>>) = 1 /\ <<r>>[1] = r  OBVIOUS
  <2>2. /\ front \o <<r>> \in Seq(Rows) /\ Len(front \o <<r>>) = Len(front) + 1
        /\ \A j \in 1..(Len(front) + 1) :
             (front \o <<r>>)[j] = IF j <= Len(front) THEN front[j] ELSE <<r>>[j - Len(front)]
        BY <1>2, <2>1, ConcatProperties
  <2>3. i \in Nat /\ i >= 1  BY <1>1 DEF n
  <2>4. ASSUME NEW j \in 1..i  PROVE (front \o <<r>>)[j] = IF j < i THEN w[j] ELSE r
    <3>1. CASE j < i
      <4>1. j \in 1..(i - 1) /\ j <= i - 1  BY <2>3, <3>1
      <4> QED BY <1>2, <2>2, <2>3, <3>1, <4>1
    <3>2. CASE ~(j < i)
      <4>1. j = i /\ j - (i - 1) = 1 /\ ~(j <= i - 1)  BY <2>3, <3>2
      <4> QED BY <1>2, <2>1, <2>2, <2>3, <4>1
    <3> QED BY <3>1, <3>2
  <2> QED BY <1>2, <2>2, <2>3, <2>4
<1>5. /\ s \in Seq(Rows) /\ Len(s) = n + 1
      /\ \A j \in 1..(n + 1) : s[j] = IF j < i THEN w[j] ELSE IF j = i THEN r ELSE w[j - 1]
  <2> DEFINE a == front \o <<r>>
  <2>0. a \in Seq(Rows) /\ Len(a) = i /\ \A j \in 1..i : a[j] = IF j < i THEN w[j] ELSE r  BY <1>4
  <2> HIDE DEF a
  <2>1. /\ a \o back \in Seq(Rows) /\ Len(a \o back) = Len(a) + Len(back)
        /\ \A j \in 1..(Len(a) + Len(back)) :
             (a \o back)[j] = IF j <= Len(a) THEN a[j] ELSE back[j - Len(a)]
        BY <1>3, <2>0, ConcatProperties
  <2>2. i \in 1..(n + 1) /\ Len(a) + Len(back) = n + 1  BY <1>1, <1>3, <2>0 DEF n
  <2>3. ASSUME NEW j \in 1..(n + 1)
        PROVE  (a \o back)[j] = IF j < i THEN w[j] ELSE IF j = i THEN r ELSE w[j - 1]
    <3>1. CASE j <= i
      <4>1. j \in 1..i  BY <1>1, <2>2, <3>1
      <4> QED BY <1>1, <2>0, <2>1, <2>2, <3>1, <4>1
    <3>2. CASE j > i
      <4>1. j - i \in 1..(n - i + 1) /\ i + (j - i) - 1 = j - 1 /\ ~(j <= i) /\ ~(j < i) /\ j # i
            BY <1>1, <2>2, <3>2
      <4> QED BY <1>3, <2>0, <2>1, <2>2, <4>1
    <3> QED BY <1>1, <2>2, <3>1, <3>2
  <2>4. s = a \o back  BY DEF a
  <2> QED BY <2>1, <2>2, <2>3, <2>4
<1>6. With(w, r, i) = s  BY DEF With, front, back, n
<1> HIDE DEF s
<1>7. i \in 1..(n + 1) /\ \A j \in 1..n : w[j] # r  BY DEF n
<1>8. RemovedFrom(s, r, w)
  <2>1. i \in 1..Len(s) /\ s[i] = r /\ Len(w) = Len(s) - 1  BY <1>1, <1>5, <1>7 DEF n
  <2>2. ASSUME NEW j \in 1..Len(w)  PROVE w[j] = IF j < i THEN s[j] ELSE s[j + 1]
    <3>1. j \in 1..n  BY DEF n
    <3>2. j \in 1..(n + 1) /\ j + 1 \in 1..(n + 1) /\ (j + 1) - 1 = j  BY <1>1, <3>1
    <3>3. CASE j < i  BY <1>5, <3>2, <3>3
    <3>4. CASE ~(j < i)
      <4>1. ~(j + 1 < i) /\ j + 1 # i  BY <1>1, <1>7, <3>1, <3>4
      <4> QED BY <1>5, <3>2, <3>4, <4>1
    <3> QED BY <3>3, <3>4
  <2> QED BY <2>1, <2>2 DEF RemovedFrom
<1>9. s \in Listings
  <2> DEFINE from(j) == IF j < i THEN j ELSE j - 1
  <2>1. \A j \in 1..(n + 1) : j # i => from(j) \in 1..n /\ s[j] = w[from(j)]  BY <1>1, <1>5, <1>7
  <2>2. \A j, k \in 1..(n + 1) : j # i /\ k # i /\ from(j) = from(k) => j = k  BY <1>1, <1>7
  <2> HIDE DEF from
  <2>3. s[i] = r  BY <1>1, <1>5, <1>7
  <2>4. \A j, k \in 1..(n + 1) : s[j] = s[k] => j = k  BY <1>1, <1>7, <2>1, <2>2, <2>3
  <2> QED BY <1>5, <2>4, IsListing
<1> QED BY <1>6, <1>8, <1>9

\* The rows read so far, but for the one that is written, are the first of those
\* that remain: one place less when the written row was among them.
LEMMA ReadSoFar ==
  ASSUME NEW q \in Seq(Rows), NEW r, NEW w \in Seq(Rows), RemovedFrom(q, r, w), next \in Nat,
         \A i, j \in 1..Len(q) : q[i] = q[j] => i = j
  PROVE  FirstOf(q, next) \ {r} = FirstOf(w, IF Before(q, r) THEN next - 1 ELSE next)
<1> DEFINE n == Len(q)
           m == Len(w)
<1>1. n \in Nat /\ m \in Nat  OBVIOUS
<1>2. Before(q, r) <=> \E i \in 1..n : i <= next /\ q[i] = r  BY <1>1 DEF Before
<1>3. CASE w = q /\ \A i \in 1..n : q[i] # r  BY <1>2, <1>3 DEF FirstOf
<1>4. ASSUME NEW p \in 1..n, q[p] = r, m = n - 1,
             \A j \in 1..m : w[j] = IF j < p THEN q[j] ELSE q[j + 1]
      PROVE  FirstOf(q, next) \ {r} = FirstOf(w, IF Before(q, r) THEN next - 1 ELSE next)
  <2> DEFINE k == IF Before(q, r) THEN next - 1 ELSE next
  <2>1. Before(q, r) <=> p <= next  BY <1>2, <1>4
  <2>2. \A i \in 1..n : q[i] = r => i = p  BY <1>4
  <2> HIDE DEF n, m
  <2>3. ASSUME NEW x \in FirstOf(q, next), x # r  PROVE x \in FirstOf(w, k)
    <3>1. PICK i \in 1..n : i <= next /\ x = q[i]  BY <2>3 DEF FirstOf, n
    <3>2. i # p  BY <1>4, <2>3, <3>1
    <3>3. CASE i < p
      <4>1. i \in 1..m /\ w[i] = q[i]  BY <1>1, <1>4, <3>1, <3>3
      <4>2. i <= k  BY <1>1, <1>4, <2>1, <3>1, <3>3
      <4> QED BY <3>1, <4>1, <4>2 DEF FirstOf, m
    <3>4. CASE i > p
      <4>1. i - 1 \in 1..m /\ ~(i - 1 < p) /\ (i - 1) + 1 = i  BY <1>1, <1>4, <3>1, <3>4
      <4>2. w[i - 1] = q[i]  BY <1>4, <4>1
      <4>3. i - 1 <= k  BY <1>1, <1>4, <2>1, <3>1, <3>4
      <4> HIDE DEF k
      <4> QED BY <3>1, <4>1, <4>2, <4>3 DEF FirstOf, m
    <3> QED BY <1>1, <3>2, <3>3, <3>4
  <2>4. ASSUME NEW x \in FirstOf(w, k)  PROVE x \in FirstOf(q, next) /\ x # r
    <3>1. PICK j \in 1..m : j <= k /\ x = w[j]  BY <2>4 DEF FirstOf, m
    <3>2. CASE j < p
      <4>1. j \in 1..n /\ j # p /\ x = q[j]  BY <1>1, <1>4, <3>1, <3>2
      <4>2. j <= next  BY <1>1, <3>1
      <4> QED BY <2>2, <4>1, <4>2 DEF FirstOf, n
    <3>3. CASE ~(j < p)
      <4>1. j + 1 \in 1..n /\ j + 1 # p  BY <1>1, <1>4, <3>1, <3>3
      <4>2. x = q[j + 1]  BY <1>4, <3>1, <3>3
      <4>3. j + 1 <= next  BY <1>1, <1>4, <2>1, <3>1, <3>3
      <4> QED BY <2>2, <4>1, <4>2, <4>3 DEF FirstOf, n
    <3> QED BY <3>2, <3>3
  <2> QED BY <2>3, <2>4
<1> QED BY <1>3, <1>4 DEF RemovedFrom

\* A write makes the pages read so far pass over at most one row more, and counts
\* that one when a row has fallen out of them.
LEMMA WriteKeepsCatalog ==
  ASSUME CatalogInv, NEW r \in Rows, NEW s \in Listings, NEW w \in Listings,
         RemovedFrom(table, r, w), RemovedFrom(s, r, w), Writes(r, s)
  PROVE  CatalogInv'
<1>1. /\ writes < MaxWrites /\ next # End /\ writes' = writes + 1 /\ table' = s
      /\ moved' = moved \cup {r} /\ UNCHANGED <<order, next, listed>>
      /\ fallen' = IF Before(table, r) /\ ~Before(s, r) THEN fallen + 1 ELSE fallen
      BY DEF Writes
<1>2. /\ table \in Listings /\ listed \subseteq Rows /\ moved \subseteq Rows
      /\ order \in {"first", "last", "any"}
      /\ fallen \in Nat /\ writes \in Nat /\ fallen <= writes /\ MaxWrites \in Nat
      /\ next \in {End, 0} \cup 1..(Cardinality(Rows) - 1)
      BY CatalogAssumption DEF CatalogInv, CatalogTypeOK
<1>3. next \in Nat
  <2>1. Cardinality(Rows) \in Nat  BY CatalogAssumption, FS_CardinalityType
  <2> QED BY <1>1, <1>2, <2>1
<1>4. CatalogTypeOK' /\ (fallen <= writes)'
  <2>1. writes' \in 0..MaxWrites /\ fallen' \in 0..MaxWrites /\ fallen' <= writes'  BY <1>1, <1>2
  <2> QED BY <1>1, <1>2, <2>1 DEF CatalogTypeOK
<1>5. MissedOnlyForTheFallen'  BY <1>1 DEF MissedOnlyForTheFallen
<1>6. /\ FirstOf(table, next) \ {r} = FirstOf(w, IF Before(table, r) THEN next - 1 ELSE next)
      /\ FirstOf(s, next) \ {r} = FirstOf(w, IF Before(s, r) THEN next - 1 ELSE next)
  <2>1. /\ table \in Seq(Rows) /\ s \in Seq(Rows) /\ w \in Seq(Rows)
        /\ \A i, j \in 1..Len(table) : table[i] = table[j] => i = j
        /\ \A i, j \in 1..Len(s) : s[i] = s[j] => i = j
        BY <1>2, ListingFacts
  <2> QED BY <1>3, <2>1, ReadSoFar
<1>7. /\ FirstOf(w, next - 1) \subseteq FirstOf(w, next)
      /\ FirstOf(w, next) \subseteq FirstOf(w, next - 1) \cup {w[next]}
  <2>1. Len(w) \in Nat  BY ListingFacts
  <2>2. \A k \in 1..Len(w) : (k <= next - 1 => k <= next) /\ (k <= next => k <= next - 1 \/ k = next)
        BY <1>3, <2>1
  <2> QED BY <2>2 DEF FirstOf
<1>8. /\ IsFiniteSet(Skipped) /\ IsFiniteSet(Skipped') /\ Cardinality(Skipped) \in Nat
      /\ Cardinality(Skipped') \in Nat /\ Cardinality(Skipped) <= fallen
  <2>1. Skipped \subseteq Rows
    <3>1. table \in Seq(Rows)  BY <1>2, ListingFacts
    <3> QED BY <3>1 DEF Skipped, FirstOf
  <2>2. Skipped' \subseteq Rows
    <3>1. s \in Seq(Rows)  BY ListingFacts
    <3> QED BY <1>1, <3>1 DEF Skipped, FirstOf
  <2>3. IsFiniteSet(Skipped) /\ IsFiniteSet(Skipped')  BY <2>1, <2>2, CatalogAssumption, FS_Subset
  <2> QED BY <1>1, <2>3, FS_CardinalityType DEF CatalogInv
<1>9. Skipped' = ((FirstOf(s, next) \ {r}) \ moved) \ listed  BY <1>1 DEF Skipped, FirstOf
<1>10. ((FirstOf(table, next) \ {r}) \ moved) \ listed \subseteq Skipped  BY DEF Skipped
<1>11. CASE Before(table, r) /\ ~Before(s, r)
  <2>1. Skipped' \subseteq Skipped \cup {w[next]}  BY <1>6, <1>7, <1>9, <1>10, <1>11
  <2>2. IsFiniteSet(Skipped \cup {w[next]}) /\ Cardinality(Skipped \cup {w[next]}) <= Cardinality(Skipped) + 1
        /\ Cardinality(Skipped \cup {w[next]}) \in Nat
    <3>1. /\ IsFiniteSet(Skipped \cup {w[next]})
          /\ Cardinality(Skipped \cup {w[next]}) =
               IF w[next] \in Skipped THEN Cardinality(Skipped) ELSE Cardinality(Skipped) + 1
          BY <1>8, FS_AddElement
    <3>2. CASE w[next] \in Skipped  BY <1>8, <3>1, <3>2
    <3>3. CASE w[next] \notin Skipped  BY <1>8, <3>1, <3>3
    <3> QED BY <3>2, <3>3
  <2>3. Cardinality(Skipped') <= Cardinality(Skipped \cup {w[next]})  BY <2>1, <2>2, FS_Subset
  <2>4. fallen' = fallen + 1  BY <1>1, <1>11
  <2>5. Cardinality(Skipped') <= fallen'  BY <1>2, <1>8, <2>2, <2>3, <2>4
  <2> QED BY <1>4, <1>5, <2>5 DEF CatalogInv
<1>12. CASE ~(Before(table, r) /\ ~Before(s, r))
  <2>1. Skipped' \subseteq Skipped
    <3>1. CASE Before(s, r)  BY <1>6, <1>7, <1>9, <1>10, <3>1
    <3>2. CASE ~Before(s, r) /\ ~Before(table, r)  BY <1>6, <1>9, <1>10, <3>2
    <3> QED BY <1>12, <3>1, <3>2
  <2>2. Cardinality(Skipped') <= Cardinality(Skipped)  BY <1>8, <2>1, FS_Subset
  <2>3. fallen' = fallen  BY <1>1, <1>12
  <2>4. Cardinality(Skipped') <= fallen'  BY <1>2, <1>8, <2>2, <2>3
  <2> QED BY <1>4, <1>5, <2>4 DEF CatalogInv
<1> QED BY <1>11, <1>12

\* The desktop's writes keep the account.
LEMMA DesktopKeepsCatalog ==
  ASSUME CatalogInv, NEW r \in Rows, Touch(r) \/ Leave(r)
  PROVE  CatalogInv'
<1> DEFINE w == Without(r)
<1>1. table \in Listings  BY DEF CatalogInv, CatalogTypeOK
<1>2. w \in Seq(Rows) /\ RemovedFrom(table, r, w)  BY <1>1, WithoutRemoves
<1> HIDE DEF w
<1>3. w \in Listings /\ \A i \in 1..Len(w) : w[i] # r  BY <1>1, <1>2, RemovedIsListing
<1>4. CASE Leave(r)
  <2>1. Writes(r, w)  BY <1>4 DEF Leave, w
  <2>2. RemovedFrom(w, r, w)  BY <1>3 DEF RemovedFrom
  <2> QED BY <1>2, <1>3, <2>1, <2>2, WriteKeepsCatalog
<1>5. CASE Touch(r)
  <2>1. PICK i \in Places(w) : Writes(r, With(w, r, i))  BY <1>5 DEF Touch, w
  <2>2. i \in 1..(Len(w) + 1)
    <3>1. Len(w) \in Nat  BY <1>3, ListingFacts
    <3>2. order \in {"first", "last", "any"}  BY DEF CatalogInv, CatalogTypeOK
    <3> QED BY <2>1, <3>1, <3>2 DEF Places
  <2>3. With(w, r, i) \in Listings /\ RemovedFrom(With(w, r, i), r, w)  BY <1>3, <2>2, WithInserts
  <2> QED BY <1>2, <1>3, <2>1, <2>3, WriteKeepsCatalog
<1> QED BY <1>4, <1>5

\* A page passes over nothing: it lists the rows up to where the next one begins,
\* or all that are left.
LEMMA PageKeepsCatalog ==
  ASSUME CatalogInv, NEW limit \in PageLimits, Page(limit)
  PROVE  CatalogInv'
<1>1. /\ next # End /\ UNCHANGED <<order, table, writes, moved, fallen>>
      /\ listed' = listed \cup RowsAt(next, next + limit)
      /\ next' = IF Len(table) - next > limit THEN next + limit ELSE End
      BY DEF Page, HasMore, NextOffset
<1>2. /\ table \in Listings /\ listed \subseteq Rows /\ moved \subseteq Rows
      /\ next \in {End, 0} \cup 1..(Cardinality(Rows) - 1)
      BY DEF CatalogInv, CatalogTypeOK
<1>3. /\ table \in Seq(Rows) /\ Len(table) \in Nat /\ Len(table) <= Cardinality(Rows)
      /\ Cardinality(Rows) \in Nat
      BY <1>2, ListingFacts, CatalogAssumption, FS_CardinalityType
<1>4. next \in Nat /\ limit \in Nat \ {0}  BY <1>1, <1>2, <1>3, CatalogAssumption
<1>5. next' \in {End, 0} \cup 1..(Cardinality(Rows) - 1)  BY <1>1, <1>3, <1>4
<1>6. RowsAt(next, next + limit) \subseteq Rows  BY <1>3 DEF RowsAt
<1>7. CatalogTypeOK' /\ (fallen <= writes)'
      BY <1>1, <1>2, <1>5, <1>6 DEF CatalogInv, CatalogTypeOK
<1>8. Cardinality(Skipped) <= fallen /\ IsFiniteSet(Skipped)
  <2>1. Skipped \subseteq Rows  BY <1>3 DEF Skipped, FirstOf
  <2> QED BY <1>1, <2>1, CatalogAssumption, FS_Subset DEF CatalogInv
<1>9. ASSUME NEW T, T \subseteq Skipped  PROVE Cardinality(T) <= fallen
  <2>1. Cardinality(T) <= Cardinality(Skipped) /\ IsFiniteSet(T)  BY <1>8, <1>9, FS_Subset
  <2>2. Cardinality(T) \in Nat /\ Cardinality(Skipped) \in Nat /\ fallen \in Nat
        BY <1>8, <2>1, FS_CardinalityType, CatalogAssumption DEF CatalogInv, CatalogTypeOK
  <2> QED BY <1>8, <2>1, <2>2
<1>10. CASE Len(table) - next > limit
  <2>1. next' = next + limit /\ next' # End  BY <1>1, <1>4, <1>10 DEF End
  <2>2. Skipped' \subseteq Skipped
    <3> SUFFICES ASSUME NEW i \in 1..Len(table), i <= next + limit,
                        table[i] \notin moved, table[i] \notin listed'
                 PROVE  table[i] \in Skipped
        BY <1>1, <2>1 DEF Skipped, FirstOf
    <3>1. i <= next
      <4> SUFFICES ASSUME next < i PROVE FALSE  BY <1>3, <1>4
      <4>1. table[i] \in RowsAt(next, next + limit)  BY DEF RowsAt
      <4> QED BY <1>1, <4>1
    <3> QED BY <1>1, <3>1 DEF Skipped, FirstOf
  <2> QED BY <1>1, <1>7, <1>9, <2>1, <2>2 DEF CatalogInv, MissedOnlyForTheFallen
<1>11. CASE ~(Len(table) - next > limit)
  <2>1. next' = End  BY <1>1, <1>11
  <2>2. Missed' \subseteq Skipped
    <3> SUFFICES ASSUME NEW i \in 1..Len(table), table[i] \notin moved, table[i] \notin listed'
                 PROVE  table[i] \in Skipped
        BY <1>1 DEF Missed, RowsAt
    <3>1. i <= next
      <4> SUFFICES ASSUME next < i PROVE FALSE  BY <1>3, <1>4
      <4>1. i <= next + limit  BY <1>3, <1>4, <1>11
      <4>2. table[i] \in RowsAt(next, next + limit)  BY <4>1 DEF RowsAt
      <4> QED BY <1>1, <4>2
    <3> QED BY <1>1, <3>1 DEF Skipped, FirstOf
  <2> QED BY <1>1, <1>7, <1>9, <2>1, <2>2 DEF CatalogInv, MissedOnlyForTheFallen
<1> QED BY <1>10, <1>11

\* CatalogInv holds in every reachable state.
LEMMA CatalogInvariant == CatalogSpec => []CatalogInv
<1>1. CatalogInit => CatalogInv
  <2> SUFFICES ASSUME CatalogInit PROVE CatalogInv  OBVIOUS
  <2>1. /\ table \in Listings /\ next = 0 /\ listed = {} /\ moved = {} /\ fallen = 0 /\ writes = 0
        /\ order \in {"first", "last", "any"}
        BY DEF CatalogInit
  <2>2. CatalogTypeOK  BY <2>1, CatalogAssumption DEF CatalogTypeOK
  <2>3. Skipped = {}
    <3>1. Len(table) \in Nat  BY <2>1, ListingFacts
    <3> QED BY <2>1, <3>1 DEF Skipped, FirstOf
  <2>4. next # End  BY <2>1 DEF End
  <2> QED BY <2>1, <2>2, <2>3, <2>4, FS_EmptySet DEF CatalogInv, MissedOnlyForTheFallen
<1>2. CatalogInv /\ [CatalogNext]_catalogVars => CatalogInv'
  <2>1. ASSUME CatalogInv, UNCHANGED catalogVars  PROVE CatalogInv'
        BY <2>1 DEF catalogVars, CatalogInv, CatalogTypeOK, Skipped, FirstOf, MissedOnlyForTheFallen,
           Missed, RowsAt
  <2> QED BY <2>1, DesktopKeepsCatalog, PageKeepsCatalog DEF CatalogNext
<1> QED BY <1>1, <1>2, PTL DEF CatalogSpec

\* Every variable of the catalog keeps its type; a client is only sent to an
\* offset at which a table has a row.
THEOREM CatalogTypeCorrect == CatalogSpec => []CatalogTypeOK
  BY CatalogInvariant, PTL DEF CatalogInv

\* A complete listing misses no more of the rows nobody wrote than fell out of the
\* places already read, for any table, any limits and any number of writes.
THEOREM ListingsMissOnlyTheFallen == CatalogSpec => []MissedOnlyForTheFallen
  BY CatalogInvariant, PTL DEF CatalogInv
=============================================================================
