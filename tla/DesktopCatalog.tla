---------------------------- MODULE DesktopCatalog -----------------------------
(***************************************************************************)
(* listThreads, searchThreads and listProjects                             *)
(* (src/src/desktop_catalog.rs): a client reads a list page after page,    *)
(* each page a query of its own with LIMIT and OFFSET, while the desktop   *)
(* goes on writing the table.                                              *)
(*                                                                         *)
(* Abstracted: the columns.  The table is the sequence of the rows that    *)
(* the filters let through, in the order of the query; an update moves its *)
(* row, archiving it or a new title may take it out.  A row of listProjects *)
(* is a directory with threads, which exists if that is asked for.         *)
(***************************************************************************)
EXTENDS Integers, Sequences, FiniteSets

CONSTANTS
  Rows,         \* threads, or directories of threads
  PageLimits,   \* bound: limits a client asks for
  MaxWrites     \* bound: writes of the desktop during the listing

ASSUME CatalogAssumption ==
  /\ IsFiniteSet(Rows) /\ PageLimits \subseteq Nat \ {0} /\ MaxWrites \in Nat

VARIABLES
  order,    \* "first", "last" or "any": where a new or updated row appears
  table,    \* the rows that match, in the order of the query
  writes,   \* number of writes so far
  next,     \* offset of the page the client asks for, or End
  listed,   \* rows the client has been given
  moved,    \* rows written since the listing began
  fallen    \* how often a row left the places before `next`

catalogVars == <<order, table, writes, next, listed, moved, fallen>>

End == -1

Listings == {s \in UNION {[1..n -> Rows] : n \in 0..Cardinality(Rows)} :
               \A i, j \in DOMAIN s : s[i] = s[j] => i = j}

RowsAt(from, to) == {table[i] : i \in {k \in 1..Len(table) : from < k /\ k <= to}}

CatalogInit ==
  /\ order \in {"first", "last", "any"}
  /\ table \in Listings
  /\ writes = 0 /\ next = 0 /\ listed = {} /\ moved = {} /\ fallen = 0

-----------------------------------------------------------------------------
(* The desktop.                                                            *)

Without(r) ==
  IF r \in RowsAt(0, Len(table))
    THEN LET i == CHOOSE j \in 1..Len(table) : table[j] = r
         IN  SubSeq(table, 1, i - 1) \o SubSeq(table, i + 1, Len(table))
    ELSE table

With(s, r, i) == SubSeq(s, 1, i - 1) \o <<r>> \o SubSeq(s, i, Len(s))

Before(s, r) == \E i \in 1..next : i <= Len(s) /\ s[i] = r

\* ORDER BY updated_at, or created_at, DESC or ASC; ORDER BY cwd.
Places(s) ==
  CASE order = "first" -> {1}
    [] order = "last"  -> {Len(s) + 1}
    [] order = "any"   -> 1..Len(s) + 1

Writes(r, s) ==
  /\ writes < MaxWrites /\ next # End
  /\ writes' = writes + 1 /\ table' = s /\ moved' = moved \cup {r}
  /\ fallen' = IF Before(table, r) /\ ~Before(s, r) THEN fallen + 1 ELSE fallen
  /\ UNCHANGED <<order, next, listed>>

\* A row appears, or is updated and moves.
Touch(r) == \E i \in Places(Without(r)) : Writes(r, With(Without(r), r, i))

\* A row is archived, deleted or changed so that it does not match any more.
Leave(r) == r \in RowsAt(0, Len(table)) /\ Writes(r, Without(r))

-----------------------------------------------------------------------------
(* query and project_query.                                                *)

\* Fault: the row that was fetched to see whether there are more is counted.
NextOffsetOneMore(limit) == next + limit + 1

NextOffset(limit) == next + limit

\* Fault: a full page is taken for one that others follow.
HasMoreIfFull(limit) == Len(table) - next >= limit

\* A row more than the limit was found.
HasMore(limit) == Len(table) - next > limit

Page(limit) ==
  /\ next # End
  /\ listed' = listed \cup RowsAt(next, next + limit)
  /\ next' = IF HasMore(limit) THEN NextOffset(limit) ELSE End
  /\ UNCHANGED <<order, table, writes, moved, fallen>>

-----------------------------------------------------------------------------
CatalogNext ==
  \/ \E r \in Rows : Touch(r) \/ Leave(r)
  \/ \E limit \in PageLimits : Page(limit)

CatalogSpec == CatalogInit /\ [][CatalogNext]_catalogVars

-----------------------------------------------------------------------------
\* Type invariant; an offset the client is sent to is that of a row there was.
CatalogTypeOK ==
  /\ order \in {"first", "last", "any"} /\ table \in Listings
  /\ writes \in 0..MaxWrites /\ next \in {End, 0} \cup 1..(Cardinality(Rows) - 1)
  /\ listed \subseteq Rows /\ moved \subseteq Rows /\ fallen \in 0..MaxWrites

Missed == (RowsAt(0, Len(table)) \ moved) \ listed

\* A row that nobody wrote during the listing is missing from it only if rows
\* fell out of the places already read, and no more rows are missing than fell:
\* updates alone make a list that shows the recent first repeat rows, never skip.
MissedOnlyForTheFallen ==
  next = End => Cardinality(Missed) <= fallen
=============================================================================
