----------------------------- MODULE ItemContent ------------------------------
(***************************************************************************)
(* readThreadItem (src/src/desktop_history.rs): one client reads the text  *)
(* of an item in chunks, following nextCursor, while the desktop rewrites  *)
(* the item or removes it.                                                 *)
(*                                                                         *)
(* Abstracted: the characters.  A chunk is the range it was cut from and   *)
(* the version it was cut from.  The version stands for the item's two     *)
(* ordinals, and every rewrite is taken to give the item a new one.        *)
(***************************************************************************)
EXTENDS Integers, Sequences

CONSTANTS
  Chunk,        \* CHUNK_CHARS
  Lengths,      \* bound: the lengths a text may have
  MaxVersion    \* bound: rewrites

ASSUME ContentAssumption ==
  Chunk \in Nat \ {0} /\ Lengths \subseteq Nat /\ Lengths # {} /\ MaxVersion \in Nat

VARIABLES
  item,     \* version and length of the item in the database, or Gone
  phase,    \* where the client's reading stands
  view,     \* the item the current, or last, request sees
  cursor,   \* Cursor: item_version, length and offset, or NoCursor
  chunks    \* the chunks, as the client puts them together

vars == <<item, phase, view, cursor, chunks>>

Items    == [version : Nat, length : Nat]
Gone     == [version |-> -1, length |-> -1]
Cursors  == [version : Nat, length : Nat, offset : Nat]
NoCursor == [version |-> -1, length |-> -1, offset |-> -1]
Chunks   == [version : Nat, offset : Nat, size : Nat]

Init ==
  /\ \E n \in Lengths : item = [version |-> 0, length |-> n]
  /\ phase = "ask" /\ view = Gone /\ cursor = NoCursor /\ chunks = <<>>

-----------------------------------------------------------------------------
(* The desktop.                                                            *)

Rewrite(n) ==
  /\ item # Gone /\ item.version < MaxVersion
  /\ item' = [version |-> item.version + 1, length |-> n]
  /\ UNCHANGED <<phase, view, cursor, chunks>>

Remove ==
  /\ item # Gone /\ item' = Gone
  /\ UNCHANGED <<phase, view, cursor, chunks>>

-----------------------------------------------------------------------------
(* A request.                                                              *)

\* The request opens the database: its statements see this state.
Begin ==
  /\ phase = "ask"
  /\ phase' = IF item = Gone THEN "missing" ELSE "begun"
  /\ view' = item
  /\ UNCHANGED <<item, cursor, chunks>>

\* Fault: the text is compared by its length alone.
CursorFitsLength ==
  cursor = NoCursor \/ (cursor.length = view.length /\ cursor.offset <= view.length)

CursorFits ==
  \/ cursor = NoCursor
  \/ /\ cursor.version = view.version
     /\ cursor.length = view.length
     /\ cursor.offset <= view.length

RefuseStale ==
  /\ phase = "begun" /\ ~CursorFits
  /\ phase' = "stale"
  /\ UNCHANGED <<item, view, cursor, chunks>>

Offset == IF cursor = NoCursor THEN 0 ELSE cursor.offset

\* What substr returns of the text from an offset on.
Size(offset) == IF view.length - offset < Chunk THEN view.length - offset ELSE Chunk

TextLeft(offset) == offset < view.length

ReturnChunk ==
  /\ phase = "begun" /\ CursorFits
  /\ chunks' = Append(chunks, [version |-> view.version, offset |-> Offset, size |-> Size(Offset)])
  /\ cursor' = [version |-> view.version, length |-> view.length, offset |-> Offset + Size(Offset)]
  /\ phase' = IF TextLeft(Offset + Size(Offset)) THEN "ask" ELSE "done"
  /\ UNCHANGED <<item, view>>

-----------------------------------------------------------------------------
DesktopStep == Remove \/ \E n \in Lengths : Rewrite(n)

ReadStep == Begin \/ RefuseStale \/ ReturnChunk

Next == DesktopStep \/ ReadStep

Spec == Init /\ [][Next]_vars

-----------------------------------------------------------------------------
\* Type invariant.
TypeOK ==
  /\ item \in Items \cup {Gone} /\ view \in Items \cup {Gone}
  /\ phase \in {"ask", "begun", "done", "stale", "missing"}
  /\ cursor \in Cursors \cup {NoCursor}
  /\ chunks \in Seq(Chunks)

EndOf(c) == c.offset + c.size

\* What the client has put together is the beginning of one version's text, each
\* chunk where the one before ended, and a completed reading is all of that text.
OneText ==
  /\ \A i, j \in 1..Len(chunks) :
       /\ chunks[i].version = chunks[j].version
       /\ chunks[1].offset = 0
       /\ j = i + 1 => chunks[j].offset = EndOf(chunks[i])
  /\ phase = "done" =>
       /\ chunks # <<>>
       /\ chunks[1].version = view.version
       /\ EndOf(chunks[Len(chunks)]) = view.length

\* A reading ends: every chunk that announces another one has text, so a client
\* that follows the cursors reaches the end of the text or is refused.
EveryChunkAdvances ==
  phase = "ask" => \A i \in 1..Len(chunks) : chunks[i].size > 0
=============================================================================
