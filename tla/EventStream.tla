----------------------------- MODULE EventStream ------------------------------
(***************************************************************************)
(* Desktop events: the ring of recent events that recentEvents reads       *)
(* (src/src/desktop_ipc.rs) and the publisher that delivers them live      *)
(* (src/src/desktop_events.rs), over sessions that replace one another.    *)
(* Streams are numbered in the order of their sessions; each has a ring, a *)
(* queue and a publisher thread of its own.                                *)
(*                                                                         *)
(* One client polls recentEvents as README.md:20 asks: it compares the     *)
(* stream and the sequence numbers, and reads the thread again when the    *)
(* stream is another or a number is missing.                               *)
(*                                                                         *)
(* Abstracted: messages.  An event is the how-manieth message of its       *)
(* session it is, of those that reach the ring: receive() returns before   *)
(* it numbers a stream change of another host, or of a window that is not  *)
(* the owner it knows (desktop_ipc.rs 479-486), and no client learns of    *)
(* those.  The 8 MiB of a ring may make it drop any number of events from  *)
(* the front, the new one included.                                        *)
(***************************************************************************)
EXTENDS Integers, Sequences

CONSTANTS
  Retained,      \* events in a ring (100)
  QueueBound,    \* events in a publisher's queue (8)
  MaxPage,       \* highest limit of a poll (500)
  MaxStreams,    \* bound: sessions
  MaxEvents      \* bound: events of a session

ASSUME StreamAssumption ==
  /\ Retained \in Nat \ {0} /\ QueueBound \in Nat \ {0} /\ MaxPage \in Nat
  /\ MaxStreams \in Nat /\ MaxEvents \in Nat

VARIABLES
  stream,      \* the last session's stream, 0 before the first
  stored,      \* DesktopClient.session holds that session
  alive,       \* Session.alive of it
  reading,     \* streams whose reader task still runs
  happened,    \* per stream, the messages its reader has put into the ring
  latest,      \* Session.events.0
  ring,        \* Session.events.1
  publishers,  \* streams whose session has a publisher
  queue,       \* the publisher's channel
  posting,     \* the event the publisher is posting, or NoEvent
  delivered,   \* the events the live endpoint received
  reply,       \* the answer to the client's poll, or NoReply
  at, position,      \* the client's stream, and the sequence it has read to
  got,               \* the events of that stream it was given
  upTo,              \* and the event it believes to have followed it to
  resynced           \* the last event of it before the thread was read again

sessionVars == <<stream, stored, alive, reading, happened, latest, ring>>
liveVars    == <<publishers, queue, posting, delivered>>
clientVars  == <<at, position, got, upTo, resynced>>
vars == <<sessionVars, liveVars, reply, clientVars>>

Streams == 1..MaxStreams
Events  == [stream : Streams, sequence : Nat, event : Nat]
NoEvent == [stream |-> 0, sequence |-> 0, event |-> 0]
NoReply == [stream |-> 0, events |-> <<>>, latest |-> 0, happened |-> 0]

Init ==
  /\ stream = 0 /\ stored = FALSE /\ alive = FALSE /\ reading = {}
  /\ happened = [s \in Streams |-> 0] /\ latest = [s \in Streams |-> 0]
  /\ ring = [s \in Streams |-> <<>>]
  /\ publishers = {} /\ queue = [s \in Streams |-> <<>>]
  /\ posting = [s \in Streams |-> NoEvent] /\ delivered = <<>>
  /\ reply = NoReply
  /\ at = 0 /\ position = 0 /\ got = {} /\ upTo = 0 /\ resynced = 0

-----------------------------------------------------------------------------
(* Sessions.                                                               *)

\* There is a publisher if the platform has asked for live delivery.
Connect ==
  /\ ~alive /\ stream < MaxStreams
  /\ stream' = stream + 1 /\ stored' = TRUE /\ alive' = TRUE
  /\ reading' = reading \cup {stream'}
  /\ publishers' \in {publishers, publishers \cup {stream'}}
  /\ UNCHANGED <<happened, latest, ring, queue, posting, delivered, reply, clientVars>>

\* The dead session is dropped before the attempt to replace it.
ConnectFails ==
  /\ stored /\ ~alive
  /\ stored' = FALSE
  /\ UNCHANGED <<stream, alive, reading, happened, latest, ring, liveVars, reply, clientVars>>

Close ==
  /\ alive /\ alive' = FALSE
  /\ UNCHANGED <<stream, stored, reading, happened, latest, ring, liveVars, reply, clientVars>>

\* The aborted reader task ends at its next await.
CancelReader(s) ==
  /\ s \in reading /\ ~(s = stream /\ alive)
  /\ reading' = reading \ {s}
  /\ UNCHANGED <<stream, stored, alive, happened, latest, ring, liveVars, reply, clientVars>>

\* Fault: the number is taken from the ring, which may be empty.
NextSequenceOfRing(s) ==
  IF ring[s] = <<>> THEN 1 ELSE ring[s][Len(ring[s])].sequence + 1

NextSequence(s) == latest[s] + 1

DropFront(r, k) == SubSeq(r, k + 1, Len(r))

\* The ring keeps its count, and drops k events for it and for its bytes.
Receive(s, k) ==
  LET e == [stream |-> s, sequence |-> NextSequence(s), event |-> happened[s] + 1]
      pushed == Append(ring[s], e)
  IN
  /\ s \in reading /\ happened[s] < MaxEvents
  /\ k \in 0..Len(pushed) /\ Len(pushed) - k <= Retained
  /\ happened' = [happened EXCEPT ![s] = @ + 1]
  /\ latest' = [latest EXCEPT ![s] = e.sequence]
  /\ ring' = [ring EXCEPT ![s] = DropFront(pushed, k)]
  /\ queue' = IF s \in publishers /\ Len(queue[s]) < QueueBound
                THEN [queue EXCEPT ![s] = Append(@, e)] ELSE queue
  /\ UNCHANGED <<stream, stored, alive, reading, publishers, posting, delivered, reply, clientVars>>

-----------------------------------------------------------------------------
(* Live delivery.                                                          *)

TakeEvent(s) ==
  /\ posting[s] = NoEvent /\ queue[s] # <<>>
  /\ posting' = [posting EXCEPT ![s] = Head(queue[s])]
  /\ queue' = [queue EXCEPT ![s] = Tail(@)]
  /\ UNCHANGED <<sessionVars, publishers, delivered, reply, clientVars>>

PostSucceeds(s) ==
  /\ posting[s] # NoEvent
  /\ delivered' = Append(delivered, posting[s])
  /\ posting' = [posting EXCEPT ![s] = NoEvent]
  /\ UNCHANGED <<sessionVars, publishers, queue, reply, clientVars>>

\* Fault: an event whose delivery failed is queued again.
PostFailsRequeues(s) ==
  /\ posting[s] # NoEvent
  /\ delivered' \in {delivered, Append(delivered, posting[s])}
  /\ posting' = [posting EXCEPT ![s] = NoEvent]
  /\ queue' = [queue EXCEPT ![s] = Append(@, posting[s])]
  /\ UNCHANGED <<sessionVars, publishers, reply, clientVars>>

\* An error, or no answer in time: the endpoint may have the event all the same.
PostFails(s) ==
  /\ posting[s] # NoEvent
  /\ delivered' \in {delivered, Append(delivered, posting[s])}
  /\ posting' = [posting EXCEPT ![s] = NoEvent]
  /\ UNCHANGED <<sessionVars, publishers, queue, reply, clientVars>>

-----------------------------------------------------------------------------
(* Polling.                                                                *)

\* Fault: a poll gets the newest events that fit its limit.
PageNewest(rows, limit) == IF Len(rows) <= limit THEN rows ELSE SubSeq(rows, Len(rows) - limit + 1, Len(rows))

Page(rows, limit) == IF Len(rows) <= limit THEN rows ELSE SubSeq(rows, 1, limit)

After(e) == e.sequence > position

\* The filter of the ring: its events are in the order of their numbers, so those
\* after the client's position are the last ones, from the first of them.
FirstAfter(rows) ==
  CHOOSE i \in 1..(Len(rows) + 1) :
    /\ \A j \in 1..(i - 1) : ~After(rows[j])
    /\ i <= Len(rows) => After(rows[i])

RowsAfter(rows) == SubSeq(rows, FirstAfter(rows), Len(rows))

\* Without a session the answer is that there is none, and nothing for the client
\* to compare: it polls again.
RecentEvents(limit) ==
  /\ reply = NoReply /\ stored
  /\ reply' = [stream |-> stream, events |-> Page(RowsAfter(ring[stream]), limit),
               latest |-> latest[stream], happened |-> happened[stream]]
  /\ UNCHANGED <<sessionVars, liveVars, clientVars>>

\* The client misses a number.
Gap(r) ==
  \/ r.events = <<>> /\ r.latest # position
  \/ \E i \in 1..Len(r.events) : r.events[i].sequence # position + i

Resync(r) == r.stream # at \/ Gap(r)

Accept ==
  LET es == reply.events IN
  /\ reply # NoReply
  /\ at' = reply.stream
  /\ position' = IF es = <<>> THEN reply.latest ELSE es[Len(es)].sequence
  /\ upTo' = IF es = <<>> THEN reply.happened ELSE es[Len(es)].event
  /\ got' = (IF reply.stream = at THEN got ELSE {}) \cup {es[i].event : i \in 1..Len(es)}
  /\ resynced' = IF Resync(reply) THEN reply.happened ELSE resynced
  /\ reply' = NoReply
  /\ UNCHANGED <<sessionVars, liveVars>>

-----------------------------------------------------------------------------
Next ==
  \/ Connect \/ ConnectFails \/ Close \/ Accept
  \/ \E s \in Streams :
       \/ CancelReader(s) \/ TakeEvent(s) \/ PostSucceeds(s) \/ PostFails(s)
       \/ \E k \in 0..(Retained + 1) : Receive(s, k)
  \/ \E limit \in 1..MaxPage : RecentEvents(limit)

Spec == Init /\ [][Next]_vars

-----------------------------------------------------------------------------
\* Type invariant of the sessions and of live delivery; ring and queue keep their
\* bounds.
TypeOK ==
  /\ stream \in 0..MaxStreams /\ stored \in BOOLEAN /\ alive \in BOOLEAN
  /\ (alive => stored) /\ (stored => stream # 0) /\ reading \subseteq Streams
  /\ happened \in [Streams -> Nat] /\ latest \in [Streams -> Nat]
  /\ ring \in [Streams -> Seq(Events)] /\ \A s \in Streams : Len(ring[s]) <= Retained
  /\ publishers \subseteq Streams
  /\ queue \in [Streams -> Seq(Events)] /\ \A s \in Streams : Len(queue[s]) <= QueueBound
  /\ posting \in [Streams -> Events \cup {NoEvent}]
  /\ delivered \in Seq(Events)

\* A client that polls as documented loses no event silently: of all that reached
\* the ring up to where it believes to be, it was given each one or told to read
\* the thread again after it.
LossIsReported ==
  \A n \in 1..upTo : n \in got \/ n <= resynced

\* Nor is it told so without a loss: when it misses a number of its stream, that
\* event has left the ring.
GapsAreReal ==
  reply # NoReply /\ reply.stream = at /\ Gap(reply) =>
    \A i \in 1..Len(ring[at]) : ring[at][i].sequence # position + 1

\* The live endpoint receives the events of a stream in their order and at most
\* once each, whatever was dropped, failed or answered late.
DeliveredInOrder ==
  \A i, j \in 1..Len(delivered) :
    i < j /\ delivered[i].stream = delivered[j].stream =>
      delivered[i].sequence < delivered[j].sequence
=============================================================================
