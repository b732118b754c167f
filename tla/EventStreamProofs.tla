-------------------------- MODULE EventStreamProofs ---------------------------
(***************************************************************************)
(* Theorems about EventStream: the live endpoint receives the events of a  *)
(* stream in their order, at most once each; a client that polls loses no  *)
(* event silently and is told of no loss that did not happen.              *)
(***************************************************************************)
EXTENDS EventStream, TLAPS

\* The types of what live delivery works on.
LiveTypes ==
  /\ latest \in [Streams -> Nat] /\ happened \in [Streams -> Nat]
  /\ queue \in [Streams -> Seq(Events)]
  /\ posting \in [Streams -> Events \cup {NoEvent}]
  /\ delivered \in Seq(Events)

\* A publisher's events come from its stream, in order: those delivered before
\* the one it posts, before those that wait, before those still to happen.
QueueInOrder(s) ==
  /\ \A j \in 1..Len(queue[s]) : queue[s][j].stream = s /\ queue[s][j].sequence <= latest[s]
  /\ \A j, k \in 1..Len(queue[s]) : j < k => queue[s][j].sequence < queue[s][k].sequence

PostingInOrder(s) ==
  posting[s] # NoEvent =>
    /\ posting[s].stream = s /\ posting[s].sequence <= latest[s]
    /\ \A j \in 1..Len(queue[s]) : posting[s].sequence < queue[s][j].sequence

DeliveredBefore(s) ==
  \A i \in 1..Len(delivered) : delivered[i].stream = s =>
    /\ delivered[i].sequence <= latest[s]
    /\ posting[s] # NoEvent => delivered[i].sequence < posting[s].sequence
    /\ \A j \in 1..Len(queue[s]) : delivered[i].sequence < queue[s][j].sequence

StreamInOrder(s) == QueueInOrder(s) /\ PostingInOrder(s) /\ DeliveredBefore(s)

LiveInv ==
  /\ LiveTypes /\ DeliveredInOrder
  /\ \A s \in Streams : StreamInOrder(s)

-----------------------------------------------------------------------------
\* An event of a stream has its number, which is no stream.
LEMMA EventFields ==
  /\ \A e \in Events : e.stream \in Streams /\ e.sequence \in Nat /\ e # NoEvent
  /\ NoEvent.stream = 0
  BY StreamAssumption DEF Events, NoEvent, Streams

\* The last of a sequence with an event more is that event.
LEMMA Appended ==
  ASSUME NEW q \in Seq(Events), NEW e \in Events
  PROVE  /\ Append(q, e) \in Seq(Events) /\ Len(Append(q, e)) = Len(q) + 1
         /\ \A j \in 1..Len(q) : Append(q, e)[j] = q[j]
         /\ Append(q, e)[Len(q) + 1] = e
  OBVIOUS

\* A message gets a number above all that were given.
LEMMA ReceiveKeepsOrder ==
  ASSUME LiveInv, NEW s \in Streams, NEW k \in 0..(Retained + 1), Receive(s, k)
  PROVE  LiveInv'
<1>0. LiveTypes /\ DeliveredInOrder /\ StreamInOrder(s)  BY DEF LiveInv
<1>11. [stream |-> s, sequence |-> latest[s] + 1, event |-> happened[s] + 1] \in Events
       BY <1>0 DEF Events, LiveTypes
<1>1. /\ latest' = [latest EXCEPT ![s] = latest[s] + 1]
      /\ happened' = [happened EXCEPT ![s] = happened[s] + 1]
      /\ UNCHANGED <<posting, delivered>>
      BY DEF Receive, NextSequence
<1>2. PICK e \in Events :
        /\ e.stream = s /\ e.sequence = latest[s] + 1
        /\ queue' = queue \/ queue' = [queue EXCEPT ![s] = Append(queue[s], e)]
      BY <1>11 DEF Receive, NextSequence
<1>3. /\ latest'[s] = latest[s] + 1 /\ latest[s] \in Nat /\ posting'[s] = posting[s]
      /\ delivered' = delivered /\ queue[s] \in Seq(Events) /\ Len(queue[s]) \in Nat
      BY <1>0, <1>1 DEF LiveTypes
<1>4. LiveTypes'
  <2>1. Append(queue[s], e) \in Seq(Events)  BY <1>2, <1>3, Appended
  <2>2. queue' \in [Streams -> Seq(Events)]  BY <1>0, <1>2, <2>1 DEF LiveTypes
  <2>3. latest' \in [Streams -> Nat] /\ happened' \in [Streams -> Nat]  BY <1>0, <1>1 DEF LiveTypes
  <2> QED BY <1>0, <1>1, <2>2, <2>3 DEF LiveTypes
<1>5. ASSUME NEW t \in Streams, t # s  PROVE StreamInOrder(t)'
  <2>1. latest'[t] = latest[t] /\ queue'[t] = queue[t] /\ posting'[t] = posting[t] /\ delivered' = delivered
        BY <1>0, <1>1, <1>2, <1>5 DEF LiveTypes
  <2>2. StreamInOrder(t)  BY DEF LiveInv
  <2> QED BY <2>1, <2>2 DEF StreamInOrder, QueueInOrder, PostingInOrder, DeliveredBefore
<1>6. \A j \in 1..Len(queue'[s]) :
        \/ j \in 1..Len(queue[s]) /\ queue'[s][j] = queue[s][j]
        \/ j = Len(queue[s]) + 1 /\ queue'[s][j] = e
  <2>1. CASE queue'[s] = queue[s]  BY <2>1
  <2>2. CASE queue'[s] # queue[s]
    <3>1. /\ Len(queue'[s]) = Len(queue[s]) + 1 /\ queue'[s][Len(queue[s]) + 1] = e
          /\ \A j \in 1..Len(queue[s]) : queue'[s][j] = queue[s][j]
          BY <1>0, <1>1, <1>2, <1>3, <2>2, Appended DEF LiveTypes
    <3> QED BY <1>3, <3>1
  <2> QED BY <2>1, <2>2
<1>7. /\ \A j \in 1..Len(queue[s]) : queue[s][j].sequence \in Nat
      /\ \A i \in 1..Len(delivered) : delivered[i].sequence \in Nat
      /\ posting[s] # NoEvent => posting[s].sequence \in Nat
      BY <1>0, <1>3, EventFields DEF LiveTypes
<1>8. QueueInOrder(s)'
  <2>1. ASSUME NEW j \in 1..Len(queue'[s])
        PROVE  queue'[s][j].stream = s /\ queue'[s][j].sequence <= latest'[s]
    <3>1. CASE j \in 1..Len(queue[s]) /\ queue'[s][j] = queue[s][j]
      <4>1. queue[s][j].stream = s /\ queue[s][j].sequence <= latest[s]
            BY <1>0, <3>1 DEF StreamInOrder, QueueInOrder
      <4> QED BY <1>3, <1>7, <3>1, <4>1
    <3>2. CASE queue'[s][j] = e  BY <1>2, <1>3, <3>2
    <3> QED BY <1>6, <3>1, <3>2
  <2>2. ASSUME NEW i \in 1..Len(queue'[s]), NEW j \in 1..Len(queue'[s]), i < j
        PROVE  queue'[s][i].sequence < queue'[s][j].sequence
    <3>1. i \in 1..Len(queue[s]) /\ queue'[s][i] = queue[s][i]
      <4>1. i # Len(queue[s]) + 1
        <5>1. CASE j \in 1..Len(queue[s])  BY <1>3, <2>2, <5>1
        <5>2. CASE j = Len(queue[s]) + 1  BY <2>2, <5>2
        <5> QED BY <1>6, <5>1, <5>2
      <4> QED BY <1>6, <4>1
    <3>2. queue[s][i].sequence <= latest[s] /\ queue[s][i].sequence \in Nat
          BY <1>0, <1>7, <3>1 DEF StreamInOrder, QueueInOrder
    <3>3. CASE j \in 1..Len(queue[s]) /\ queue'[s][j] = queue[s][j]
          BY <1>0, <2>2, <3>1, <3>3 DEF StreamInOrder, QueueInOrder
    <3>4. CASE queue'[s][j] = e  BY <1>2, <1>3, <3>1, <3>2, <3>4
    <3> QED BY <1>6, <3>3, <3>4
  <2> QED BY <2>1, <2>2 DEF QueueInOrder
<1>9. PostingInOrder(s)'
  <2> SUFFICES ASSUME posting[s] # NoEvent
               PROVE  /\ posting[s].stream = s /\ posting[s].sequence <= latest'[s]
                      /\ \A j \in 1..Len(queue'[s]) : posting[s].sequence < queue'[s][j].sequence
      BY <1>3 DEF PostingInOrder
  <2>1. /\ posting[s].stream = s /\ posting[s].sequence <= latest[s] /\ posting[s].sequence \in Nat
        /\ \A j \in 1..Len(queue[s]) : posting[s].sequence < queue[s][j].sequence
        BY <1>0, <1>7 DEF StreamInOrder, PostingInOrder
  <2>2. posting[s].sequence < e.sequence /\ posting[s].sequence <= latest'[s]  BY <1>2, <1>3, <2>1
  <2> QED BY <1>6, <2>1, <2>2
<1>10. DeliveredBefore(s)'
  <2> SUFFICES ASSUME NEW i \in 1..Len(delivered), delivered[i].stream = s
               PROVE  /\ delivered[i].sequence <= latest'[s]
                      /\ posting[s] # NoEvent => delivered[i].sequence < posting[s].sequence
                      /\ \A j \in 1..Len(queue'[s]) : delivered[i].sequence < queue'[s][j].sequence
      BY <1>3 DEF DeliveredBefore
  <2>1. /\ delivered[i].sequence <= latest[s] /\ delivered[i].sequence \in Nat
        /\ posting[s] # NoEvent => delivered[i].sequence < posting[s].sequence
        /\ \A j \in 1..Len(queue[s]) : delivered[i].sequence < queue[s][j].sequence
        BY <1>0, <1>7 DEF StreamInOrder, DeliveredBefore
  <2>2. delivered[i].sequence < e.sequence /\ delivered[i].sequence <= latest'[s]  BY <1>2, <1>3, <2>1
  <2> QED BY <1>6, <2>1, <2>2
<1>12. DeliveredInOrder'  BY <1>0, <1>1 DEF DeliveredInOrder
<1> QED BY <1>4, <1>5, <1>8, <1>9, <1>10, <1>12 DEF LiveInv, StreamInOrder

\* The publisher takes the first of its queue.
LEMMA TakeKeepsOrder ==
  ASSUME LiveInv, NEW s \in Streams, TakeEvent(s)
  PROVE  LiveInv'
<1>0. LiveTypes /\ DeliveredInOrder /\ StreamInOrder(s)  BY DEF LiveInv
<1>1. /\ posting[s] = NoEvent /\ queue[s] # <<>> /\ queue[s] \in Seq(Events)
      /\ posting' = [posting EXCEPT ![s] = Head(queue[s])]
      /\ queue' = [queue EXCEPT ![s] = Tail(queue[s])]
      /\ UNCHANGED <<latest, happened, delivered>>
      BY <1>0 DEF TakeEvent, sessionVars, LiveTypes
<1>2. /\ Head(queue[s]) \in Events /\ Head(queue[s]) = queue[s][1] /\ Tail(queue[s]) \in Seq(Events)
      /\ Len(Tail(queue[s])) = Len(queue[s]) - 1 /\ Len(queue[s]) \in Nat \ {0}
      /\ \A j \in 1..(Len(queue[s]) - 1) : Tail(queue[s])[j] = queue[s][j + 1]
      BY <1>1
<1>3. LiveTypes'  BY <1>0, <1>1, <1>2 DEF LiveTypes
<1>4. ASSUME NEW t \in Streams, t # s  PROVE StreamInOrder(t)'
  <2>1. latest'[t] = latest[t] /\ queue'[t] = queue[t] /\ posting'[t] = posting[t] /\ delivered' = delivered
        BY <1>0, <1>1, <1>4 DEF LiveTypes
  <2>2. StreamInOrder(t)  BY DEF LiveInv
  <2> QED BY <2>1, <2>2 DEF StreamInOrder, QueueInOrder, PostingInOrder, DeliveredBefore
<1>5. /\ posting'[s] = queue[s][1] /\ Len(queue'[s]) = Len(queue[s]) - 1 /\ latest'[s] = latest[s]
      /\ delivered' = delivered
      /\ \A j \in 1..Len(queue'[s]) :
           /\ j + 1 \in 1..Len(queue[s]) /\ 1 < j + 1
           /\ queue'[s][j] = queue[s][j + 1]
      /\ 1 \in 1..Len(queue[s])
      BY <1>0, <1>1, <1>2 DEF LiveTypes
<1>6. \A j \in 1..Len(queue'[s]) :
        queue'[s][j].stream = s /\ queue'[s][j].sequence <= latest'[s]
      BY <1>0, <1>5 DEF StreamInOrder, QueueInOrder
<1>7. \A i, j \in 1..Len(queue'[s]) : i < j => queue'[s][i].sequence < queue'[s][j].sequence
  <2> SUFFICES ASSUME NEW i \in 1..Len(queue'[s]), NEW j \in 1..Len(queue'[s]), i < j
               PROVE  queue'[s][i].sequence < queue'[s][j].sequence
      OBVIOUS
  <2>1. i + 1 < j + 1  BY <1>2, <1>5
  <2> QED BY <1>0, <1>5, <2>1 DEF StreamInOrder, QueueInOrder
<1>8. PostingInOrder(s)'  BY <1>0, <1>5 DEF StreamInOrder, QueueInOrder, PostingInOrder
<1>9. DeliveredBefore(s)'  BY <1>0, <1>5 DEF StreamInOrder, DeliveredBefore
<1>10. DeliveredInOrder'  BY <1>0, <1>1 DEF DeliveredInOrder
<1> QED BY <1>3, <1>4, <1>6, <1>7, <1>8, <1>9, <1>10 DEF LiveInv, StreamInOrder, QueueInOrder

\* The post ends, with or without the endpoint having received the event.
LEMMA PostKeepsOrder ==
  ASSUME LiveInv, NEW s \in Streams, PostSucceeds(s) \/ PostFails(s)
  PROVE  LiveInv'
<1>0. LiveTypes /\ DeliveredInOrder /\ StreamInOrder(s)  BY DEF LiveInv
<1>1. /\ posting[s] # NoEvent /\ posting[s] \in Events /\ delivered \in Seq(Events)
      /\ posting' = [posting EXCEPT ![s] = NoEvent]
      /\ delivered' = delivered \/ delivered' = Append(delivered, posting[s])
      /\ UNCHANGED <<latest, happened, queue>>
      BY <1>0 DEF PostSucceeds, PostFails, sessionVars, LiveTypes
<1>2. LiveTypes'
  <2>1. Append(delivered, posting[s]) \in Seq(Events)  BY <1>1, Appended
  <2>2. posting' \in [Streams -> Events \cup {NoEvent}]  BY <1>0, <1>1 DEF LiveTypes
  <2> QED BY <1>0, <1>1, <2>1, <2>2 DEF LiveTypes
<1>3. Len(delivered) \in Nat /\ \A i \in 1..Len(delivered) : delivered[i] \in Events  BY <1>1
<1>4. \A i \in 1..Len(delivered') :
        \/ i \in 1..Len(delivered) /\ delivered'[i] = delivered[i]
        \/ i = Len(delivered) + 1 /\ delivered'[i] = posting[s]
  <2>1. CASE delivered' = delivered  BY <2>1
  <2>2. CASE delivered' = Append(delivered, posting[s])
    <3>1. /\ Len(delivered') = Len(delivered) + 1 /\ delivered'[Len(delivered) + 1] = posting[s]
          /\ \A i \in 1..Len(delivered) : delivered'[i] = delivered[i]
          BY <1>1, <2>2, Appended
    <3> QED BY <1>3, <3>1
  <2> QED BY <1>1, <2>1, <2>2
<1>5. /\ posting[s].stream = s /\ posting[s].sequence <= latest[s]
      /\ \A j \in 1..Len(queue[s]) : posting[s].sequence < queue[s][j].sequence
      BY <1>0, <1>1 DEF StreamInOrder, PostingInOrder
<1>6. ASSUME NEW t \in Streams  PROVE StreamInOrder(t)'
  <2>1. latest'[t] = latest[t] /\ queue'[t] = queue[t] /\ (t = s => posting'[t] = NoEvent)
        /\ (t # s => posting'[t] = posting[t])
        BY <1>0, <1>1 DEF LiveTypes
  <2>2. StreamInOrder(t)  BY DEF LiveInv
  <2>3. QueueInOrder(t)' /\ PostingInOrder(t)'
        BY <2>1, <2>2 DEF StreamInOrder, QueueInOrder, PostingInOrder
  <2>4. DeliveredBefore(t)'
    <3> SUFFICES ASSUME NEW i \in 1..Len(delivered'), delivered'[i].stream = t
                 PROVE  /\ delivered'[i].sequence <= latest[t]
                        /\ posting'[t] # NoEvent => delivered'[i].sequence < posting'[t].sequence
                        /\ \A j \in 1..Len(queue[t]) : delivered'[i].sequence < queue[t][j].sequence
        BY <2>1 DEF DeliveredBefore
    <3>1. CASE i \in 1..Len(delivered) /\ delivered'[i] = delivered[i]
          BY <2>1, <2>2, <3>1 DEF StreamInOrder, DeliveredBefore
    <3>2. CASE delivered'[i] = posting[s]  BY <1>5, <2>1, <3>2
    <3> QED BY <1>4, <3>1, <3>2
  <2> QED BY <2>3, <2>4 DEF StreamInOrder
<1>7. DeliveredInOrder'
  <2> SUFFICES ASSUME NEW i \in 1..Len(delivered'), NEW j \in 1..Len(delivered'), i < j,
                      delivered'[i].stream = delivered'[j].stream
               PROVE  delivered'[i].sequence < delivered'[j].sequence
      BY DEF DeliveredInOrder
  <2>1. i \in 1..Len(delivered) /\ delivered'[i] = delivered[i]
    <3>1. Len(delivered') \in Nat  BY <1>2 DEF LiveTypes
    <3> QED BY <1>3, <1>4, <3>1
  <2>2. CASE j \in 1..Len(delivered) /\ delivered'[j] = delivered[j]
        BY <1>0, <2>1, <2>2 DEF DeliveredInOrder
  <2>3. CASE delivered'[j] = posting[s]
        BY <1>0, <1>1, <1>5, <2>1, <2>3 DEF StreamInOrder, DeliveredBefore
  <2> QED BY <1>4, <2>2, <2>3
<1> QED BY <1>2, <1>6, <1>7 DEF LiveInv

-----------------------------------------------------------------------------
\* Ring and queue keep their bounds, whatever is dropped.
LEMMA ReceiveKeepsTypes ==
  ASSUME TypeOK, NEW s \in Streams, NEW k \in 0..(Retained + 1), Receive(s, k)
  PROVE  TypeOK'
<1> USE DEF TypeOK
<1>1. PICK e \in Events :
        /\ k <= Len(Append(ring[s], e)) /\ Len(Append(ring[s], e)) - k <= Retained
        /\ ring' = [ring EXCEPT ![s] = DropFront(Append(ring[s], e), k)]
        /\ queue' = IF s \in publishers /\ Len(queue[s]) < QueueBound
                      THEN [queue EXCEPT ![s] = Append(queue[s], e)] ELSE queue
  <2> DEFINE x == [stream |-> s, sequence |-> latest[s] + 1, event |-> happened[s] + 1]
  <2>1. x \in Events  BY DEF Events
  <2>2. /\ k \in 0..Len(Append(ring[s], x)) /\ Len(Append(ring[s], x)) - k <= Retained
        /\ ring' = [ring EXCEPT ![s] = DropFront(Append(ring[s], x), k)]
        /\ queue' = IF s \in publishers /\ Len(queue[s]) < QueueBound
                      THEN [queue EXCEPT ![s] = Append(queue[s], x)] ELSE queue
        BY DEF Receive, NextSequence
  <2> HIDE DEF x
  <2>3. k <= Len(Append(ring[s], x))
    <3>1. Len(Append(ring[s], x)) \in Nat  BY <2>1, Appended
    <3> QED BY <2>2, <3>1
  <2> QED BY <2>1, <2>2, <2>3
<1>2. /\ latest' = [latest EXCEPT ![s] = latest[s] + 1]
      /\ happened' = [happened EXCEPT ![s] = happened[s] + 1]
      /\ UNCHANGED <<stream, stored, alive, reading, publishers, posting, delivered>>
      BY DEF Receive, NextSequence
<1>3. latest' \in [Streams -> Nat] /\ happened' \in [Streams -> Nat]  BY <1>2
<1>4. ring' \in [Streams -> Seq(Events)] /\ \A t \in Streams : Len(ring'[t]) <= Retained
  <2> DEFINE p == Append(ring[s], e)
  <2>1. ring[s] \in Seq(Events) /\ p \in Seq(Events) /\ Len(p) \in Nat  BY Appended
  <2> HIDE DEF p
  <2>2. k \in Nat /\ k <= Len(p) /\ Len(p) - k <= Retained  BY <1>1, <2>1, StreamAssumption DEF p
  <2>3. DropFront(p, k) \in Seq(Events)  BY <2>1, <2>2 DEF DropFront
  <2>4. Len(DropFront(p, k)) <= Retained  BY <2>1, <2>2, StreamAssumption DEF DropFront
  <2>5. ring' = [ring EXCEPT ![s] = DropFront(p, k)]  BY <1>1 DEF p
  <2> QED BY <2>3, <2>4, <2>5
<1>5. queue' \in [Streams -> Seq(Events)] /\ \A t \in Streams : Len(queue'[t]) <= QueueBound
  <2>1. CASE queue' = queue  BY <2>1
  <2>2. CASE Len(queue[s]) < QueueBound /\ queue' = [queue EXCEPT ![s] = Append(queue[s], e)]
    <3>1. queue[s] \in Seq(Events) /\ Append(queue[s], e) \in Seq(Events)
          /\ Len(queue[s]) \in Nat /\ Len(Append(queue[s], e)) = Len(queue[s]) + 1
          BY Appended
    <3>2. Len(Append(queue[s], e)) <= QueueBound  BY <2>2, <3>1, StreamAssumption
    <3> QED BY <2>2, <3>1, <3>2
  <2> QED BY <1>1, <2>1, <2>2
<1> QED BY <1>2, <1>3, <1>4, <1>5

\* Every variable of sessions and live delivery keeps its type and its bound.
THEOREM StreamTypeCorrect == Spec => []TypeOK
<1>1. Init => TypeOK
  <2> SUFFICES ASSUME Init PROVE TypeOK  OBVIOUS
  <2>1. /\ ring = [s \in Streams |-> <<>>] /\ queue = [s \in Streams |-> <<>>]
        /\ posting = [s \in Streams |-> NoEvent] /\ delivered = <<>>
        /\ happened = [s \in Streams |-> 0] /\ latest = [s \in Streams |-> 0]
        BY DEF Init
  <2>2. \A s \in Streams : Len(ring[s]) <= Retained /\ Len(queue[s]) <= QueueBound
        BY <2>1, StreamAssumption
  <2>3. /\ stream \in 0..MaxStreams /\ stored = FALSE /\ alive = FALSE
        /\ reading \subseteq Streams /\ publishers \subseteq Streams
    <3>1. 0 \in 0..MaxStreams  BY StreamAssumption
    <3>2. stream = 0 /\ stored = FALSE /\ alive = FALSE /\ reading = {} /\ publishers = {}  BY DEF Init
    <3> QED BY <3>1, <3>2
  <2>4. stored \in BOOLEAN /\ alive \in BOOLEAN /\ (alive => stored) /\ (stored => stream # 0)  BY <2>3
  <2> QED BY <2>1, <2>2, <2>3, <2>4 DEF TypeOK
<1>2. TypeOK /\ [Next]_vars => TypeOK'
  <2> SUFFICES ASSUME TypeOK, [Next]_vars PROVE TypeOK'  OBVIOUS
  <2>1. CASE UNCHANGED vars  BY <2>1 DEF vars, sessionVars, liveVars, TypeOK
  <2>2. CASE Connect
    <3>1. stream' \in 0..MaxStreams /\ stream' \in Streams /\ stream' # 0
          BY <2>2, StreamAssumption DEF Connect, TypeOK, Streams
    <3> QED BY <2>2, <3>1 DEF Connect, TypeOK
  <2>3. CASE ConnectFails \/ Close \/ Accept \/ \E limit \in 1..MaxPage : RecentEvents(limit)
    <3>1. UNCHANGED <<stream, reading, happened, latest, ring, liveVars>>
          BY <2>3 DEF ConnectFails, Close, Accept, RecentEvents, sessionVars
    <3>2. stored' \in BOOLEAN /\ alive' \in BOOLEAN /\ (alive' => stored') /\ (stored' => stream # 0)
      <4>1. CASE UNCHANGED <<stored, alive>>  BY <4>1 DEF TypeOK
      <4>2. CASE ConnectFails  BY <4>2 DEF ConnectFails, TypeOK
      <4>3. CASE Close  BY <4>3 DEF Close, TypeOK
      <4> QED BY <2>3, <4>1, <4>2, <4>3 DEF Accept, RecentEvents, sessionVars
    <3> QED BY <3>1, <3>2 DEF liveVars, TypeOK
  <2>4. ASSUME NEW s \in Streams, CancelReader(s) \/ PostSucceeds(s) \/ PostFails(s)  PROVE TypeOK'
    <3>1. CASE CancelReader(s)  BY <3>1 DEF CancelReader, liveVars, TypeOK
    <3>2. CASE PostSucceeds(s) \/ PostFails(s)
      <4>1. /\ posting[s] # NoEvent /\ posting[s] \in Events /\ delivered \in Seq(Events)
            /\ posting' = [posting EXCEPT ![s] = NoEvent]
            /\ delivered' = delivered \/ delivered' = Append(delivered, posting[s])
            /\ UNCHANGED <<sessionVars, publishers, queue>>
            BY <3>2 DEF PostSucceeds, PostFails, TypeOK
      <4>2. delivered' \in Seq(Events)  BY <4>1, Appended
      <4>3. posting' \in [Streams -> Events \cup {NoEvent}]  BY <4>1 DEF TypeOK
      <4> QED BY <4>1, <4>2, <4>3 DEF sessionVars, TypeOK
    <3> QED BY <2>4, <3>1, <3>2
  <2>5. ASSUME NEW s \in Streams, TakeEvent(s)  PROVE TypeOK'
    <3>1. /\ queue[s] \in Seq(Events) /\ queue[s] # <<>>
          /\ posting' = [posting EXCEPT ![s] = Head(queue[s])]
          /\ queue' = [queue EXCEPT ![s] = Tail(queue[s])]
          /\ UNCHANGED <<sessionVars, publishers, delivered>>
          BY <2>5 DEF TakeEvent, TypeOK
    <3>2. /\ Head(queue[s]) \in Events /\ Tail(queue[s]) \in Seq(Events)
          /\ Len(Tail(queue[s])) = Len(queue[s]) - 1 /\ Len(queue[s]) \in Nat
          BY <3>1
    <3>3. Len(Tail(queue[s])) <= QueueBound  BY <3>2, StreamAssumption DEF TypeOK
    <3>4. posting' \in [Streams -> Events \cup {NoEvent}] /\ queue' \in [Streams -> Seq(Events)]
          /\ \A t \in Streams : Len(queue'[t]) <= QueueBound
          BY <3>1, <3>2, <3>3 DEF TypeOK
    <3> QED BY <3>1, <3>4 DEF sessionVars, TypeOK
  <2> QED BY <2>1, <2>2, <2>3, <2>4, <2>5, ReceiveKeepsTypes DEF Next
<1> QED BY <1>1, <1>2, PTL DEF Spec

-----------------------------------------------------------------------------
\* What live delivery has in hand is in order.
THEOREM LiveInvariant == Spec => []LiveInv
<1>1. Init => LiveInv
      BY DEF Init, LiveInv, LiveTypes, DeliveredInOrder, StreamInOrder, QueueInOrder, PostingInOrder, DeliveredBefore
<1>2. LiveInv /\ [Next]_vars => LiveInv'
  <2> SUFFICES ASSUME LiveInv, [Next]_vars PROVE LiveInv'  OBVIOUS
  <2>1. CASE UNCHANGED <<latest, happened, queue, posting, delivered>>
    <3>1. (LiveTypes /\ DeliveredInOrder)'  BY <2>1 DEF LiveInv, LiveTypes, DeliveredInOrder
    <3>2. \A s \in Streams : StreamInOrder(s)'
          BY <2>1 DEF LiveInv, StreamInOrder, QueueInOrder, PostingInOrder, DeliveredBefore
    <3> QED BY <3>1, <3>2 DEF LiveInv
  <2>2. CASE \E s \in Streams : TakeEvent(s) \/ PostSucceeds(s) \/ PostFails(s)
        BY <2>2, TakeKeepsOrder, PostKeepsOrder
  <2>3. CASE \E s \in Streams : \E k \in 0..(Retained + 1) : Receive(s, k)
        BY <2>3, ReceiveKeepsOrder
  <2> QED BY <2>1, <2>2, <2>3 DEF Next, vars, sessionVars, liveVars, Connect, ConnectFails, Close, Accept, CancelReader,
          RecentEvents
<1> QED BY <1>1, <1>2, PTL DEF Spec

\* The endpoint receives the events of a stream in their order and at most once
\* each, for any length of queue, number of sessions and of events.
THEOREM LiveEventsInOrder == Spec => []DeliveredInOrder
  BY LiveInvariant, PTL DEF LiveInv

-----------------------------------------------------------------------------
(* Polling.                                                                 *)

\* How many of a stream's events have left its ring.
Dropped(s) == latest[s] - Len(ring[s])

\* The ring is the last stretch of the stream, its events numbered one by one.
Numbered(rows, b) ==
  \A i \in 1..Len(rows) : rows[i].sequence = b + i /\ rows[i].event = b + i

RingInOrder(s) ==
  /\ happened[s] = latest[s] /\ Len(ring[s]) <= latest[s]
  /\ Numbered(ring[s], Dropped(s))

\* The number before the first a reply starts with.
Start(r) == IF r.events = <<>> THEN r.latest ELSE r.events[1].sequence - 1

PollTypes ==
  /\ at \in Nat /\ position \in Nat /\ upTo \in Nat /\ resynced \in Nat
  /\ reply = NoReply \/ (/\ reply.stream \in Streams /\ reply.events \in Seq(Events)
                         /\ reply.latest \in Nat)

\* A reply is a stretch of its stream, from where the client is or from where the
\* ring began when it was given; the ring has only moved on since.
ReplyInOrder ==
  reply # NoReply =>
    LET b == Start(reply) IN
    /\ reply.happened = reply.latest /\ reply.latest <= latest[reply.stream]
    /\ b \in Nat /\ b + Len(reply.events) <= reply.latest
    /\ Numbered(reply.events, b)
    /\ reply.stream = at => position <= b /\ (b # position => b <= Dropped(at))

\* The client is where its last event was, or where the stream was then.
ClientInOrder ==
  /\ upTo = position /\ LossIsReported
  /\ at # 0 => at \in Streams /\ position <= latest[at]

RingsInOrder == \A s \in Streams : RingInOrder(s)

PollInv == PollTypes /\ RingsInOrder /\ ReplyInOrder /\ ClientInOrder

\* A sequence without elements is the empty one.
LEMMA EmptyIfLen == \A q \in Seq(Events) : q = <<>> <=> Len(q) = 0
  OBVIOUS

\* The filter of a ring in order exists and keeps exactly the events after the
\* client's position.
LEMMA FilterOfRing ==
  ASSUME NEW rows \in Seq(Events), NEW b \in Nat, Numbered(rows, b), position \in Nat
  PROVE  /\ FirstAfter(rows) \in 1..(Len(rows) + 1)
         /\ \A i \in 1..Len(rows) : After(rows[i]) <=> i >= FirstAfter(rows)
<1> DEFINE n == Len(rows)
           Cut(i) == /\ \A j \in 1..(i - 1) : ~After(rows[j])
                     /\ i <= n => After(rows[i])
<1>1. n \in Nat  OBVIOUS
<1>2. \A i \in 1..n : After(rows[i]) <=> b + i > position  BY DEF Numbered, After
<1> HIDE DEF n
<1>3. \E i \in 1..(n + 1) : Cut(i)
  <2>1. CASE position <= b
    <3>1. Cut(1) /\ 1 \in 1..(n + 1)  BY <1>1, <1>2, <2>1
    <3> QED BY <3>1
  <2>2. CASE b < position /\ position < b + n
    <3>1. /\ position - b + 1 \in 1..n /\ \A j \in 1..(position - b) : j \in 1..n /\ b + j <= position
          /\ b + (position - b + 1) > position
          BY <1>1, <2>2
    <3>2. Cut(position - b + 1)
      <4>1. ASSUME NEW j \in 1..(position - b + 1 - 1)  PROVE ~After(rows[j])
        <5>1. j \in 1..n /\ b + j <= position  BY <1>1, <2>2
        <5> QED BY <1>1, <1>2, <5>1
      <4> QED BY <1>2, <3>1, <4>1
    <3>3. position - b + 1 \in 1..(n + 1)  BY <1>1, <3>1
    <3> HIDE DEF Cut
    <3> QED BY <3>2, <3>3
  <2>3. CASE position >= b + n
    <3>1. \A j \in 1..n : ~After(rows[j])  BY <1>1, <1>2, <2>3
    <3>2. Cut(n + 1) /\ n + 1 \in 1..(n + 1)  BY <1>1, <3>1
    <3> HIDE DEF Cut
    <3> QED BY <3>2
  <2> QED BY <1>1, <2>1, <2>2, <2>3
<1>4. FirstAfter(rows) \in 1..(n + 1) /\ Cut(FirstAfter(rows))
  <2>1. FirstAfter(rows) = CHOOSE i \in 1..(n + 1) : Cut(i)  BY DEF FirstAfter, n
  <2> HIDE DEF Cut
  <2> QED BY <1>3, <2>1
<1>5. ASSUME NEW i \in 1..n  PROVE After(rows[i]) <=> i >= FirstAfter(rows)
  <2> DEFINE f == FirstAfter(rows)
  <2>1. f \in 1..(n + 1) /\ Cut(f)  BY <1>4
  <2> HIDE DEF f
  <2>2. CASE i < f
    <3>1. i \in 1..(f - 1)  BY <1>1, <2>1, <2>2
    <3> QED BY <1>1, <2>1, <2>2, <3>1 DEF f
  <2>3. CASE i >= f
    <3>1. f \in 1..n /\ After(rows[f])  BY <1>1, <2>1, <2>3
    <3>2. b + f > position  BY <1>2, <3>1
    <3>3. b + i > position  BY <1>1, <2>3, <3>1, <3>2
    <3> QED BY <1>2, <2>3, <3>3 DEF f
  <2> QED BY <1>1, <2>1, <2>2, <2>3
<1> QED BY <1>4, <1>5 DEF n

\* A page of a ring that misses its first b events: events one after the other,
\* from the client's position or from the ring's front.
PageFollows(es, rows, b) ==
  /\ es \in Seq(Events)
  /\ es = <<>> => position >= b + Len(rows) \/ rows = <<>>
  /\ es # <<>> => \E a \in Nat :
       /\ Len(es) \in Nat \ {0} /\ a + Len(es) <= b + Len(rows)
       /\ Numbered(es, a)
       /\ a >= position /\ a >= b /\ (a = position \/ a = b)

\* What a poll is given: a stretch that starts right after the client's position,
\* or with the ring.
LEMMA PageOfRing ==
  ASSUME NEW rows \in Seq(Events), NEW b \in Nat, Numbered(rows, b), position \in Nat,
         NEW limit \in Nat \ {0}
  PROVE  PageFollows(Page(RowsAfter(rows), limit), rows, b)
<1> DEFINE f == FirstAfter(rows)
           n == Len(rows)
           after == RowsAfter(rows)
           es == Page(after, limit)
           a == b + f - 1
<1>1. n \in Nat /\ f \in 1..(n + 1) /\ \A i \in 1..n : After(rows[i]) <=> i >= f
      BY FilterOfRing
<1>2. after = SubSeq(rows, f, n)  BY DEF RowsAfter
<1> HIDE DEF f, n, after
<1>3. /\ after \in Seq(Events) /\ Len(after) = n + 1 - f
      /\ \A i \in 1..(n + 1 - f) : after[i] = rows[f + i - 1]
  <2>1. n = Len(rows)  BY DEF n
  <2> QED BY <1>1, <1>2, <2>1
<1>4. /\ es \in Seq(Events) /\ Len(es) <= Len(after)
      /\ Len(after) # 0 => Len(es) \in Nat \ {0}
      /\ \A i \in 1..Len(es) : es[i] = after[i]
      BY <1>3 DEF Page
<1>5. a \in Nat /\ a >= b  BY <1>1
<1>6. Numbered(es, a)
  <2> SUFFICES ASSUME NEW i \in 1..Len(es)
               PROVE  es[i].sequence = a + i /\ es[i].event = a + i
      BY DEF Numbered
  <2>1. i \in 1..(n + 1 - f)  BY <1>1, <1>3, <1>4
  <2>2. f + i - 1 \in 1..n /\ b + (f + i - 1) = a + i  BY <1>1, <2>1
  <2>3. es[i] = rows[f + i - 1]  BY <1>3, <1>4, <2>1
  <2> QED BY <2>2, <2>3 DEF Numbered, n
<1>7. f \in 1..n => b + f > position
      BY <1>1 DEF Numbered, After, n
<1>8. f > 1 => b + (f - 1) <= position
  <2> SUFFICES ASSUME f > 1 PROVE b + (f - 1) <= position  OBVIOUS
  <2>1. f - 1 \in 1..n /\ ~(f - 1 >= f)  BY <1>1
  <2>2. ~(rows[f - 1].sequence > position) /\ rows[f - 1].sequence = b + (f - 1)
        BY <1>1, <2>1 DEF Numbered, After, n
  <2> QED BY <1>1, <2>1, <2>2
<1>9. CASE Len(after) = 0
  <2>1. f = n + 1  BY <1>1, <1>3, <1>9
  <2>2. Len(es) = 0  BY <1>3, <1>4, <1>9
  <2>3. position >= b + n \/ n = 0  BY <1>1, <1>8, <2>1
  <2>4. es = <<>>  BY <1>4, <2>2, EmptyIfLen
  <2>5. n = 0 => rows = <<>>  BY EmptyIfLen DEF n
  <2> HIDE DEF es
  <2> QED BY <1>4, <2>3, <2>4, <2>5 DEF PageFollows, n, after, es
<1>10. CASE Len(after) # 0
  <2>1. f \in 1..n /\ Len(es) \in Nat \ {0}  BY <1>1, <1>3, <1>4, <1>10
  <2>2. a + Len(es) <= b + n  BY <1>1, <1>3, <1>4, <2>1
  <2>3. a >= position  BY <1>1, <1>7, <2>1
  <2>4. a = position \/ a = b  BY <1>1, <1>8, <2>1, <2>3
  <2> HIDE DEF a, es
  <2> QED BY <1>4, <1>5, <1>6, <2>1, <2>2, <2>3, <2>4 DEF PageFollows, n, after, es
<1> QED BY <1>9, <1>10

\* An event more, and the front of the ring dropped, leaves a last stretch.
LEMMA ReceiveKeepsRing ==
  ASSUME TypeOK, RingsInOrder, NEW s \in Streams, NEW k \in 0..(Retained + 1), Receive(s, k)
  PROVE  /\ RingsInOrder'
         /\ \A t \in Streams : latest'[t] >= latest[t] /\ Dropped(t)' >= Dropped(t)
<1> USE DEF TypeOK
<1> DEFINE e == [stream |-> s, sequence |-> latest[s] + 1, event |-> happened[s] + 1]
           pushed == Append(ring[s], e)
<1>1. /\ e \in Events /\ e.sequence = latest[s] + 1 /\ e.event = latest[s] + 1
      /\ latest[s] \in Nat /\ happened[s] = latest[s]
      BY DEF Events, RingsInOrder, RingInOrder
<1>2. /\ latest' = [latest EXCEPT ![s] = latest[s] + 1]
      /\ happened' = [happened EXCEPT ![s] = happened[s] + 1]
      /\ ring' = [ring EXCEPT ![s] = SubSeq(pushed, k + 1, Len(pushed))]
      /\ k \in 0..Len(pushed)
      BY DEF Receive, NextSequence, DropFront
<1> HIDE DEF e
<1>3. /\ pushed \in Seq(Events) /\ Len(pushed) = Len(ring[s]) + 1 /\ Len(ring[s]) \in Nat
      /\ \A i \in 1..Len(ring[s]) : pushed[i] = ring[s][i]
      /\ pushed[Len(ring[s]) + 1] = e
      BY <1>1, Appended
<1> HIDE DEF pushed
<1>4. /\ Len(ring'[s]) = Len(ring[s]) + 1 - k
      /\ \A i \in 1..(Len(ring[s]) + 1 - k) : ring'[s][i] = pushed[k + i]
      BY <1>2, <1>3
<1>5. Dropped(s)' = Dropped(s) + k
  <2>1. latest'[s] = latest[s] + 1 /\ k \in Nat  BY <1>2, <1>3
  <2>2. latest[s] + 1 - (Len(ring[s]) + 1 - k) = latest[s] - Len(ring[s]) + k
        BY <1>1, <1>3, <2>1
  <2> QED BY <1>4, <2>1, <2>2 DEF Dropped
<1>6. Dropped(s) \in Nat /\ Len(ring[s]) <= latest[s] /\ Numbered(ring[s], Dropped(s))
      BY <1>1, <1>3 DEF RingsInOrder, RingInOrder, Dropped
<1>7. RingInOrder(s)'
  <2>1. happened'[s] = latest'[s] /\ Len(ring'[s]) <= latest'[s]
        BY <1>1, <1>2, <1>3, <1>4, <1>6
  <2>2. \A i \in 1..Len(pushed) : pushed[i].sequence = Dropped(s) + i /\ pushed[i].event = Dropped(s) + i
    <3>1. Dropped(s) + (Len(ring[s]) + 1) = latest[s] + 1  BY <1>1, <1>3 DEF Dropped
    <3>2. ASSUME NEW i \in 1..Len(ring[s])
          PROVE  pushed[i].sequence = Dropped(s) + i /\ pushed[i].event = Dropped(s) + i
          BY <1>3, <1>6 DEF Numbered
    <3>3. \A i \in 1..Len(pushed) : i \in 1..Len(ring[s]) \/ i = Len(ring[s]) + 1  BY <1>3
    <3> QED BY <1>1, <1>3, <3>1, <3>2, <3>3
  <2>3. ASSUME NEW i \in 1..Len(ring'[s])
        PROVE  /\ ring'[s][i].sequence = Dropped(s)' + i
               /\ ring'[s][i].event = Dropped(s)' + i
    <3>1. k + i \in 1..Len(pushed) /\ ring'[s][i] = pushed[k + i]  BY <1>2, <1>3, <1>4
    <3>2. Dropped(s) + (k + i) = Dropped(s)' + i  BY <1>5, <1>6
    <3> QED BY <2>2, <3>1, <3>2
  <2> QED BY <2>1, <2>3 DEF RingInOrder, Numbered
<1>8. ASSUME NEW t \in Streams, t # s
      PROVE  RingInOrder(t)' /\ latest'[t] = latest[t] /\ Dropped(t)' = Dropped(t)
  <2>1. latest'[t] = latest[t] /\ happened'[t] = happened[t] /\ ring'[t] = ring[t]
        BY <1>2, <1>8
  <2>2. RingInOrder(t)  BY DEF RingsInOrder
  <2> QED BY <2>1, <2>2 DEF RingInOrder, Dropped
<1>9. \A t \in Streams : latest'[t] >= latest[t] /\ Dropped(t)' >= Dropped(t)
  <2>1. latest'[s] >= latest[s] /\ Dropped(s)' >= Dropped(s)  BY <1>1, <1>2, <1>5, <1>6
  <2>2. ASSUME NEW t \in Streams, t # s  PROVE latest'[t] >= latest[t] /\ Dropped(t)' >= Dropped(t)
    <3>1. latest[t] \in Nat /\ Dropped(t) \in Int
      <4>1. latest[t] \in Nat /\ ring[t] \in Seq(Events)  OBVIOUS
      <4>2. Len(ring[t]) \in Nat  BY <4>1
      <4> QED BY <4>1, <4>2 DEF Dropped
    <3>2. latest'[t] = latest[t] /\ Dropped(t)' = Dropped(t)  BY <1>8, <2>2
    <3> QED BY <3>1, <3>2
  <2> QED BY <2>1, <2>2
<1> QED BY <1>7, <1>8, <1>9 DEF RingsInOrder

\* A poll is answered with what ReplyInOrder says.
LEMMA PollKeepsOrder ==
  ASSUME TypeOK, PollInv, NEW limit \in 1..MaxPage, RecentEvents(limit)
  PROVE  PollInv'
<1> DEFINE rows == ring[stream]
           b == Dropped(stream)
           es == Page(RowsAfter(rows), limit)
<1>1. stream \in Streams /\ limit \in Nat \ {0}
      BY StreamAssumption DEF TypeOK, RecentEvents, Streams
<1>2. /\ reply' = [stream |-> stream, events |-> es, latest |-> latest[stream], happened |-> happened[stream]]
      /\ UNCHANGED <<stream, latest, happened, ring, at, position, got, upTo, resynced>>
      BY DEF RecentEvents, sessionVars, clientVars
<1>3. /\ rows \in Seq(Events) /\ Len(rows) \in Nat /\ latest[stream] \in Nat
      /\ b \in Nat /\ b + Len(rows) = latest[stream] /\ Numbered(rows, b)
      /\ happened[stream] = latest[stream] /\ position \in Nat
  <2>1. rows \in Seq(Events) /\ latest[stream] \in Nat  BY <1>1 DEF TypeOK
  <2>2. RingInOrder(stream) /\ position \in Nat  BY <1>1 DEF PollInv, RingsInOrder, PollTypes
  <2>3. Len(rows) \in Nat  BY <2>1
  <2> QED BY <2>1, <2>2, <2>3 DEF RingInOrder, Dropped
<1> HIDE DEF rows, b
<1>4. PageFollows(es, rows, b)
  <2>1. rows \in Seq(Events) /\ b \in Nat /\ Numbered(rows, b) /\ position \in Nat /\ limit \in Nat \ {0}
        BY <1>1, <1>3
  <2> QED BY <2>1, PageOfRing
<1> HIDE DEF es
<1>5. /\ reply'.stream = stream /\ reply'.events = es
      /\ reply'.latest = latest[stream] /\ reply'.happened = latest[stream]
      BY <1>2, <1>3
<1>6. PollTypes'  BY <1>1, <1>2, <1>3, <1>4, <1>5 DEF PageFollows, PollInv, PollTypes
<1>7. RingsInOrder' /\ ClientInOrder'
      BY <1>2 DEF PollInv, RingsInOrder, RingInOrder, Dropped, ClientInOrder, LossIsReported
<1>8. stream = at => position <= latest[stream]
      BY <1>1, StreamAssumption DEF PollInv, ClientInOrder, Streams
<1>9. Dropped(stream)' = b /\ latest'[stream] = latest[stream]  BY <1>2 DEF Dropped, b
<1>10. ASSUME NEW a \in Nat, Start(reply') = a, Numbered(es, a), a + Len(es) <= latest[stream],
              stream = at => position <= a /\ (a # position => a <= b)
       PROVE  ReplyInOrder'
  <2>1. Start(reply)' = a /\ Numbered(reply.events, Start(reply))'
        BY <1>5, <1>10 DEF Start, Numbered
  <2>2. latest'[reply'.stream] = latest[stream] /\ (stream = at => Dropped(at)' = b)
        BY <1>2, <1>5, <1>9
  <2> QED BY <1>2, <1>3, <1>5, <1>10, <2>1, <2>2 DEF ReplyInOrder
<1>11. ReplyInOrder'
  <2>1. CASE es = <<>>
    <3>1. Start(reply') = latest[stream] /\ Len(es) = 0  BY <1>5, <2>1, EmptyIfLen DEF Start
    <3>2. Numbered(es, latest[stream])  BY <3>1 DEF Numbered
    <3>3. stream = at /\ latest[stream] # position => b = latest[stream]
      <4> SUFFICES ASSUME stream = at, latest[stream] # position PROVE b = latest[stream]  OBVIOUS
      <4>1. ~(position >= b + Len(rows))  BY <1>3, <1>8
      <4>2. Len(rows) = 0  BY <1>3, <1>4, <2>1, <4>1, EmptyIfLen DEF PageFollows
      <4> QED BY <1>3, <4>2
    <3> QED BY <1>3, <1>8, <1>10, <3>1, <3>2, <3>3
  <2>2. CASE es # <<>>
    <3>1. PICK a \in Nat :
            /\ Len(es) \in Nat \ {0} /\ a + Len(es) <= b + Len(rows)
            /\ Numbered(es, a)
            /\ a >= position /\ a >= b /\ (a = position \/ a = b)
          BY <1>4, <2>2 DEF PageFollows
    <3>2. Start(reply') = a
      <4>1. es[1].sequence = a + 1  BY <3>1 DEF Numbered
      <4> QED BY <1>5, <2>2, <4>1 DEF Start
    <3>3. a # position => a <= b  BY <1>3, <3>1
    <3> QED BY <1>3, <1>10, <3>1, <3>2, <3>3
  <2> QED BY <2>1, <2>2
<1> QED BY <1>6, <1>7, <1>11 DEF PollInv

\* The client goes on from the last event it was given, and takes a stretch that
\* does not start where it was for a loss.
LEMMA AcceptKeepsOrder ==
  ASSUME TypeOK, PollInv, Accept
  PROVE  PollInv'
<1> DEFINE es == reply.events
           b == Start(reply)
           s == reply.stream
           n == Len(es)
<1>1. /\ reply # NoReply /\ reply' = NoReply /\ at' = s
      /\ position' = IF es = <<>> THEN reply.latest ELSE es[n].sequence
      /\ upTo' = IF es = <<>> THEN reply.happened ELSE es[n].event
      /\ got' = (IF s = at THEN got ELSE {}) \cup {es[i].event : i \in 1..n}
      /\ resynced' = IF Resync(reply) THEN reply.happened ELSE resynced
      /\ UNCHANGED <<latest, happened, ring>>
      BY DEF Accept, sessionVars
<1>2. /\ s \in Streams /\ es \in Seq(Events) /\ n \in Nat /\ reply.latest \in Nat
      /\ at \in Nat /\ position \in Nat /\ upTo = position /\ resynced \in Nat /\ latest[s] \in Nat
  <2>1. s \in Streams /\ es \in Seq(Events) /\ reply.latest \in Nat
        BY <1>1 DEF PollInv, PollTypes
  <2>2. n \in Nat  BY <2>1
  <2> QED BY <2>1, <2>2 DEF PollInv, PollTypes, ClientInOrder, TypeOK
<1>3. /\ reply.happened = reply.latest /\ reply.latest <= latest[s]
      /\ b \in Nat /\ b + n <= reply.latest /\ Numbered(es, b)
      /\ s = at => position <= b /\ (b # position => b <= Dropped(at))
      BY <1>1 DEF PollInv, ReplyInOrder
<1>4. (es = <<>> <=> n = 0) /\ (es = <<>> => b = reply.latest)  BY <1>2, EmptyIfLen DEF Start
<1> HIDE DEF b, n, es, s
<1>5. position' = b + n /\ upTo' = b + n
  <2>1. CASE es = <<>>  BY <1>1, <1>2, <1>3, <1>4, <2>1
  <2>2. CASE es # <<>>
    <3>1. n \in 1..n  BY <1>2, <1>4, <2>2
    <3>2. es[n].sequence = b + n /\ es[n].event = b + n  BY <3>1, <1>3 DEF Numbered, n
    <3> QED BY <1>1, <2>2, <3>2
  <2> QED BY <2>1, <2>2
<1>6. PollTypes'
  <2>1. at' \in Nat /\ position' \in Nat /\ upTo' \in Nat /\ resynced' \in Nat
        BY <1>1, <1>2, <1>3, <1>5, StreamAssumption DEF Streams
  <2> QED BY <1>1, <2>1 DEF PollTypes
<1>7. RingsInOrder'  BY <1>1 DEF PollInv, RingsInOrder, RingInOrder, Dropped
<1>8. ReplyInOrder'  BY <1>1 DEF ReplyInOrder
<1>9. LossIsReported'
  <2> SUFFICES ASSUME NEW m \in 1..(b + n)  PROVE m \in got' \/ m <= resynced'
      BY <1>5 DEF LossIsReported
  <2>1. CASE Resync(reply)
    <3>1. resynced' = reply.latest  BY <1>1, <1>3, <2>1
    <3> QED BY <1>2, <1>3, <3>1
  <2>2. CASE ~Resync(reply)
    <3>1. s = at /\ ~Gap(reply)  BY <2>2 DEF Resync, s
    <3>2. b = position
      <4>1. CASE es = <<>>  BY <1>4, <3>1, <4>1 DEF Gap, es
      <4>2. CASE es # <<>>
        <5>1. 1 \in 1..n  BY <1>2, <1>4, <4>2
        <5>2. es[1].sequence = position + 1  BY <3>1, <5>1 DEF Gap, es, n
        <5>3. es[1].sequence = b + 1  BY <1>3, <5>1 DEF Numbered, n
        <5> QED BY <1>2, <1>3, <5>2, <5>3
      <4> QED BY <4>1, <4>2
    <3>3. got' = got \cup {es[i].event : i \in 1..n} /\ resynced' = resynced  BY <1>1, <2>2, <3>1
    <3>4. CASE m <= position
      <4>1. m \in 1..upTo  BY <1>2, <1>3, <3>4
      <4> QED BY <3>3, <4>1 DEF PollInv, ClientInOrder, LossIsReported
    <3>5. CASE ~(m <= position)
      <4>1. m - b \in 1..n /\ b + (m - b) = m  BY <1>2, <1>3, <3>2, <3>5
      <4>2. es[m - b].event = m  BY <1>3, <4>1 DEF Numbered, n
      <4> QED BY <3>3, <4>1, <4>2
    <3> QED BY <3>4, <3>5
  <2> QED BY <2>1, <2>2
<1>10. ClientInOrder'
  <2>1. position' <= latest'[at']  BY <1>1, <1>2, <1>3, <1>5
  <2> QED BY <1>1, <1>2, <1>5, <1>9, <2>1 DEF ClientInOrder
<1> QED BY <1>6, <1>7, <1>8, <1>10 DEF PollInv

\* PollInv holds in every reachable state.
LEMMA PollInvariant == Spec => []PollInv
<1>1. Init => PollInv
  <2> SUFFICES ASSUME Init PROVE PollInv  OBVIOUS
  <2> USE DEF Init
  <2>1. PollTypes  BY DEF PollTypes
  <2>2. ReplyInOrder /\ ClientInOrder  BY DEF ReplyInOrder, ClientInOrder, LossIsReported
  <2>3. RingsInOrder
    <3> SUFFICES ASSUME NEW s \in Streams PROVE RingInOrder(s)  BY DEF RingsInOrder
    <3>1. ring[s] = <<>> /\ latest[s] = 0 /\ happened[s] = 0  OBVIOUS
    <3>2. Len(ring[s]) = 0  BY <3>1
    <3> QED BY <3>1, <3>2 DEF RingInOrder, Numbered
  <2> QED BY <2>1, <2>2, <2>3 DEF PollInv
<1>2. TypeOK /\ PollInv /\ [Next]_vars => PollInv'
  <2> SUFFICES ASSUME TypeOK, PollInv, [Next]_vars PROVE PollInv'  OBVIOUS
  <2>1. CASE UNCHANGED <<latest, happened, ring, reply, clientVars>>
        BY <2>1 DEF clientVars, PollInv, PollTypes, RingsInOrder, RingInOrder, Dropped, ReplyInOrder,
           ClientInOrder, LossIsReported
  <2>2. CASE Accept  BY <2>2, AcceptKeepsOrder
  <2>3. CASE \E limit \in 1..MaxPage : RecentEvents(limit)  BY <2>3, PollKeepsOrder
  <2>4. ASSUME NEW s \in Streams, NEW k \in 0..(Retained + 1), Receive(s, k)  PROVE PollInv'
    <3>1. RingsInOrder' /\ \A t \in Streams : latest'[t] >= latest[t] /\ Dropped(t)' >= Dropped(t)
          BY <2>4, ReceiveKeepsRing DEF PollInv
    <3>2. UNCHANGED <<reply, at, position, got, upTo, resynced>>  BY <2>4 DEF Receive, clientVars
    <3>3. \A t \in Streams : latest[t] \in Nat /\ latest'[t] \in Nat /\ Dropped(t) \in Int /\ Dropped(t)' \in Int
      <4>1. TypeOK'  BY <2>4, ReceiveKeepsTypes
      <4>2. \A t \in Streams : /\ latest[t] \in Nat /\ ring[t] \in Seq(Events)
                               /\ latest'[t] \in Nat /\ ring'[t] \in Seq(Events)
            BY <4>1 DEF TypeOK
      <4>3. \A t \in Streams : Len(ring[t]) \in Nat /\ Len(ring'[t]) \in Nat  BY <4>2
      <4> QED BY <4>2, <4>3 DEF Dropped
    <3>4. PollTypes'  BY <3>2 DEF PollInv, PollTypes
    <3>5. ReplyInOrder'
      <4> SUFFICES ASSUME reply # NoReply PROVE ReplyInOrder'  BY <3>2 DEF ReplyInOrder
      <4>1. reply.stream \in Streams /\ reply.latest \in Nat /\ position \in Nat
            BY DEF PollInv, PollTypes
      <4>2. ReplyInOrder  BY DEF PollInv
      <4> QED BY <3>1, <3>2, <3>3, <4>1, <4>2 DEF ReplyInOrder
    <3>6. ClientInOrder'
      <4>1. position \in Nat /\ ClientInOrder  BY DEF PollInv, PollTypes
      <4> QED BY <3>1, <3>2, <3>3, <4>1 DEF ClientInOrder, LossIsReported
    <3> QED BY <3>1, <3>4, <3>5, <3>6 DEF PollInv
  <2> QED BY <2>1, <2>2, <2>3, <2>4 DEF Next, vars, sessionVars, liveVars, Connect, ConnectFails, Close, CancelReader,
          TakeEvent, PostSucceeds, PostFails
<1> QED BY <1>1, <1>2, StreamTypeCorrect, PTL DEF Spec

\* A polling client loses no event silently, whatever limit it polls with and
\* however often sessions end and rings overflow between its polls.
THEOREM NoSilentLoss == Spec => []LossIsReported
  BY PollInvariant, PTL DEF PollInv, ClientInOrder

\* A client that misses a number of its stream misses an event that has left the
\* ring, also when the ring has moved on since it was answered.
THEOREM ReportedGapsAreReal == Spec => []GapsAreReal
<1>1. TypeOK /\ PollInv => GapsAreReal
  <2> SUFFICES ASSUME TypeOK, PollInv, reply # NoReply, reply.stream = at, Gap(reply),
                      NEW i \in 1..Len(ring[at])
               PROVE  ring[at][i].sequence # position + 1
      BY DEF GapsAreReal
  <2> DEFINE b == Start(reply)
             es == reply.events
             n == Len(es)
  <2>1. at \in Streams /\ es \in Seq(Events) /\ position \in Nat /\ latest[at] \in Nat /\ ring[at] \in Seq(Events)
        BY DEF PollInv, PollTypes, TypeOK
  <2>2. /\ b \in Nat /\ Numbered(es, b) /\ position <= b /\ (b # position => b <= Dropped(at))
        BY DEF PollInv, ReplyInOrder
  <2>3. n \in Nat /\ (es = <<>> => n = 0 /\ b = reply.latest)  BY <2>1, EmptyIfLen DEF Start
  <2> HIDE DEF b, es, n
  <2>4. b # position
    <3> SUFFICES ASSUME b = position PROVE FALSE  OBVIOUS
    <3>1. CASE es = <<>>
          BY <2>3, <3>1 DEF Gap, es, n
    <3>2. CASE es # <<>>
      <4>1. PICK j \in 1..n : es[j].sequence # position + j  BY <3>2 DEF Gap, es, n
      <4> QED BY <2>2, <4>1 DEF Numbered, n
    <3> QED BY <3>1, <3>2
  <2>5. ring[at][i].sequence = Dropped(at) + i  BY <2>1 DEF PollInv, RingsInOrder, RingInOrder, Numbered
  <2>6. Dropped(at) \in Int /\ i \in Nat /\ i >= 1
    <3>1. Len(ring[at]) \in Nat  BY <2>1
    <3> QED BY <2>1, <3>1 DEF Dropped
  <2> QED BY <2>1, <2>2, <2>4, <2>5, <2>6
<1> QED BY <1>1, PollInvariant, StreamTypeCorrect, PTL
=============================================================================
