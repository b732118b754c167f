------------------------ MODULE DesktopSessionProofs ------------------------
(* Proofs about DesktopSession, for any number of calls and connections and *)
(* any capacity of the outgoing channel.                                    *)
EXTENDS DesktopSession, SequenceTheorems, TLAPS

-----------------------------------------------------------------------------
(* Type correctness.                                                        *)

\* A call's current request is a request; a request is a frame, and neither of
\* the two other frame values is a request.
LEMMA RequestType ==
  ASSUME TypeOK, NEW c \in Calls
  PROVE  /\ Request(c) \in Requests
         /\ Request(c).call = c /\ Request(c).stage = stage[c]
         /\ Mutation(c) \in Requests
BY DEF TypeOK, Request, Requests, Stages, Mutation

\* Every frame is in one of the two types the queues and the writer's hand have.
LEMMA FrameTypes ==
  /\ Requests \subseteq Frames /\ ProbeReply \in Frames
  /\ ProbeReply \notin Requests /\ NoFrame \notin Frames
BY ConstantsAssumption DEF Frames, Requests, ProbeReply, NoFrame, Stages

\* Every result of a failed discovery is a definite failure.
LEMMA ErrorsAreDefinite == \A v : DiscoveryErrors(v) \subseteq NotSubmitted
BY DEF DiscoveryErrors, NotSubmitted

\* A settled mutation is never reported as not submitted, and as a turn that
\* runs only when the desktop answered with a success.
LEMMA MutationsAreNotRefused ==
  ASSUME NEW v, NEW code \in MutationCodes(v)
  PROVE  /\ code \in Results \ {"none"} /\ code \notin NotSubmitted
         /\ Report(code) = "ok" => v = "success"
<1>1. code \in {"ok", "502 IPC_PROTOCOL_MISMATCH", "IPC_OPERATION_OUTCOME_UNKNOWN"}
      BY DEF MutationCodes
<1>2. Report("IPC_OPERATION_OUTCOME_UNKNOWN") = "unknown"  BY DEF Report
<1>3. Report(code) = "ok" => v = "success"  BY <1>1, <1>2 DEF MutationCodes
<1> QED BY <1>1, <1>3 DEF Results, NotSubmitted

\* Every step of a call's thread keeps every variable in its type.
LEMMA CallTypeOK ==
  ASSUME TypeOK, NEW c \in Calls, CallStep(c) \/ TimeOut(c)
  PROVE  TypeOK'
<1>0. Request(c) \in Requests  BY RequestType
<1> USE ConstantsAssumption DEF TypeOK, clientVars, sessionVars, taskVars, callVars, Goto, Return
<1>1. CASE ConnectReuse(c)  BY <1>1 DEF ConnectReuse, GuardAlive
<1>2. CASE ConnectFail(c)   BY <1>2 DEF ConnectFail, Results, NotSubmitted
<1>3. CASE \E s \in Sessions : ConnectOpen(c, s)  BY <1>3 DEF ConnectOpen, MutexFree
<1>4. CASE SpawnWriter(c)   BY <1>4 DEF SpawnWriter
<1>5. CASE ConnectDone(c)   BY <1>5 DEF ConnectDone
<1>6. CASE InsertPending(c)
  <2>1. pending' \in [Sessions -> SUBSET Requests]
    <3>1. \A s \in Sessions : pending[s] \cup {Request(c)} \in SUBSET Requests  BY <1>0
    <3> QED BY <1>6, <3>1 DEF InsertPending
  <2> QED BY <1>6, <2>1 DEF InsertPending
<1>7. CASE CheckAlive(c)
  <2>1. verdict' \in [Calls -> Verdicts]  BY <1>7 DEF CheckAlive, Verdicts, Replies
  <2> QED BY <1>7, <2>1 DEF CheckAlive
<1>8. CASE TrySend(c)
  <2>1. \A s \in Sessions : Append(outgoing[s], Request(c)) \in Seq(Frames)
        BY <1>0, FrameTypes, AppendProperties
  <2>2. outgoing' \in [Sessions -> Seq(Frames)]
    <3>1. CASE UNCHANGED outgoing  BY <3>1
    <3>2. CASE outgoing' = [outgoing EXCEPT ![sess[c]] = Append(@, Request(c))]
          BY <2>1, <3>2
    <3> QED BY <1>8, <3>1, <3>2 DEF TrySend
  <2> QED BY <1>8, <2>2 DEF TrySend
<1>9. CASE Abandon(c)       BY <1>9 DEF Abandon, ForgetRequest, Results, NotSubmitted
<1>10. CASE TakeReply(c)
  <2>1. Head(inbox[Request(c)]) \in Replies /\ Tail(inbox[Request(c)]) \in Seq(Replies)
        BY <1>0, <1>10, HeadTailProperties DEF TakeReply
  <2> QED BY <1>0, <1>10, <2>1 DEF TakeReply, Verdicts
<1>11. CASE TimeOut(c)      BY <1>11 DEF TimeOut, Verdicts
<1>12. CASE DiscoveryUsable(c) BY <1>12 DEF DiscoveryUsable, ForgetRequest, Verdicts, Stages
<1>13. CASE DiscoveryFailed(c)
  <2>1. PICK code \in NotSubmitted : Return(c, code)
        BY <1>13, ErrorsAreDefinite DEF DiscoveryFailed
  <2>2. result' \in [Calls -> Results]  BY <2>1 DEF Results
  <2> QED BY <1>13, <2>1, <2>2 DEF DiscoveryFailed, ForgetRequest
<1>14. CASE MutationSettled(c)
  <2>1. PICK code \in Results : Return(c, code)
        BY <1>14, MutationsAreNotRefused DEF MutationSettled
  <2> QED BY <1>14, <2>1 DEF MutationSettled, ForgetRequest
<1> QED BY <1>1, <1>2, <1>3, <1>4, <1>5, <1>6, <1>7, <1>8, <1>9, <1>10, <1>11,
           <1>12, <1>13, <1>14 DEF CallStep, Connect

\* Every step of the tasks of a session keeps every variable in its type.
LEMMA SessionTypeOK ==
  ASSUME TypeOK, NEW s \in Sessions, ReaderStep(s) \/ WriterStep(s) \/ CloseStep(s)
  PROVE  TypeOK'
<1> USE FrameTypes DEF TypeOK, clientVars, sessionVars, taskVars, callVars, StartClose
<1>1. ASSUME NEW r \in Requests, NEW v \in {"success", "error"}, ReceiveResponse(s, r, v)
      PROVE  TypeOK'
  <2>1. Append(inbox[r], v) \in Seq(Replies)  BY AppendProperties DEF Replies
  <2> QED BY <1>1, <2>1 DEF ReceiveResponse
<1>2. CASE ReceiveProbe(s)
  <2>1. Append(outgoing[s], ProbeReply) \in Seq(Frames)  BY AppendProperties
  <2> QED BY <1>2, <2>1 DEF ReceiveProbe
<1>3. CASE ReaderFails(s)  BY <1>3 DEF ReaderFails
<1>4. CASE ReaderResets(s) BY <1>4 DEF ReaderResets
<1>5. CASE WriterTake(s)
  <2>1. Head(outgoing[s]) \in Frames /\ Tail(outgoing[s]) \in Seq(Frames)
        BY <1>5, HeadTailProperties DEF WriterTake
  <2> QED BY <1>5, <2>1 DEF WriterTake
<1>6. ASSUME Deliver(s)
      PROVE  arrivals' \in [Sessions -> [Requests -> Nat]]
  <2>1. CASE inHand[s] \in Requests
    <3>1. [arrivals[s] EXCEPT ![inHand[s]] = @ + 1] \in [Requests -> Nat]  BY <2>1
    <3>2. arrivals' = [arrivals EXCEPT ![s] = [arrivals[s] EXCEPT ![inHand[s]] = @ + 1]]
          BY <1>6, <2>1 DEF Deliver
    <3> QED BY <3>1, <3>2
  <2>2. CASE inHand[s] \notin Requests  BY <1>6, <2>2 DEF Deliver
  <2> QED BY <2>1, <2>2
<1>7. CASE WriteFrame(s)   BY <1>6, <1>7 DEF WriteFrame
<1>8. CASE WriterFails(s)
  <2>1. arrivals' \in [Sessions -> [Requests -> Nat]]  BY <1>6, <1>8 DEF WriterFails
  <2> QED BY <1>8, <2>1 DEF WriterFails
<1>9. CASE DrainPending(s)
  <2>1. \A r \in Requests : Append(inbox[r], "disconnected") \in Seq(Replies)
        BY AppendProperties DEF Replies
  <2>2. inbox' \in [Requests -> Seq(Replies)]  BY <1>9, <2>1 DEF DrainPending
  <2> QED BY <1>9, <2>2 DEF DrainPending
<1>10. CASE AbortTasks(s)   BY <1>10 DEF AbortTasks, Aborted
<1>11. CASE CancelReader(s) BY <1>11 DEF CancelReader
<1>12. CASE CancelWriter(s) BY <1>12 DEF CancelWriter
<1> HIDE DEF TypeOK
<1> QED BY <1>1, <1>2, <1>3, <1>4, <1>5, <1>7, <1>8, <1>9, <1>10, <1>11, <1>12
        DEF ReaderStep, WriterStep, CloseStep

\* A stuttering step keeps the types.
LEMMA StutterTypeOK == TypeOK /\ UNCHANGED vars => TypeOK'
BY DEF TypeOK, vars, clientVars, sessionVars, taskVars, callVars

\* The state of DesktopClient::new has the declared types.
LEMMA InitTypeOK == Init => TypeOK
BY ConstantsAssumption, EmptySeq DEF Init, TypeOK, Stages, Verdicts, Results

\* Type correctness of the whole model.
THEOREM TypeCorrect == Spec => []TypeOK
<1>1. Init => TypeOK  BY InitTypeOK
<1>2. TypeOK /\ [Next]_vars => TypeOK'
      BY CallTypeOK, SessionTypeOK, StutterTypeOK DEF Next
<1> QED BY <1>1, <1>2, PTL DEF Spec
-----------------------------------------------------------------------------
(* Sequences used as queues.                                                *)

\* Each frame is in the queue at most once.
Unique(queue, f) == \A i, j \in 1..Len(queue) : queue[i] = f /\ queue[j] = f => i = j

\* An append adds its element and nothing else.
LEMMA AppendHolds ==
  ASSUME NEW T, NEW q \in Seq(T), NEW x \in T, NEW f
  PROVE  /\ Holds(Append(q, x), f) <=> f = x \/ Holds(q, f)
         /\ Unique(q, f) /\ (f = x => ~Holds(q, f)) => Unique(Append(q, x), f)
<1>1. /\ Append(q, x) \in Seq(T) /\ Len(Append(q, x)) = Len(q) + 1 /\ Len(q) \in Nat
      /\ \A i \in 1..Len(q) : Append(q, x)[i] = q[i]
      /\ Append(q, x)[Len(q) + 1] = x
      BY AppendProperties
<1>2. \A i : i \in 1..(Len(q) + 1) <=> i \in 1..Len(q) \/ i = Len(q) + 1
      BY <1>1
<1>3. Holds(Append(q, x), f) <=> f = x \/ Holds(q, f)
      BY <1>1, <1>2 DEF Holds
<1>4. ASSUME Unique(q, f), f = x => ~Holds(q, f)
      PROVE  Unique(Append(q, x), f)
      BY <1>1, <1>2, <1>4 DEF Holds, Unique
<1> QED BY <1>3, <1>4

\* Removing the head removes nothing else, and all of a frame that occurs once.
LEMMA TailHolds ==
  ASSUME NEW T, NEW q \in Seq(T), q # <<>>, NEW f
  PROVE  /\ Holds(q, Head(q))
         /\ Holds(Tail(q), f) => Holds(q, f)
         /\ Unique(q, f) => Unique(Tail(q), f)
         /\ Unique(q, f) /\ f = Head(q) => ~Holds(Tail(q), f)
<1>1. /\ Tail(q) \in Seq(T) /\ Len(Tail(q)) = Len(q) - 1 /\ Len(q) \in Nat \ {0}
      /\ \A i \in 1..Len(Tail(q)) : Tail(q)[i] = q[i + 1]
      /\ Head(q) = q[1]
      BY HeadTailProperties
<1>2. \A i \in 1..Len(Tail(q)) : i + 1 \in 1..Len(q) /\ i + 1 # 1
      BY <1>1
<1>3. 1 \in 1..Len(q)  BY <1>1
<1>4. Holds(q, Head(q)) /\ (Holds(Tail(q), f) => Holds(q, f))
      BY <1>1, <1>2, <1>3 DEF Holds
<1>5. Unique(q, f) => Unique(Tail(q), f)
      BY <1>1, <1>2 DEF Unique
<1>6. Unique(q, f) /\ f = Head(q) => ~Holds(Tail(q), f)
      BY <1>1, <1>2, <1>3 DEF Unique, Holds
<1> QED BY <1>4, <1>5, <1>6
-----------------------------------------------------------------------------
(* The inductive invariant behind the delivery properties: where a request  *)
(* can be, given how far its call has come.                                 *)

Present(s, r) == OnItsWay(s, r) \/ arrivals[s][r] > 0

\* The call has queued the request, and was not told that it had failed to.
MaybeSent(r) ==
  \/ r.stage = "discovery" /\ stage[r.call] = "mutation"
  \/ /\ r.stage = stage[r.call]
     /\ pc[r.call] \in {"wait", "settle", "done"}
     /\ result[r.call] \in NotSubmitted => r.stage = "discovery"

\* A request is somewhere only after its call queued it, on the call's session.
PresentOnlyIfSent ==
  \A s \in Sessions, r \in Requests :
    Present(s, r) => MaybeSent(r) /\ sess[r.call] = s

\* A request is in the queue, in the writer's hand or at the desktop, once.
InOnePlace ==
  \A s \in Sessions, r \in Requests :
    /\ arrivals[s][r] \in {0, 1}
    /\ arrivals[s][r] = 1 => ~OnItsWay(s, r)
    /\ inHand[s] = r => ~InQueue(s, r)
    /\ Unique(outgoing[s], r)

\* Results are final, and a call connects before its first request only.
CallPhases ==
  \A c \in Calls :
    /\ result[c] # "none" <=> pc[c] = "done"
    /\ pc[c] \in {"idle", "opened", "spawned"} => stage[c] = "discovery"

Arrived(r) == \E s \in Sessions : arrivals[s][r] > 0

\* The desktop answers only what it has received.
SuccessMeansArrived ==
  /\ \A r \in Requests : Holds(inbox[r], "success") => Arrived(r)
  /\ \A c \in Calls : pc[c] = "settle" /\ verdict[c] = "success" => Arrived(Request(c))

DeliveryInv ==
  TypeOK /\ PresentOnlyIfSent /\ InOnePlace /\ CallPhases /\ SuccessMeansArrived

\* The thread of a call touches the channel only to append its request, and
\* neither the writer's hand nor what the desktop has.
LEMMA CallEffect ==
  ASSUME TypeOK, NEW c \in Calls, CallStep(c) \/ TimeOut(c)
  PROVE  /\ UNCHANGED <<inHand, arrivals>>
         /\ \/ UNCHANGED outgoing
            \/ /\ pc[c] = "queue" /\ pc' = [pc EXCEPT ![c] = "wait"]
               /\ outgoing' = [outgoing EXCEPT ![sess[c]] = Append(@, Request(c))]
               /\ UNCHANGED <<stage, sess, result>>
BY DEF CallStep, Connect, ConnectReuse, ConnectFail, ConnectOpen, MutexFree, SpawnWriter, ConnectDone,
       InsertPending, CheckAlive, TrySend, Abandon, ForgetRequest, TakeReply, TimeOut, DiscoveryUsable,
       DiscoveryFailed, MutationSettled, MutationCodes, sessionVars, callVars, taskVars, Goto

\* What a call may have sent it stays responsible for, on the same session.
LEMMA SentStays ==
  ASSUME TypeOK, CallPhases, NEW c \in Calls, CallStep(c) \/ TimeOut(c),
         NEW r \in Requests, MaybeSent(r)
  PROVE  MaybeSent(r)' /\ sess'[r.call] = sess[r.call]
<1> r.call \in Calls /\ r.stage \in Stages  BY DEF Requests
<1> USE DEF MaybeSent, TypeOK, CallPhases, Goto, Return
<1>1. CASE Connect(c)
      BY <1>1 DEF Connect, ConnectReuse, ConnectFail, ConnectOpen, MutexFree, SpawnWriter, ConnectDone
<1>2. CASE InsertPending(c) BY <1>2 DEF InsertPending
<1>3. CASE CheckAlive(c)    BY <1>3 DEF CheckAlive
<1>4. CASE TrySend(c)       BY <1>4 DEF TrySend
<1>5. CASE Abandon(c)       BY <1>5 DEF Abandon, ForgetRequest
<1>6. CASE TakeReply(c)     BY <1>6 DEF TakeReply
<1>7. CASE TimeOut(c)       BY <1>7 DEF TimeOut
<1>8. CASE DiscoveryUsable(c) BY <1>8 DEF DiscoveryUsable, Stages
<1>9. CASE DiscoveryFailed(c) BY <1>9 DEF DiscoveryFailed
<1>10. CASE MutationSettled(c)
  <2>1. PICK code \in Results : Return(c, code) /\ code \notin NotSubmitted
        BY <1>10, MutationsAreNotRefused DEF MutationSettled
  <2> QED BY <1>10, <2>1 DEF MutationSettled
<1> QED BY <1>1, <1>2, <1>3, <1>4, <1>5, <1>6, <1>7, <1>8, <1>9, <1>10 DEF CallStep

\* A call keeps its request, its session and its phase consistent at every step
\* of its thread.
LEMMA CallPhasesStep ==
  ASSUME TypeOK, CallPhases, NEW c \in Calls, CallStep(c) \/ TimeOut(c)
  PROVE  CallPhases'
<1> USE DEF TypeOK, CallPhases, Goto, Return
<1>1. CASE Connect(c)
      BY <1>1 DEF Connect, ConnectReuse, ConnectFail, ConnectOpen, MutexFree, SpawnWriter, ConnectDone
<1>2. CASE InsertPending(c) BY <1>2 DEF InsertPending
<1>3. CASE CheckAlive(c)    BY <1>3 DEF CheckAlive
<1>4. CASE TrySend(c)       BY <1>4 DEF TrySend
<1>5. CASE Abandon(c)       BY <1>5 DEF Abandon, ForgetRequest
<1>6. CASE TakeReply(c)     BY <1>6 DEF TakeReply
<1>7. CASE TimeOut(c)       BY <1>7 DEF TimeOut
<1>8. CASE DiscoveryUsable(c) BY <1>8 DEF DiscoveryUsable
<1>9. CASE DiscoveryFailed(c)
  <2>1. PICK code \in NotSubmitted : Return(c, code)
        BY <1>9, ErrorsAreDefinite DEF DiscoveryFailed
  <2>2. code # "none"  BY DEF NotSubmitted
  <2> QED BY <1>9, <2>1, <2>2 DEF DiscoveryFailed
<1>10. CASE MutationSettled(c)
  <2>1. PICK code \in Results \ {"none"} : Return(c, code)
        BY <1>10, MutationsAreNotRefused DEF MutationSettled
  <2> QED BY <1>10, <2>1 DEF MutationSettled
<1> QED BY <1>1, <1>2, <1>3, <1>4, <1>5, <1>6, <1>7, <1>8, <1>9, <1>10 DEF CallStep

\* A call's thread leaves every request in one place, and the request it queues
\* was nowhere before.
LEMMA PresenceCall ==
  ASSUME DeliveryInv, NEW c \in Calls, CallStep(c) \/ TimeOut(c)
  PROVE  (PresentOnlyIfSent /\ InOnePlace)'
<1> USE DEF DeliveryInv
<1>1. CASE UNCHANGED outgoing
  <2>1. \A s \in Sessions, r \in Requests : Present(s, r)' => Present(s, r)
        BY <1>1, CallEffect DEF Present, OnItsWay, InQueue
  <2>2. PresentOnlyIfSent'  BY <2>1, SentStays DEF PresentOnlyIfSent
  <2>3. InOnePlace'  BY <1>1, CallEffect DEF InOnePlace, OnItsWay, InQueue
  <2> QED BY <2>2, <2>3
<1>2. ASSUME pc[c] = "queue", pc' = [pc EXCEPT ![c] = "wait"],
             outgoing' = [outgoing EXCEPT ![sess[c]] = Append(@, Request(c))],
             UNCHANGED <<stage, sess, result>>
      PROVE  (PresentOnlyIfSent /\ InOnePlace)'
  <2>1. PICK q \in Requests : q = Request(c) /\ q.call = c /\ q.stage = stage[c] /\ q \in Frames
        BY RequestType, FrameTypes
  <2>2. ~MaybeSent(q)  BY <1>2, <2>1 DEF MaybeSent, CallPhases
  <2>3. \A s \in Sessions : ~Present(s, q)  BY <2>1, <2>2 DEF PresentOnlyIfSent
  <2>4. MaybeSent(q)'
    <3>1. result[c] = "none" /\ "none" \notin NotSubmitted
          BY <1>2 DEF CallPhases, NotSubmitted, TypeOK, Results
    <3>2. pc'[c] = "wait" /\ stage'[c] = stage[c] /\ result'[c] = result[c]
          BY <1>2 DEF TypeOK
    <3> QED BY <2>1, <3>1, <3>2 DEF MaybeSent
  <2>5. UNCHANGED <<inHand, arrivals>>  BY CallEffect
  <2>6. ASSUME NEW s \in Sessions, NEW r \in Requests
        PROVE  /\ InQueue(s, r)' => InQueue(s, r) \/ (r = q /\ s = sess[c])
               /\ Unique(outgoing'[s], r)
    <3>1. outgoing[s] \in Seq(Frames)  BY DEF TypeOK
    <3>2. Unique(outgoing[s], r) /\ (r = q => ~Holds(outgoing[s], r))
          BY <2>3 DEF InOnePlace, Present, OnItsWay, InQueue
    <3>3. CASE s = sess[c]
      <4>1. outgoing'[s] = Append(outgoing[s], q)  BY <1>2, <2>1, <3>3 DEF TypeOK
      <4> QED BY <2>1, <3>1, <3>2, <3>3, <4>1, AppendHolds DEF InQueue
    <3>4. CASE s # sess[c]
      <4>1. outgoing'[s] = outgoing[s]  BY <1>2, <3>4 DEF TypeOK
      <4> QED BY <3>2, <4>1 DEF InQueue
    <3> QED BY <3>3, <3>4
  <2>7. ASSUME NEW s \in Sessions, NEW r \in Requests, r # q
        PROVE  Present(s, r)' => Present(s, r)
        BY <2>5, <2>6, <2>7 DEF Present, OnItsWay
  <2>8. PresentOnlyIfSent'
    <3> SUFFICES ASSUME NEW s \in Sessions, NEW r \in Requests, Present(s, r)'
                 PROVE  MaybeSent(r)' /\ sess'[r.call] = s
        BY DEF PresentOnlyIfSent
    <3>1. CASE r = q
      <4>1. InQueue(s, q)'  BY <2>3, <2>5, <3>1 DEF Present, OnItsWay
      <4>2. ~InQueue(s, q)  BY <2>3 DEF Present, OnItsWay
      <4> QED BY <1>2, <2>1, <2>4, <2>6, <3>1, <4>1, <4>2
    <3>2. CASE r # q  BY <2>7, <3>2, SentStays DEF PresentOnlyIfSent
    <3> QED BY <3>1, <3>2
  <2>9. InOnePlace'
    <3> SUFFICES ASSUME NEW s \in Sessions, NEW r \in Requests
                 PROVE  /\ arrivals[s][r] \in {0, 1}
                        /\ arrivals[s][r] = 1 => ~OnItsWay(s, r)'
                        /\ inHand[s] = r => ~InQueue(s, r)'
                        /\ Unique(outgoing'[s], r)
        BY <2>5 DEF InOnePlace
    <3>1. CASE r = q  BY <2>1, <2>3, <2>5, <2>6, <3>1 DEF InOnePlace, Present, OnItsWay
    <3>2. CASE r # q  BY <2>5, <2>6, <3>2 DEF InOnePlace, OnItsWay
    <3> QED BY <3>1, <3>2
  <2> QED BY <2>8, <2>9
<1> QED BY <1>1, <1>2, CallEffect

\* The tasks of a session do not touch the threads of the calls.
LEMMA SessionEffect ==
  ASSUME NEW s \in Sessions, ReaderStep(s) \/ WriterStep(s) \/ CloseStep(s)
  PROVE  /\ UNCHANGED callVars
         /\ \/ UNCHANGED <<outgoing, inHand, arrivals>>
            \/ /\ outgoing' = [outgoing EXCEPT ![s] = Append(@, ProbeReply)]
               /\ UNCHANGED <<inHand, arrivals>>
            \/ /\ inHand[s] = NoFrame /\ outgoing[s] # <<>>
               /\ inHand' = [inHand EXCEPT ![s] = Head(outgoing[s])]
               /\ outgoing' = [outgoing EXCEPT ![s] = Tail(@)]
               /\ UNCHANGED arrivals
            \/ /\ inHand' = [inHand EXCEPT ![s] = NoFrame]
               /\ Deliver(s) \/ UNCHANGED arrivals
               /\ UNCHANGED outgoing
BY DEF ReaderStep, WriterStep, CloseStep, ReceiveResponse, ReceiveProbe, ReaderFails, ReaderResets,
       WriterTake, WriteFrame, WriterFails, DrainPending, AbortTasks, Aborted, CancelReader, CancelWriter,
       sessionVars, taskVars, callVars

\* The tasks of a session move a request forward, or lose it, and never copy it.
LEMMA PresenceSession ==
  ASSUME DeliveryInv, NEW s \in Sessions, ReaderStep(s) \/ WriterStep(s) \/ CloseStep(s)
  PROVE  (PresentOnlyIfSent /\ InOnePlace)'
<1> USE DEF DeliveryInv
<1>1. \A r \in Requests : (MaybeSent(r)' <=> MaybeSent(r)) /\ sess'[r.call] = sess[r.call]
      BY SessionEffect DEF MaybeSent, callVars
<1>2. SUFFICES ASSUME NEW t \in Sessions, NEW r \in Requests
               PROVE  /\ Present(t, r)' => Present(t, r)
                      /\ arrivals'[t][r] \in {0, 1}
                      /\ arrivals'[t][r] = 1 => ~OnItsWay(t, r)'
                      /\ inHand'[t] = r => ~InQueue(t, r)'
                      /\ Unique(outgoing'[t], r)
      BY <1>1 DEF PresentOnlyIfSent, InOnePlace
<1>3. /\ arrivals[t][r] \in {0, 1}
      /\ arrivals[t][r] = 1 => ~OnItsWay(t, r)
      /\ inHand[t] = r => ~InQueue(t, r)
      /\ Unique(outgoing[t], r)
      BY DEF InOnePlace
<1>4. outgoing[s] \in Seq(Frames) /\ r # NoFrame /\ r # ProbeReply
      BY FrameTypes DEF TypeOK
<1> USE DEF Present, OnItsWay, InQueue
<1>5. CASE UNCHANGED <<outgoing, inHand, arrivals>>  BY <1>3, <1>5
<1>6. CASE t # s
  <2>0. /\ outgoing \in [Sessions -> Seq(Frames)] /\ inHand \in [Sessions -> Frames \cup {NoFrame}]
        /\ arrivals \in [Sessions -> [Requests -> Nat]]
        BY DEF TypeOK
  <2> HIDE DEF DeliveryInv, Present, OnItsWay, InQueue
  <2>3. outgoing'[t] = outgoing[t]  BY <1>6, <2>0, SessionEffect
  <2>4. inHand'[t] = inHand[t]  BY <1>6, <2>0, SessionEffect
  <2>5. arrivals'[t] = arrivals[t]  BY <1>6, <2>0, SessionEffect DEF Deliver
  <2>1. outgoing'[t] = outgoing[t] /\ inHand'[t] = inHand[t] /\ arrivals'[t] = arrivals[t]
        BY <2>3, <2>4, <2>5
  <2> USE DEF DeliveryInv, Present, OnItsWay, InQueue
  <2> QED BY <1>3, <2>1
<1>7. ASSUME t = s, outgoing' = [outgoing EXCEPT ![s] = Append(@, ProbeReply)],
             UNCHANGED <<inHand, arrivals>>
      PROVE  /\ Present(t, r)' => Present(t, r)
             /\ arrivals'[t][r] \in {0, 1}
             /\ arrivals'[t][r] = 1 => ~OnItsWay(t, r)'
             /\ inHand'[t] = r => ~InQueue(t, r)'
             /\ Unique(outgoing'[t], r)
  <2>1. outgoing'[s] = Append(outgoing[s], ProbeReply)  BY <1>7 DEF TypeOK
  <2>2. /\ Holds(outgoing'[s], r) <=> Holds(outgoing[s], r)
        /\ Unique(outgoing'[s], r)
        BY <1>3, <1>4, <1>7, <2>1, AppendHolds, FrameTypes
  <2> QED BY <1>3, <1>7, <2>2
<1>8. ASSUME t = s, inHand[s] = NoFrame, outgoing[s] # <<>>,
             inHand' = [inHand EXCEPT ![s] = Head(outgoing[s])],
             outgoing' = [outgoing EXCEPT ![s] = Tail(@)], UNCHANGED arrivals
      PROVE  /\ Present(t, r)' => Present(t, r)
             /\ arrivals'[t][r] \in {0, 1}
             /\ arrivals'[t][r] = 1 => ~OnItsWay(t, r)'
             /\ inHand'[t] = r => ~InQueue(t, r)'
             /\ Unique(outgoing'[t], r)
  <2>1. outgoing'[s] = Tail(outgoing[s]) /\ inHand'[s] = Head(outgoing[s])
        BY <1>8 DEF TypeOK
  <2>2. /\ Holds(outgoing'[s], r) => Holds(outgoing[s], r)
        /\ inHand'[s] = r => Holds(outgoing[s], r) /\ ~Holds(outgoing'[s], r)
        /\ Unique(outgoing'[s], r)
        BY <1>3, <1>4, <1>8, <2>1, TailHolds
  <2> QED BY <1>3, <1>8, <2>2
<1>9. ASSUME t = s, inHand' = [inHand EXCEPT ![s] = NoFrame],
             Deliver(s) \/ UNCHANGED arrivals, UNCHANGED outgoing
      PROVE  /\ Present(t, r)' => Present(t, r)
             /\ arrivals'[t][r] \in {0, 1}
             /\ arrivals'[t][r] = 1 => ~OnItsWay(t, r)'
             /\ inHand'[t] = r => ~InQueue(t, r)'
             /\ Unique(outgoing'[t], r)
  <2>1. inHand'[s] = NoFrame  BY <1>9 DEF TypeOK
  <2>2. CASE inHand[s] = r /\ Deliver(s)
    <3>1. arrivals'[s][r] = arrivals[s][r] + 1  BY <2>2 DEF Deliver, TypeOK
    <3>2. arrivals[s][r] = 0  BY <1>3, <1>9, <2>2
    <3> QED BY <1>3, <1>4, <1>9, <2>1, <2>2, <3>1, <3>2
  <2>3. CASE ~(inHand[s] = r /\ Deliver(s))
    <3>1. arrivals'[s][r] = arrivals[s][r]  BY <1>9, <2>3 DEF Deliver, TypeOK
    <3> QED BY <1>3, <1>4, <1>9, <2>1, <3>1
  <2> QED BY <2>2, <2>3
<1> QED BY <1>5, <1>6, <1>7, <1>8, <1>9, SessionEffect

\* What the desktop has received it keeps.
LEMMA ArrivedStays ==
  ASSUME TypeOK, Next, NEW r \in Requests, Arrived(r)
  PROVE  Arrived(r)'
<1>1. PICK t \in Sessions : arrivals[t][r] > 0  BY DEF Arrived
<1>2. arrivals'[t][r] >= arrivals[t][r]
  <2>1. CASE UNCHANGED arrivals  BY <2>1 DEF TypeOK
  <2>2. ASSUME NEW s \in Sessions, Deliver(s)
        PROVE  arrivals'[t][r] >= arrivals[t][r]
    <3>1. CASE s = t /\ inHand[s] = r  BY <2>2, <3>1 DEF Deliver, TypeOK
    <3>2. CASE ~(s = t /\ inHand[s] = r)
      <4>1. arrivals'[t][r] = arrivals[t][r]  BY <2>2, <3>2 DEF Deliver, TypeOK
      <4> QED BY <4>1 DEF TypeOK
    <3> QED BY <3>1, <3>2
  <2> QED BY <2>1, <2>2, CallEffect, SessionEffect DEF Next
<1>3. arrivals'[t][r] \in Nat /\ arrivals[t][r] \in Nat
      BY CallTypeOK, SessionTypeOK DEF Next, TypeOK
<1> QED BY <1>1, <1>2, <1>3 DEF Arrived

\* A success in the hands of a call means that its request had arrived: kept by
\* the steps of calls.
LEMMA SuccessCall ==
  ASSUME DeliveryInv, Next, NEW c \in Calls, CallStep(c) \/ TimeOut(c)
  PROVE  SuccessMeansArrived'
<1> USE DEF DeliveryInv, SuccessMeansArrived
<1>1. \A r \in Requests : Arrived(r) => Arrived(r)'  BY ArrivedStays
<1>2. Request(c) \in Requests  BY RequestType
<1>3. CASE TakeReply(c)
  <2>1. PICK q \in Requests : q = Request(c) /\ q = Request(c)'
        BY <1>2, <1>3 DEF TakeReply, callVars, Request
  <2>2. inbox[q] \in Seq(Replies) /\ inbox[q] # <<>>
        BY <1>3, <2>1 DEF TakeReply, TypeOK
  <2>3. inbox' = [inbox EXCEPT ![q] = Tail(@)]  BY <1>3, <2>1 DEF TakeReply
  <2>4. \A r \in Requests : Holds(inbox'[r], "success") => Holds(inbox[r], "success")
    <3>1. Holds(Tail(inbox[q]), "success") => Holds(inbox[q], "success")
          BY <2>2, TailHolds
    <3> QED BY <2>3, <3>1 DEF TypeOK
  <2>5. verdict'[c] = "success" => Holds(inbox[q], "success")
    <3>1. verdict'[c] = Head(inbox[q])  BY <1>3, <2>1 DEF TakeReply, TypeOK
    <3> QED BY <2>2, <3>1, TailHolds
  <2>6. ASSUME NEW d \in Calls, d # c
        PROVE  pc'[d] = pc[d] /\ verdict'[d] = verdict[d] /\ Request(d)' = Request(d)
        BY <1>3, <2>6 DEF TakeReply, Goto, TypeOK, Request
  <2>7. \A d \in Calls : Request(d) \in Requests  BY RequestType
  <2> QED BY <1>1, <2>1, <2>4, <2>5, <2>6, <2>7
<1>4. CASE ~TakeReply(c)
  <2>1. UNCHANGED inbox
        BY <1>4 DEF CallStep, Connect, ConnectReuse, ConnectFail, ConnectOpen, MutexFree, SpawnWriter,
           ConnectDone, InsertPending, CheckAlive, TrySend, Abandon, ForgetRequest, TimeOut, DiscoveryUsable,
           DiscoveryFailed, MutationSettled, MutationCodes
  <2>2. \A d \in Calls : pc'[d] = "settle" /\ verdict'[d] = "success" =>
          pc[d] = "settle" /\ verdict[d] = "success" /\ Request(d)' = Request(d)
        BY <1>4 DEF CallStep, Connect, ConnectReuse, ConnectFail, ConnectOpen, MutexFree, SpawnWriter,
           ConnectDone, InsertPending, CheckAlive, TrySend, Abandon, ForgetRequest, TimeOut, DiscoveryUsable,
           DiscoveryFailed, MutationSettled, Goto, Return, TypeOK, Request
  <2>3. \A d \in Calls : Request(d) \in Requests  BY RequestType
  <2> QED BY <1>1, <2>1, <2>2, <2>3
<1> QED BY <1>3, <1>4

\* The same, kept by the steps of the two tasks and of close().
LEMMA SuccessSession ==
  ASSUME DeliveryInv, Next, NEW s \in Sessions, ReaderStep(s) \/ WriterStep(s) \/ CloseStep(s)
  PROVE  SuccessMeansArrived'
<1> USE DEF DeliveryInv, SuccessMeansArrived
<1>1. \A r \in Requests : Arrived(r) => Arrived(r)'  BY ArrivedStays
<1>2. \A c \in Calls : Request(c)' = Request(c) /\ Request(c) \in Requests
      BY SessionEffect, RequestType DEF Request, callVars
<1>3. \A r \in Requests : Holds(inbox'[r], "success") => Holds(inbox[r], "success") \/ Arrived(r)
  <2> SUFFICES ASSUME NEW q \in Requests, Holds(inbox'[q], "success")
               PROVE  Holds(inbox[q], "success") \/ Arrived(q)
      OBVIOUS
  <2>0. inbox[q] \in Seq(Replies)  BY DEF TypeOK
  <2>1. CASE UNCHANGED inbox  BY <2>1
  <2>2. ASSUME NEW r \in Requests, NEW v \in {"success", "error"}, ReceiveResponse(s, r, v)
        PROVE  Holds(inbox[q], "success") \/ Arrived(q)
    <3>1. CASE q = r  BY <2>2, <3>1 DEF ReceiveResponse, Arrived
    <3>2. CASE q # r  BY <2>2, <3>2 DEF ReceiveResponse, TypeOK
    <3> QED BY <3>1, <3>2
  <2>3. CASE DrainPending(s)
    <3>1. CASE q \in pending[s]
      <4>1. inbox'[q] = Append(inbox[q], "disconnected")  BY <2>3, <3>1 DEF DrainPending
      <4> QED BY <2>0, <4>1, AppendHolds DEF Replies
    <3>2. CASE q \notin pending[s]  BY <2>3, <3>2 DEF DrainPending
    <3> QED BY <3>1, <3>2
  <2> QED BY <2>1, <2>2, <2>3 DEF ReaderStep, WriterStep, CloseStep, ReceiveProbe, ReaderFails,
        ReaderResets, WriterTake, WriteFrame, WriterFails, AbortTasks, Aborted, CancelReader, CancelWriter
<1> QED BY <1>1, <1>2, <1>3, SessionEffect DEF callVars

\* The invariant is inductive.
LEMMA DeliveryInvariant == Spec => []DeliveryInv
<1>1. Init => DeliveryInv
  <2> SUFFICES ASSUME Init PROVE DeliveryInv  OBVIOUS
  <2>1. TypeOK  BY InitTypeOK
  <2>2. \A s \in Sessions, r \in Requests :
          ~OnItsWay(s, r) /\ arrivals[s][r] = 0 /\ Unique(outgoing[s], r)
        BY FrameTypes DEF Init, OnItsWay, InQueue, Holds, Unique, Frames
  <2>3. \A r \in Requests : ~Holds(inbox[r], "success")  BY DEF Init, Holds
  <2>4. PresentOnlyIfSent  BY <2>2 DEF PresentOnlyIfSent, Present
  <2>5. InOnePlace  BY <2>2 DEF InOnePlace, OnItsWay
  <2>6. CallPhases  BY DEF Init, CallPhases
  <2>7. SuccessMeansArrived  BY <2>3 DEF SuccessMeansArrived, Init
  <2> QED BY <2>1, <2>4, <2>5, <2>6, <2>7 DEF DeliveryInv
<1>2. DeliveryInv /\ [Next]_vars => DeliveryInv'
  <2> SUFFICES ASSUME DeliveryInv, [Next]_vars PROVE DeliveryInv'  OBVIOUS
  <2>1. ASSUME NEW c \in Calls, CallStep(c) \/ TimeOut(c), Next
        PROVE  DeliveryInv'
        BY <2>1, CallTypeOK, PresenceCall, CallPhasesStep, SuccessCall DEF DeliveryInv
  <2>2. ASSUME NEW s \in Sessions, ReaderStep(s) \/ WriterStep(s) \/ CloseStep(s), Next
        PROVE  DeliveryInv'
    <3>1. CallPhases'  BY <2>2, SessionEffect DEF DeliveryInv, CallPhases, callVars
    <3> QED BY <2>2, <3>1, SessionTypeOK, PresenceSession, SuccessSession DEF DeliveryInv
  <2>3. CASE UNCHANGED vars
    <3>1. TypeOK'  BY <2>3, StutterTypeOK DEF DeliveryInv
    <3> QED BY <2>3, <3>1 DEF DeliveryInv, vars, clientVars, sessionVars, taskVars, callVars,
          PresentOnlyIfSent, InOnePlace, CallPhases, SuccessMeansArrived, Present, OnItsWay,
          InQueue, MaybeSent, Arrived, Request
  <2> QED BY <2>1, <2>2, <2>3 DEF Next
<1> QED BY <1>1, <1>2, PTL DEF Spec

\* No request reaches the desktop twice.
THEOREM DeliveredAtMostOnce == Spec => []AtMostOnce
<1>1. DeliveryInv => AtMostOnce
  <2> SUFFICES ASSUME DeliveryInv, NEW r \in Requests, NEW s \in Sessions, NEW t \in Sessions
               PROVE  /\ arrivals[s][r] <= 1
                      /\ arrivals[s][r] > 0 /\ s # t => arrivals[t][r] = 0
      BY DEF AtMostOnce
  <2>1. arrivals[s][r] \in {0, 1} /\ arrivals[t][r] \in {0, 1}
        BY DEF DeliveryInv, InOnePlace
  <2>2. arrivals[s][r] > 0 /\ arrivals[t][r] > 0 => s = t
        BY DEF DeliveryInv, PresentOnlyIfSent, Present
  <2> QED BY <2>1, <2>2
<1> QED BY <1>1, DeliveryInvariant, PTL

\* A definite failure is the truth: the mutation is neither at the desktop nor
\* on its way to it, and by the invariant never will be.
THEOREM DefiniteFailures == Spec => []DefiniteFailureNotDelivered
<1>1. DeliveryInv => DefiniteFailureNotDelivered
  <2> SUFFICES ASSUME DeliveryInv, NEW c \in Calls, NEW s \in Sessions, result[c] \in NotSubmitted
               PROVE  ~OnItsWay(s, Mutation(c)) /\ arrivals[s][Mutation(c)] = 0
      BY DEF DefiniteFailureNotDelivered
  <2>1. Mutation(c) \in Requests  BY RequestType DEF DeliveryInv
  <2>2. ~MaybeSent(Mutation(c))  BY DEF MaybeSent, Mutation
  <2>3. ~Present(s, Mutation(c))  BY <2>1, <2>2 DEF DeliveryInv, PresentOnlyIfSent
  <2> QED BY <2>1, <2>3 DEF Present, DeliveryInv, InOnePlace
<1> QED BY <1>1, DeliveryInvariant, PTL

-----------------------------------------------------------------------------
(* The session implements WriteOutcome.                                     *)

\* The mapped outcome of a call changes by a report only.
LEMMA OutcomeCall ==
  ASSUME DeliveryInv, NEW c \in Calls, CallStep(c) \/ TimeOut(c)
  PROVE  [Outcome!Next]_(Outcome!vars)
<1> USE DEF DeliveryInv, TypeOK
<1> DEFINE out == [d \in Calls |-> Report(result[d])]
           del == [d \in Calls |-> [s \in Sessions |-> arrivals[s][Mutation(d)]]]
<1>1. UNCHANGED arrivals /\ UNCHANGED del  BY CallEffect
<1>2. CASE UNCHANGED result  BY <1>1, <1>2 DEF Outcome!vars
<1>3. ASSUME NEW code \in Results \ {"none"}, Return(c, code),
             Report(code) = "ok" => Arrived(Mutation(c)),
             code \in NotSubmitted => \A s \in Sessions : arrivals[s][Mutation(c)] = 0,
             result[c] = "none"
      PROVE  Outcome!Report(c, Report(code))
  <2>1. result' = [result EXCEPT ![c] = code]  BY <1>3 DEF Return
  <2>2. out[c] = "none"  BY <1>3 DEF Report
  <2>3. out' = [out EXCEPT ![c] = Report(code)]  BY <2>1 DEF Report
  <2>4. Report(code) = "ok" => Outcome!Arrived(c)  BY <1>3 DEF Arrived, Outcome!Arrived
  <2>5. Report(code) = "refused" => ~Outcome!Arrived(c)
    <3>1. Report(code) = "refused" => code \in NotSubmitted
          BY DEF Report, Results
    <3> QED BY <1>3, <3>1 DEF Outcome!Arrived
  <2> QED BY <1>1, <2>2, <2>3, <2>4, <2>5 DEF Outcome!Report
<1>4. \A code \in Results \ {"none"} : Report(code) \in Outcome!Outcomes \ {"none"}
      BY DEF Report, Results, NotSubmitted, Outcome!Outcomes
<1>5. ASSUME NEW code \in Results \ {"none"}, Return(c, code),
             Report(code) = "ok" => Arrived(Mutation(c)), ~(pc[c] = "done"),
             code \in NotSubmitted => ~MaybeSent(Mutation(c))
      PROVE  Outcome!Next
  <2>1. Mutation(c) \in Requests  BY RequestType
  <2>2. result[c] = "none"  BY <1>5 DEF CallPhases
  <2>3. code \in NotSubmitted => \A s \in Sessions : arrivals[s][Mutation(c)] = 0
        BY <1>5, <2>1 DEF PresentOnlyIfSent, Present, InOnePlace
  <2> QED BY <1>3, <1>4, <1>5, <2>2, <2>3 DEF Outcome!Next
<1>6. \A code \in NotSubmitted : code \in Results \ {"none"} /\ Report(code) # "ok"
      BY DEF Results, NotSubmitted, Report
<1>7. CASE ConnectFail(c)
  <2>1. Return(c, "DESKTOP_IPC_UNAVAILABLE") /\ pc[c] = "idle"  BY <1>7 DEF ConnectFail
  <2>2. ~MaybeSent(Mutation(c))  BY <2>1 DEF MaybeSent, Mutation
  <2> QED BY <1>5, <1>6, <2>1, <2>2 DEF NotSubmitted
<1>8. CASE Abandon(c)
  <2>1. PICK code \in NotSubmitted : Return(c, code) /\ pc[c] = "abandon"
        BY <1>8 DEF Abandon, ForgetRequest, NotSubmitted
  <2>2. ~MaybeSent(Mutation(c))  BY <2>1 DEF MaybeSent, Mutation
  <2> QED BY <1>5, <1>6, <2>1, <2>2
<1>9. CASE DiscoveryFailed(c)
  <2>1. PICK code \in NotSubmitted : Return(c, code)
        BY <1>9, ErrorsAreDefinite DEF DiscoveryFailed
  <2>2. pc[c] = "settle" /\ stage[c] = "discovery"  BY <1>9 DEF DiscoveryFailed
  <2>3. ~MaybeSent(Mutation(c))  BY <2>2 DEF MaybeSent, Mutation
  <2> QED BY <1>5, <1>6, <2>1, <2>2, <2>3
<1>10. CASE MutationSettled(c)
  <2>1. PICK code \in MutationCodes(verdict[c]) : Return(c, code)
        BY <1>10 DEF MutationSettled
  <2>2. pc[c] = "settle" /\ Request(c) = Mutation(c)
        BY <1>10 DEF MutationSettled, Request, Mutation
  <2>3. /\ code \in Results \ {"none"} /\ code \notin NotSubmitted
        /\ Report(code) = "ok" => verdict[c] = "success"
        BY <2>1, MutationsAreNotRefused
  <2>4. Report(code) = "ok" => Arrived(Mutation(c))  BY <2>2, <2>3 DEF SuccessMeansArrived
  <2> QED BY <1>5, <2>1, <2>2, <2>3, <2>4
<1> QED BY <1>2, <1>7, <1>8, <1>9, <1>10 DEF CallStep, Connect, ConnectReuse, ConnectOpen, MutexFree,
      SpawnWriter, ConnectDone, InsertPending, CheckAlive, TrySend, TakeReply, TimeOut,
      DiscoveryUsable, callVars

\* What the desktop has of a call changes by a first delivery only.
LEMMA OutcomeSession ==
  ASSUME DeliveryInv, NEW s \in Sessions, ReaderStep(s) \/ WriterStep(s) \/ CloseStep(s)
  PROVE  [Outcome!Next]_(Outcome!vars)
<1> USE DEF DeliveryInv, TypeOK
<1> DEFINE del == [d \in Calls |-> [t \in Sessions |-> arrivals[t][Mutation(d)]]]
<1>1. UNCHANGED result  BY SessionEffect DEF callVars
<1>2. CASE UNCHANGED arrivals  BY <1>1, <1>2 DEF Outcome!vars
<1>3. CASE Deliver(s) /\ ~UNCHANGED arrivals
  <2>1. PICK r \in Requests : r = inHand[s] /\ arrivals' = [arrivals EXCEPT ![s][r] = @ + 1]
        BY <1>3 DEF Deliver
  <2>2. MaybeSent(r) /\ sess[r.call] = s
        BY <2>1 DEF PresentOnlyIfSent, Present, OnItsWay
  <2>3. \A t \in Sessions : arrivals[t][r] = 0
    <3>1. arrivals[s][r] = 0
      <4>1. arrivals[s][r] \in {0, 1} /\ (arrivals[s][r] = 1 => ~OnItsWay(s, r))
            BY DEF InOnePlace
      <4> QED BY <2>1, <4>1 DEF OnItsWay
    <3>2. \A t \in Sessions : arrivals[t][r] > 0 => t = s
          BY <2>2 DEF PresentOnlyIfSent, Present
    <3>3. \A t \in Sessions : arrivals[t][r] \in {0, 1}  BY DEF InOnePlace
    <3> SUFFICES ASSUME NEW t \in Sessions  PROVE arrivals[t][r] = 0
        OBVIOUS
    <3>4. arrivals[t][r] = 1 => t = s  BY <3>2
    <3> QED BY ONLY <3>1, <3>3, <3>4, t \in Sessions
  <2>4. r.call \in Calls /\ r.stage \in Stages  BY DEF Requests
  <2>5. CASE r.stage = "discovery"
    <3>1. \A d \in Calls : Mutation(d) # r  BY <2>5 DEF Mutation
    <3>2. \A d \in Calls : Mutation(d) \in Requests  BY RequestType
    <3>3. \A t \in Sessions, d \in Calls : arrivals'[t][Mutation(d)] = arrivals[t][Mutation(d)]
          BY <2>1, <3>1, <3>2
    <3> QED BY <1>1, <3>3 DEF Outcome!vars
  <2>6. CASE r.stage = "mutation"
    <3>1. PICK c \in Calls : r = Mutation(c)  BY <2>4, <2>6 DEF Mutation, Requests
    <3>2. ~Outcome!Arrived(c)  BY <2>3, <3>1 DEF Outcome!Arrived
    <3>3. result[c] \notin NotSubmitted  BY <2>2, <3>1 DEF MaybeSent, Mutation
    <3>4. Report(result[c]) # "refused"
          BY <3>3 DEF Report, Results
    <3>5. \A d \in Calls : Mutation(d) \in Requests /\ (Mutation(d) = r <=> d = c)
          BY <3>1, RequestType DEF Mutation
    <3>6. \A d \in Calls, t \in Sessions :
            arrivals'[t][Mutation(d)] = IF d = c /\ t = s THEN 1 ELSE arrivals[t][Mutation(d)]
          BY <2>1, <2>3, <3>5
    <3>7. del' = [del EXCEPT ![c] = [del[c] EXCEPT ![s] = 1]]
      <4>1. \A d \in Calls : d # c => del'[d] = del[d]  BY <3>6
      <4>2. del'[c] = [del[c] EXCEPT ![s] = 1]  BY <3>6
      <4> QED BY <4>1, <4>2
    <3>8. Outcome!Deliver(c, s)
          BY <1>1, <3>2, <3>4, <3>7 DEF Outcome!Deliver
    <3> QED BY <3>8 DEF Outcome!Next
  <2> QED BY <2>4, <2>5, <2>6 DEF Stages
<1> QED BY <1>2, <1>3, SessionEffect

\* The session refines WriteOutcome: for the caller of a write the connection,
\* its queue, its tasks and their failures amount to at most one delivery and a
\* report that never contradicts it.
THEOREM SessionImplementsWriteOutcome == Spec => ImplementsWriteOutcome
<1>1. Init => Outcome!Init
  <2> SUFFICES ASSUME Init PROVE Outcome!Init  OBVIOUS
  <2>1. TypeOK  BY InitTypeOK
  <2>2. \A c \in Calls : Mutation(c) \in Requests  BY <2>1, RequestType
  <2> QED BY <2>2 DEF Init, Outcome!Init, Report
<1>2. DeliveryInv /\ [Next]_vars => [Outcome!Next]_(Outcome!vars)
  <2>1. ASSUME UNCHANGED vars  PROVE UNCHANGED Outcome!vars
        BY <2>1 DEF vars, callVars, Outcome!vars
  <2> QED BY <2>1, OutcomeCall, OutcomeSession DEF Next
<1> QED BY <1>1, <1>2, DeliveryInvariant, PTL DEF Spec, ImplementsWriteOutcome, Outcome!Spec

=============================================================================
