-------------------------- MODULE DesktopWaitProofs --------------------------
(* Proofs about the connection itself: at most one session is alive, no      *)
(* thread waits for an answer that nobody will send, a reply channel gets at *)
(* most one answer and its entry goes with the call, and a task that runs on *)
(* has a handle somewhere.                                                   *)
EXTENDS DesktopSessionProofs

Closing(s) == life[s] \in {"open", "swapped"}

\* The owner of the session mutex is the call inside connect(); a session that
\* is alive is stored or still being set up; a call past connect() has one.
ConnectInv ==
  /\ \A c \in Calls : pc[c] \in {"opened", "spawned"} => connector = c
  /\ connector # None => guard = None /\ pc[connector] \in {"opened", "spawned"}
  /\ \A s \in Sessions : Alive(s) => guard = s \/ (connector # None /\ sess[connector] = s)
  /\ \A c \in Calls : pc[c] \notin {"idle", "done"} =>
       sess[c] \in Sessions /\ life[sess[c]] # "unborn"
  /\ \A s \in Sessions : guard = s => life[s] # "unborn"

\* The entry of a waiting call will be drained, or its answer is there.  Before
\* the check of alive the session may be past the drain; after it, it was not.
WaitInv ==
  \A c \in Calls :
    LET covered == Request(c) \in pending[sess[c]] /\ Closing(sess[c])
        answered == inbox[Request(c)] # <<>>
    IN  /\ pc[c] = "send" => covered \/ answered \/ ~Closing(sess[c])
        /\ pc[c] \in {"queue", "wait"} => covered \/ answered

-----------------------------------------------------------------------------
\* Past connect() a thread moves its program counter and nothing the invariant of
\* the session mutex is about.
LEMMA ConnectInvKept ==
  ASSUME TypeOK, ConnectInv, NEW c \in Calls,
         pc[c] \in {"insert", "send", "queue", "abandon", "wait", "settle"},
         \E step \in {"insert", "send", "queue", "abandon", "wait", "settle", "done"} :
           pc' = [pc EXCEPT ![c] = step],
         UNCHANGED <<guard, connector, life, sess>>
  PROVE  ConnectInv'
<1> DEFINE held == {"opened", "spawned"}
           out == {"idle", "done"}
<1>1. \A d \in Calls : pc'[d] \in held <=> pc[d] \in held
      BY DEF TypeOK
<1>2. \A d \in Calls : pc'[d] \notin out => pc[d] \notin out
      BY DEF TypeOK
<1>3. connector # None => connector \in Calls  BY DEF TypeOK
<1>4. \A d \in Calls : pc'[d] \in held => connector' = d  BY <1>1 DEF ConnectInv
<1>5. connector' # None => guard' = None /\ pc'[connector'] \in held
      BY <1>1, <1>3 DEF ConnectInv
<1>6. \A s \in Sessions : Alive(s)' => guard' = s \/ (connector' # None /\ sess'[connector'] = s)
      BY DEF ConnectInv, Alive
<1>7. \A d \in Calls : pc'[d] \notin out => sess'[d] \in Sessions /\ life'[sess'[d]] # "unborn"
      BY <1>2 DEF ConnectInv
<1>8. \A s \in Sessions : guard' = s => life'[s] # "unborn"  BY DEF ConnectInv
<1> QED BY <1>4, <1>5, <1>6, <1>7, <1>8 DEF ConnectInv

\* The steps of calls keep the session mutex and the session under construction
\* consistent.
LEMMA ConnectInvCall ==
  ASSUME TypeOK, ConnectInv, NEW c \in Calls, CallStep(c) \/ TimeOut(c)
  PROVE  ConnectInv'
<1> USE ConstantsAssumption DEF Goto, Return, clientVars, sessionVars, callVars
<1>1. CASE Connect(c)
  <2> USE DEF TypeOK, ConnectInv, Alive
  <2>1. CASE ConnectReuse(c)  BY <2>1 DEF ConnectReuse, GuardAlive
  <2>2. CASE ConnectFail(c)   BY <2>2 DEF ConnectFail, GuardAlive
  <2>3. CASE \E s \in Sessions : ConnectOpen(c, s)  BY <2>3 DEF ConnectOpen, MutexFree, GuardAlive
  <2>4. CASE SpawnWriter(c)   BY <2>4 DEF SpawnWriter
  <2>5. CASE ConnectDone(c)   BY <2>5 DEF ConnectDone
  <2> QED BY <1>1, <2>1, <2>2, <2>3, <2>4, <2>5 DEF Connect
<1>2. CASE InsertPending(c) BY <1>2, ConnectInvKept DEF InsertPending
<1>3. CASE CheckAlive(c)    BY <1>3, ConnectInvKept DEF CheckAlive
<1>4. CASE TrySend(c)       BY <1>4, ConnectInvKept DEF TrySend
<1>5. CASE Abandon(c)       BY <1>5, ConnectInvKept DEF Abandon
<1>6. CASE TakeReply(c)     BY <1>6, ConnectInvKept DEF TakeReply
<1>7. CASE TimeOut(c)       BY <1>7, ConnectInvKept DEF TimeOut
<1>8. CASE DiscoveryUsable(c) BY <1>8, ConnectInvKept DEF DiscoveryUsable
<1>9. CASE DiscoveryFailed(c) BY <1>9, ConnectInvKept DEF DiscoveryFailed
<1>10. CASE MutationSettled(c) BY <1>10, ConnectInvKept DEF MutationSettled
<1> QED BY <1>1, <1>2, <1>3, <1>4, <1>5, <1>6, <1>7, <1>8, <1>9, <1>10 DEF CallStep

\* A session step revives no session.
LEMMA LifeSession ==
  ASSUME TypeOK, NEW s \in Sessions, ReaderStep(s) \/ WriterStep(s) \/ CloseStep(s)
  PROVE  /\ \A t \in Sessions : Alive(t)' => Alive(t)
         /\ \A t \in Sessions : life[t] # "unborn" => life'[t] # "unborn"
         /\ \A t \in Sessions : life[t] # "unborn" /\ ~Closing(t) => ~Closing(t)'
         /\ \A t \in Sessions : Closing(t) /\ ~DrainPending(s) => Closing(t)'
         /\ UNCHANGED <<guard, connector, pc, stage, sess>>
<1> USE DEF TypeOK, Alive, Closing, StartClose, clientVars, sessionVars, callVars
<1>1. CASE UNCHANGED life /\ ~DrainPending(s)
      BY <1>1 DEF ReaderStep, WriterStep, CloseStep, ReceiveResponse, ReceiveProbe, ReaderFails,
         ReaderResets, WriterTake, WriteFrame, WriterFails, AbortTasks, Aborted, CancelReader, CancelWriter
<1>2. CASE ReaderFails(s)  BY <1>2 DEF ReaderFails, DrainPending
<1>3. CASE ReaderResets(s) BY <1>3 DEF ReaderResets, DrainPending
<1>4. CASE WriterFails(s)  BY <1>4 DEF WriterFails, DrainPending
<1>5. CASE DrainPending(s) BY <1>5 DEF DrainPending
<1>6. CASE AbortTasks(s)   BY <1>6 DEF AbortTasks, Aborted, DrainPending
<1> QED BY <1>1, <1>2, <1>3, <1>4, <1>5, <1>6 DEF ReaderStep, WriterStep, CloseStep, ReceiveResponse,
        ReceiveProbe, WriterTake, WriteFrame, CancelReader, CancelWriter

\* ConnectInv holds in every reachable state.
LEMMA ConnectInvariant == Spec => [](TypeOK /\ ConnectInv)
<1>1. Init => TypeOK /\ ConnectInv
      BY InitTypeOK, ConstantsAssumption DEF Init, ConnectInv, Alive
<1>2. TypeOK /\ ConnectInv /\ [Next]_vars => (TypeOK /\ ConnectInv)'
  <2> SUFFICES ASSUME TypeOK, ConnectInv, [Next]_vars PROVE (TypeOK /\ ConnectInv)'  OBVIOUS
  <2>1. ASSUME NEW c \in Calls, CallStep(c) \/ TimeOut(c)
        PROVE  (TypeOK /\ ConnectInv)'
        BY <2>1, CallTypeOK, ConnectInvCall
  <2>2. ASSUME NEW s \in Sessions, ReaderStep(s) \/ WriterStep(s) \/ CloseStep(s)
        PROVE  (TypeOK /\ ConnectInv)'
    <3>1. ConnectInv'  BY <2>2, LifeSession DEF ConnectInv
    <3> QED BY <2>2, <3>1, SessionTypeOK
  <2>3. CASE UNCHANGED vars
        BY <2>3, StutterTypeOK DEF vars, clientVars, sessionVars, callVars, ConnectInv, Alive
  <2> QED BY <2>1, <2>2, <2>3 DEF Next
<1> QED BY <1>1, <1>2, PTL DEF Spec

\* Two connections are never alive at once.
THEOREM OneLiveSession == Spec => []SingleLiveSession
<1>1. TypeOK /\ ConnectInv => SingleLiveSession
      BY ConstantsAssumption DEF ConnectInv, SingleLiveSession
<1> QED BY <1>1, ConnectInvariant, PTL

-----------------------------------------------------------------------------
\* The steps of calls keep every waiting request answered or pending.
LEMMA WaitInvCall ==
  ASSUME TypeOK, ConnectInv, WaitInv, NEW c \in Calls, CallStep(c) \/ TimeOut(c)
  PROVE  WaitInv'
<1> USE DEF TypeOK
<1>1. \A d \in Calls : Request(d) \in Requests /\ Request(d).call = d  BY RequestType
<1>2. SUFFICES ASSUME NEW d \in Calls
               PROVE  LET covered == Request(d) \in pending[sess[d]] /\ Closing(sess[d])
                          answered == inbox[Request(d)] # <<>>
                      IN  (/\ pc[d] = "send" => covered \/ answered \/ ~Closing(sess[d])
                           /\ pc[d] \in {"queue", "wait"} => covered \/ answered)'
      BY DEF WaitInv
<1>3. CASE d # c
  <2>1. pc'[d] = pc[d] /\ sess'[d] = sess[d] /\ Request(d)' = Request(d)
    <3>1. sess'[d] = sess[d]
          BY <1>3 DEF CallStep, Connect, ConnectReuse, ConnectFail, ConnectOpen, MutexFree, SpawnWriter,
              ConnectDone, InsertPending, CheckAlive, TrySend, Abandon, ForgetRequest, TakeReply, TimeOut,
              DiscoveryUsable, DiscoveryFailed, MutationSettled, callVars
    <3>2. stage'[d] = stage[d]
          BY <1>3 DEF CallStep, Connect, ConnectReuse, ConnectFail, ConnectOpen, MutexFree, SpawnWriter,
              ConnectDone, InsertPending, CheckAlive, TrySend, Abandon, ForgetRequest, TakeReply, TimeOut,
              DiscoveryUsable, DiscoveryFailed, MutationSettled, callVars
    <3>3. pc'[d] = pc[d]
          BY <1>3 DEF CallStep, Connect, ConnectReuse, ConnectFail, ConnectOpen, MutexFree, SpawnWriter,
              ConnectDone, InsertPending, CheckAlive, TrySend, Abandon, ForgetRequest, TakeReply, TimeOut,
              DiscoveryUsable, DiscoveryFailed, MutationSettled, Goto, Return
    <3> QED BY <3>1, <3>2, <3>3 DEF Request
  <2>2. CASE pc[d] \notin {"send", "queue", "wait"}  BY <2>1, <2>2
  <2>3. CASE pc[d] \in {"send", "queue", "wait"}
    <3>1. sess[d] \in Sessions /\ life[sess[d]] # "unborn"  BY <2>3 DEF ConnectInv
    <3>2. life'[sess[d]] = life[sess[d]]
          BY <3>1 DEF CallStep, Connect, ConnectReuse, ConnectFail, ConnectOpen, MutexFree, SpawnWriter,
             ConnectDone, InsertPending, CheckAlive, TrySend, Abandon, ForgetRequest, TakeReply, TimeOut,
             DiscoveryUsable, DiscoveryFailed, MutationSettled, sessionVars
    <3>3. Request(d) # Request(c)  BY <1>1, <1>3
    <3>4. Request(d) \in pending[sess[d]] => Request(d) \in pending'[sess[d]]
      <4>1. \/ UNCHANGED pending
            \/ pending' = [pending EXCEPT ![sess[c]] = @ \cup {Request(c)}]
            \/ pending' = [pending EXCEPT ![sess[c]] = @ \ {Request(c)}]
            BY DEF CallStep, Connect, ConnectReuse, ConnectFail, ConnectOpen, MutexFree, SpawnWriter,
             ConnectDone, InsertPending, CheckAlive, TrySend, Abandon, TakeReply, TimeOut,
             DiscoveryUsable, DiscoveryFailed, MutationSettled, sessionVars, ForgetRequest
      <4>2. CASE pending' = [pending EXCEPT ![sess[c]] = @ \cup {Request(c)}]
        <5>1. pending'[sess[d]] \in {pending[sess[d]], pending[sess[d]] \cup {Request(c)}}
              BY <3>1, <4>2
        <5> QED BY <5>1
      <4>3. CASE pending' = [pending EXCEPT ![sess[c]] = @ \ {Request(c)}]
        <5>1. pending'[sess[d]] \in {pending[sess[d]], pending[sess[d]] \ {Request(c)}}
              BY <3>1, <4>3
        <5> QED BY <3>3, <5>1
      <4> QED BY <4>1, <4>2, <4>3
    <3>5. inbox'[Request(d)] = inbox[Request(d)]
          BY <1>1, <3>3 DEF CallStep, Connect, ConnectReuse, ConnectFail, ConnectOpen, MutexFree, SpawnWriter,
             ConnectDone, InsertPending, CheckAlive, TrySend, Abandon, ForgetRequest, TakeReply, TimeOut,
             DiscoveryUsable, DiscoveryFailed, MutationSettled
    <3> QED BY <2>1, <3>2, <3>4, <3>5 DEF WaitInv, Closing
  <2> QED BY <2>2, <2>3
<1>4. CASE d = c
  <2> USE <1>4 DEF Goto, Return
  <2>1. CASE Connect(c)
        BY <2>1 DEF Connect, ConnectReuse, ConnectFail, ConnectOpen, MutexFree, SpawnWriter, ConnectDone
  <2>2. CASE InsertPending(c)
    <3>1. sess[c] \in Sessions  BY <2>2 DEF InsertPending, ConnectInv
    <3>2. pc'[c] = "send" /\ Request(c)' = Request(c) /\ sess'[c] = sess[c]
          BY <2>2 DEF InsertPending, Request
    <3>3. Request(c) \in pending'[sess[c]]  BY <2>2, <3>1 DEF InsertPending
    <3> QED BY <3>2, <3>3
  <2>3. CASE CheckAlive(c)
    <3>1. UNCHANGED <<life, pending, inbox>> /\ Request(c)' = Request(c) /\ sess'[c] = sess[c]
          BY <2>3 DEF CheckAlive, Request, sessionVars
    <3>2. pc'[c] \in {"queue", "abandon"} /\ (pc'[c] = "queue" => Closing(sess[c]))
          BY <2>3 DEF CheckAlive, Alive, Closing
    <3> QED BY <2>3, <3>1, <3>2 DEF WaitInv, CheckAlive, Closing
  <2>4. CASE TrySend(c)
    <3>1. UNCHANGED <<life, pending, inbox>> /\ Request(c)' = Request(c) /\ sess'[c] = sess[c]
          BY <2>4 DEF TrySend, Request
    <3>2. pc'[c] \in {"wait", "abandon"}  BY <2>4 DEF TrySend
    <3> QED BY <2>4, <3>1, <3>2 DEF WaitInv, TrySend, Closing
  <2>5. CASE Abandon(c)     BY <2>5 DEF Abandon, ForgetRequest
  <2>6. CASE TakeReply(c)   BY <2>6 DEF TakeReply
  <2>7. CASE TimeOut(c)     BY <2>7 DEF TimeOut
  <2>8. CASE DiscoveryUsable(c) BY <2>8 DEF DiscoveryUsable
  <2>9. CASE DiscoveryFailed(c) BY <2>9 DEF DiscoveryFailed
  <2>10. CASE MutationSettled(c) BY <2>10 DEF MutationSettled
  <2> QED BY <2>1, <2>2, <2>3, <2>4, <2>5, <2>6, <2>7, <2>8, <2>9, <2>10 DEF CallStep
<1> QED BY <1>3, <1>4

\* An entry leaves `pending` by a session step only with an answer in its place.
LEMMA WaitInvSession ==
  ASSUME TypeOK, ConnectInv, WaitInv, NEW s \in Sessions,
         ReaderStep(s) \/ WriterStep(s) \/ CloseStep(s)
  PROVE  WaitInv'
<1> USE DEF TypeOK
<1>1. \A r \in Requests, t \in Sessions :
        /\ inbox[r] # <<>> => inbox'[r] # <<>>
        /\ r \in pending[t] => r \in pending'[t] \/ inbox'[r] # <<>>
  <2>1. CASE UNCHANGED <<pending, inbox>>  BY <2>1
  <2>2. ASSUME NEW q \in Requests, NEW v \in {"success", "error"}, ReceiveResponse(s, q, v)
        PROVE  \A r \in Requests, t \in Sessions :
                 /\ inbox[r] # <<>> => inbox'[r] # <<>>
                 /\ r \in pending[t] => r \in pending'[t] \/ inbox'[r] # <<>>
    <3>1. inbox'[q] # <<>>
      <4>1. inbox'[q] = Append(inbox[q], v) /\ v \in Replies
            BY <2>2 DEF ReceiveResponse, Replies
      <4>2. inbox[q] \in Seq(Replies)  OBVIOUS
      <4>3. \A x \in Replies, seq \in Seq(Replies) : Append(seq, x) # <<>>
            BY ONLY AppendProperties
      <4> QED BY ONLY <4>1, <4>2, <4>3
    <3> QED BY <2>2, <3>1 DEF ReceiveResponse
  <2>3. CASE DrainPending(s)
    <3>1. \A r \in Requests : r \in pending[s] => inbox'[r] # <<>>
      <4> SUFFICES ASSUME NEW r \in Requests, r \in pending[s] PROVE inbox'[r] # <<>>  OBVIOUS
      <4>1. inbox'[r] = Append(inbox[r], "disconnected") /\ "disconnected" \in Replies
            BY <2>3 DEF DrainPending, Replies
      <4>2. inbox[r] \in Seq(Replies)  OBVIOUS
      <4>3. \A x \in Replies, seq \in Seq(Replies) : Append(seq, x) # <<>>
            BY ONLY AppendProperties
      <4> QED BY ONLY <4>1, <4>2, <4>3
    <3> QED BY <2>3, <3>1 DEF DrainPending
  <2> QED BY <2>1, <2>2, <2>3 DEF ReaderStep, WriterStep, CloseStep, ReceiveProbe, ReaderFails,
        ReaderResets, WriterTake, WriteFrame, WriterFails, AbortTasks, Aborted, CancelReader, CancelWriter,
        sessionVars
<1>2. SUFFICES ASSUME NEW c \in Calls
               PROVE  LET covered == Request(c) \in pending[sess[c]] /\ Closing(sess[c])
                          answered == inbox[Request(c)] # <<>>
                      IN  (/\ pc[c] = "send" => covered \/ answered \/ ~Closing(sess[c])
                           /\ pc[c] \in {"queue", "wait"} => covered \/ answered)'
      BY DEF WaitInv
<1>3. pc'[c] = pc[c] /\ sess'[c] = sess[c] /\ Request(c)' = Request(c)
      BY LifeSession DEF Request
<1>4. CASE pc[c] \notin {"send", "queue", "wait"}  BY <1>3, <1>4
<1>5. CASE pc[c] \in {"send", "queue", "wait"}
  <2>1. sess[c] \in Sessions /\ Request(c) \in Requests  BY <1>5, RequestType DEF ConnectInv
  <2>2. CASE ~DrainPending(s)
    <3>1. Closing(sess[c]) => Closing(sess[c])'  BY <1>3, <2>1, <2>2, LifeSession DEF Closing
    <3>2. ~Closing(sess[c]) => ~Closing(sess[c])'
          BY <1>3, <1>5, <2>1, LifeSession DEF Closing, ConnectInv
    <3> QED BY <1>1, <1>3, <2>1, <3>1, <3>2 DEF WaitInv
  <2>3. CASE DrainPending(s) /\ sess[c] # s
    <3>1. life'[sess[c]] = life[sess[c]] /\ pending'[sess[c]] = pending[sess[c]]
          BY <2>3 DEF DrainPending
    <3> QED BY <1>1, <1>3, <2>1, <3>1 DEF WaitInv, Closing
  <2>4. CASE DrainPending(s) /\ sess[c] = s
    <3>1. ~Closing(s)'  BY <2>4 DEF DrainPending, Closing
    <3>2. Request(c) \in pending[s] => inbox'[Request(c)] # <<>>
          BY <1>1, <2>1, <2>4 DEF DrainPending
    <3> QED BY <1>1, <1>3, <2>1, <2>4, <3>1, <3>2 DEF WaitInv, Closing
  <2> QED BY <2>2, <2>3, <2>4
<1> QED BY <1>4, <1>5

\* A thread that waits is always waited for: either its entry is there for the
\* closer to drain, or its reply is already in the channel.
THEOREM WaitersAreReleased == Spec => []NoOrphanedWait
<1>1. Init => WaitInv  BY DEF Init, WaitInv
<1>2. TypeOK /\ ConnectInv /\ WaitInv /\ [Next]_vars => WaitInv'
  <2>1. ASSUME TypeOK, ConnectInv, WaitInv, UNCHANGED vars  PROVE WaitInv'
        BY <2>1 DEF vars, clientVars, sessionVars, callVars, WaitInv, Closing, Request
  <2> QED BY <2>1, WaitInvCall, WaitInvSession DEF Next
<1>3. WaitInv => NoOrphanedWait  BY DEF WaitInv, NoOrphanedWait, Closing
<1> QED BY <1>1, <1>2, <1>3, ConnectInvariant, PTL DEF Spec

-----------------------------------------------------------------------------
(* Entries of `pending` and the reply channels they stand for.              *)

\* The call has yet to insert the entry of this request.
Ahead(r) ==
  \/ stage[r.call] = "discovery" /\ r.stage = "mutation"
  \/ stage[r.call] = r.stage /\ pc[r.call] \in {"idle", "opened", "spawned", "insert"}

\* An entry belongs to the current request of its call, on the session the call
\* holds, from the insert to the removal; its channel is still empty, as is that
\* of a request to come.
EntryOK(r) ==
  /\ \A s \in Sessions : r \in pending[s] =>
       /\ s = sess[r.call] /\ r.stage = stage[r.call]
       /\ pc[r.call] \in {"send", "queue", "wait", "settle", "abandon"}
       /\ inbox[r] = <<>>
  /\ Ahead(r) => inbox[r] = <<>>
  /\ Len(inbox[r]) <= 1

EntryInv == \A r \in Requests : EntryOK(r)

\* A request is the current one of a call when call and stage are the same.
LEMMA RequestIs ==
  ASSUME TypeOK, NEW r \in Requests
  PROVE  /\ r.call \in Calls /\ r.stage \in Stages
         /\ \A c \in Calls : r = Request(c) <=> r.call = c /\ r.stage = stage[c]
BY DEF TypeOK, Request, Requests

\* Taking the only answer empties a channel.
LEMMA TailOfOne ==
  \A q \in Seq(Replies) : q # <<>> /\ Len(q) <= 1 => Len(Tail(q)) = 0
<1> SUFFICES ASSUME NEW q \in Seq(Replies), q # <<>>, Len(q) <= 1 PROVE Len(Tail(q)) = 0
    OBVIOUS
<1>1. Len(Tail(q)) = Len(q) - 1 /\ Len(q) \in Nat  BY HeadTailProperties
<1>2. Len(q) # 0  BY EmptySeq
<1> QED BY <1>1, <1>2

\* A step of a thread touches no request of another call.
LEMMA OthersUntouched ==
  ASSUME TypeOK, NEW c \in Calls, CallStep(c) \/ TimeOut(c), NEW r \in Requests, r.call # c
  PROVE  /\ pc'[r.call] = pc[r.call] /\ stage'[r.call] = stage[r.call] /\ sess'[r.call] = sess[r.call]
         /\ inbox'[r] = inbox[r]
         /\ \A s \in Sessions : r \in pending'[s] <=> r \in pending[s]
<1> USE DEF TypeOK, Goto, Return, sessionVars, callVars
<1>1. r.call \in Calls /\ r # Request(c) /\ Request(c) \in Requests  BY RequestIs, RequestType
<1>2. stage'[r.call] = stage[r.call] /\ sess'[r.call] = sess[r.call]
      BY <1>1 DEF CallStep, Connect, ConnectReuse, ConnectFail, ConnectOpen, SpawnWriter, ConnectDone,
         InsertPending, CheckAlive, TrySend, Abandon, TakeReply, TimeOut, DiscoveryUsable,
         DiscoveryFailed, MutationSettled
<1>3. pc'[r.call] = pc[r.call]
      BY <1>1 DEF CallStep, Connect, ConnectReuse, ConnectFail, ConnectOpen, SpawnWriter, ConnectDone,
         InsertPending, CheckAlive, TrySend, Abandon, TakeReply, TimeOut, DiscoveryUsable,
         DiscoveryFailed, MutationSettled
<1>4. inbox'[r] = inbox[r]
      BY <1>1 DEF CallStep, Connect, ConnectReuse, ConnectFail, ConnectOpen, SpawnWriter, ConnectDone,
         InsertPending, CheckAlive, TrySend, Abandon, TakeReply, TimeOut, DiscoveryUsable,
         DiscoveryFailed, MutationSettled
<1>5. \A s \in Sessions : r \in pending'[s] <=> r \in pending[s]
  <2>1. \/ UNCHANGED pending
        \/ pending' = [pending EXCEPT ![sess[c]] = @ \cup {Request(c)}]
        \/ pending' = [pending EXCEPT ![sess[c]] = @ \ {Request(c)}]
        BY DEF CallStep, Connect, ConnectReuse, ConnectFail, ConnectOpen, SpawnWriter, ConnectDone,
           InsertPending, CheckAlive, TrySend, Abandon, ForgetRequest, TakeReply, TimeOut,
           DiscoveryUsable, DiscoveryFailed, MutationSettled
  <2>2. ASSUME NEW s \in Sessions  PROVE r \in pending'[s] <=> r \in pending[s]
    <3>1. CASE UNCHANGED pending  BY <3>1
    <3>2. CASE pending' = [pending EXCEPT ![sess[c]] = @ \cup {Request(c)}]  BY <1>1, <3>2
    <3>3. CASE pending' = [pending EXCEPT ![sess[c]] = @ \ {Request(c)}]  BY <1>1, <3>3
    <3> QED BY <2>1, <3>1, <3>2, <3>3
  <2> QED BY <2>2
<1> QED BY <1>2, <1>3, <1>4, <1>5

\* Every step of a thread keeps the entries of its requests in order.
LEMMA EntryCall ==
  ASSUME TypeOK, EntryInv, NEW c \in Calls, CallStep(c) \/ TimeOut(c)
  PROVE  EntryInv'
<1> SUFFICES ASSUME NEW r \in Requests PROVE EntryOK(r)'  BY DEF EntryInv
<1>0. EntryOK(r)  BY DEF EntryInv
<1>1. CASE r.call # c
  <2>1. Ahead(r)' <=> Ahead(r)  BY <1>1, OthersUntouched DEF Ahead
  <2> QED BY <1>0, <1>1, <2>1, OthersUntouched DEF EntryOK
<1>2. CASE r.call = c
  <2>0. /\ r.stage \in Stages /\ (r = Request(c) <=> r.stage = stage[c])
        /\ Request(c) \in Requests /\ inbox[r] \in Seq(Replies)
        BY <1>2, RequestIs, RequestType DEF TypeOK
  <2> USE <1>0, <1>2, <2>0 DEF TypeOK, Goto, Return, sessionVars, callVars, EntryOK, Ahead
  <2>1. CASE Connect(c)
        BY <2>1 DEF Connect, ConnectReuse, ConnectFail, ConnectOpen, SpawnWriter, ConnectDone
  <2>2. CASE InsertPending(c) BY <2>2 DEF InsertPending
  <2>3. CASE CheckAlive(c)    BY <2>3 DEF CheckAlive
  <2>4. CASE TrySend(c)       BY <2>4 DEF TrySend
  <2>5. CASE Abandon(c)       BY <2>5 DEF Abandon, ForgetRequest
  <2>6. CASE TakeReply(c)
    <3>1. CASE r = Request(c)
      <4>1. Len(inbox'[r]) = 0
        <5>1. inbox'[r] = Tail(inbox[r]) /\ inbox[r] # <<>>  BY <2>6, <3>1 DEF TakeReply
        <5>2. inbox[r] \in Seq(Replies) /\ Len(inbox[r]) <= 1  OBVIOUS
        <5> QED BY ONLY <5>1, <5>2, TailOfOne
      <4>2. \A t \in Sessions : r \notin pending'[t]  BY <2>6, <3>1 DEF TakeReply
      <4>3. ~Ahead(r)'  BY <2>6, <3>1 DEF TakeReply
      <4> HIDE DEF Ahead
      <4> QED BY <4>1, <4>2, <4>3
    <3>2. CASE r # Request(c)  BY <2>6, <3>2 DEF TakeReply
    <3> QED BY <3>1, <3>2
  <2>7. CASE TimeOut(c)       BY <2>7 DEF TimeOut
  <2>8. CASE DiscoveryUsable(c) BY <2>8 DEF DiscoveryUsable, ForgetRequest, Stages
  <2>9. CASE DiscoveryFailed(c) BY <2>9 DEF DiscoveryFailed, ForgetRequest
  <2>10. CASE MutationSettled(c) BY <2>10 DEF MutationSettled, ForgetRequest
  <2> QED BY <2>1, <2>2, <2>3, <2>4, <2>5, <2>6, <2>7, <2>8, <2>9, <2>10 DEF CallStep
<1> QED BY <1>1, <1>2

\* The tasks of a session send into a channel only as they remove its entry.
LEMMA AnswersReplaceEntries ==
  ASSUME TypeOK, NEW s \in Sessions, ReaderStep(s) \/ WriterStep(s) \/ CloseStep(s), NEW r \in Requests
  PROVE  /\ \A t \in Sessions : r \in pending'[t] => r \in pending[t]
         /\ \/ inbox'[r] = inbox[r]
            \/ /\ r \in pending[s] /\ r \notin pending'[s]
               /\ \E v \in Replies : inbox'[r] = Append(inbox[r], v)
<1> USE DEF TypeOK, sessionVars
<1>1. ASSUME NEW q \in Requests, NEW v \in {"success", "error"}, ReceiveResponse(s, q, v)
      PROVE  /\ \A t \in Sessions : r \in pending'[t] => r \in pending[t]
             /\ \/ inbox'[r] = inbox[r]
                \/ /\ r \in pending[s] /\ r \notin pending'[s]
                   /\ \E w \in Replies : inbox'[r] = Append(inbox[r], w)
      BY <1>1 DEF ReceiveResponse, Replies
<1>2. CASE DrainPending(s)  BY <1>2 DEF DrainPending, Replies
<1> QED BY <1>1, <1>2 DEF ReaderStep, WriterStep, CloseStep, ReceiveProbe, ReaderFails, ReaderResets,
        WriterTake, WriteFrame, WriterFails, AbortTasks, CancelReader, CancelWriter

\* An answer fills a channel that was empty and leaves no other entry of it.
LEMMA EntrySession ==
  ASSUME TypeOK, EntryInv, NEW s \in Sessions, ReaderStep(s) \/ WriterStep(s) \/ CloseStep(s)
  PROVE  EntryInv'
<1> SUFFICES ASSUME NEW r \in Requests PROVE EntryOK(r)'  BY DEF EntryInv
<1>0. EntryOK(r)  BY DEF EntryInv
<1>1. UNCHANGED <<pc, stage, sess>>  BY LifeSession
<1>2. Ahead(r)' <=> Ahead(r)  BY <1>1 DEF Ahead
<1>3. CASE inbox'[r] = inbox[r]
      BY <1>0, <1>1, <1>2, <1>3, AnswersReplaceEntries DEF EntryOK
<1>4. CASE /\ r \in pending[s] /\ r \notin pending'[s]
           /\ \E v \in Replies : inbox'[r] = Append(inbox[r], v)
  <2>1. inbox[r] = <<>> /\ s = sess[r.call] /\ ~Ahead(r)
    <3>1. r.stage = stage[r.call] /\ pc[r.call] \in {"send", "queue", "wait", "settle", "abandon"}
          BY <1>0, <1>4 DEF EntryOK
    <3> QED BY <1>0, <1>4, <3>1 DEF EntryOK, Ahead
  <2>2. Len(inbox'[r]) = 1  BY <1>4, <2>1
  <2>3. \A t \in Sessions : r \notin pending'[t]
        BY <1>0, <1>4, <2>1, AnswersReplaceEntries DEF EntryOK
  <2> QED BY <1>2, <2>1, <2>2, <2>3 DEF EntryOK
<1> QED BY <1>3, <1>4, AnswersReplaceEntries

\* EntryInv holds in every reachable state.
LEMMA EntryInvariant == Spec => []EntryInv
<1>1. Init => EntryInv  BY DEF Init, EntryInv, EntryOK
<1>2. TypeOK /\ EntryInv /\ [Next]_vars => EntryInv'
  <2>1. ASSUME EntryInv, UNCHANGED vars  PROVE EntryInv'
        BY <2>1 DEF vars, sessionVars, callVars, EntryInv, EntryOK, Ahead
  <2> QED BY <2>1, EntryCall, EntrySession DEF Next
<1> QED BY <1>1, <1>2, ConnectInvariant, PTL DEF Spec

\* Whoever answers a request first is the only one: a response and the closing of
\* the connection never both send into its reply channel.
THEOREM RepliesOnce == Spec => []OneReplyPerRequest
<1>1. TypeOK /\ EntryInv => OneReplyPerRequest
  <2> SUFFICES ASSUME TypeOK, EntryInv, NEW r \in Requests, NEW s \in Sessions
               PROVE  Len(inbox[r]) + (IF r \in pending[s] THEN 1 ELSE 0) <= 1
      BY DEF OneReplyPerRequest
  <2>1. EntryOK(r) /\ Len(inbox[r]) \in Nat  BY DEF EntryInv, TypeOK
  <2>2. r \in pending[s] => Len(inbox[r]) = 0  BY <2>1 DEF EntryOK
  <2>3. Len(inbox[r]) <= 1  BY <2>1 DEF EntryOK
  <2>4. CASE r \in pending[s]  BY <2>2, <2>4
  <2>5. CASE r \notin pending[s]  BY <2>1, <2>3, <2>5
  <2> QED BY <2>4, <2>5
<1> QED BY <1>1, ConnectInvariant, EntryInvariant, PTL

\* No error path, time-out or late answer leaves an entry of a call that has
\* returned, in any session there ever was.
THEOREM ReturnedCallsLeaveNoEntry == Spec => []NoPendingLeak
<1>1. TypeOK /\ EntryInv => NoPendingLeak  BY DEF NoPendingLeak, EntryInv, EntryOK, TypeOK
<1> QED BY <1>1, ConnectInvariant, EntryInvariant, PTL

-----------------------------------------------------------------------------
(* Tasks and the handles by which close() aborts them.                      *)

Registered(s, task) == task \in aborting[s] \cup handles[s]

UnderConstruction(s) == connector # None /\ sess[connector] = s

\* Only a session under construction has a task without a handle, and its reader
\* has one as soon as its writer runs.
TaskInv ==
  /\ \A c \in Calls : pc[c] = "spawned" => Registered(sess[c], "reader")
  /\ \A s \in Sessions : ~UnderConstruction(s) =>
       /\ reader[s] # "none" => Registered(s, "reader")
       /\ writer[s] # "none" => Registered(s, "writer")

\* Past connect() a thread touches no task and no construction.
LEMMA TaskInvKept ==
  ASSUME TypeOK, ConnectInv, TaskInv, NEW c \in Calls,
         pc[c] \in {"insert", "send", "queue", "abandon", "wait", "settle"},
         \E step \in {"insert", "send", "queue", "abandon", "wait", "settle", "done"} :
           pc' = [pc EXCEPT ![c] = step],
         UNCHANGED <<connector, sess, taskVars>>
  PROVE  TaskInv'
<1>1. \A d \in Calls : pc'[d] = "spawned" => pc[d] = "spawned"  BY DEF TypeOK
<1> QED BY <1>1 DEF TaskInv, Registered, UnderConstruction, taskVars

\* The thread in connect() registers a handle for each task it spawned before the
\* session is anybody else's.
LEMMA TaskCall ==
  ASSUME TypeOK, ConnectInv, TaskInv, NEW c \in Calls, CallStep(c) \/ TimeOut(c)
  PROVE  TaskInv'
<1> USE DEF Goto, Return, clientVars, sessionVars, callVars
<1>1. CASE Connect(c)
  <2> USE ConstantsAssumption DEF TypeOK, TaskInv, Registered, UnderConstruction, taskVars
  <2>1. CASE ConnectReuse(c)  BY <2>1 DEF ConnectReuse, MutexFree
  <2>2. CASE ConnectFail(c)   BY <2>2 DEF ConnectFail, MutexFree
  <2>3. CASE \E s \in Sessions : ConnectOpen(c, s)
    <3>1. \A d \in Calls : pc[d] # "spawned"  BY <2>3 DEF ConnectOpen, MutexFree, ConnectInv
    <3> QED BY <2>3, <3>1 DEF ConnectOpen, MutexFree
  <2>4. CASE SpawnWriter(c)
    <3>1. connector = c /\ sess[c] \in Sessions  BY <2>4 DEF SpawnWriter, ConnectInv
    <3> QED BY <2>4, <3>1 DEF SpawnWriter
  <2>5. CASE ConnectDone(c)
    <3>1. connector = c /\ sess[c] \in Sessions  BY <2>5 DEF ConnectDone, ConnectInv
    <3> QED BY <2>5, <3>1 DEF ConnectDone
  <2> QED BY <1>1, <2>1, <2>2, <2>3, <2>4, <2>5 DEF Connect
<1>2. CASE InsertPending(c) BY <1>2, TaskInvKept DEF InsertPending
<1>3. CASE CheckAlive(c)    BY <1>3, TaskInvKept DEF CheckAlive
<1>4. CASE TrySend(c)       BY <1>4, TaskInvKept DEF TrySend
<1>5. CASE Abandon(c)       BY <1>5, TaskInvKept DEF Abandon
<1>6. CASE TakeReply(c)     BY <1>6, TaskInvKept DEF TakeReply
<1>7. CASE TimeOut(c)       BY <1>7, TaskInvKept DEF TimeOut
<1>8. CASE DiscoveryUsable(c) BY <1>8, TaskInvKept DEF DiscoveryUsable
<1>9. CASE DiscoveryFailed(c) BY <1>9, TaskInvKept DEF DiscoveryFailed
<1>10. CASE MutationSettled(c) BY <1>10, TaskInvKept DEF MutationSettled
<1> QED BY <1>1, <1>2, <1>3, <1>4, <1>5, <1>6, <1>7, <1>8, <1>9, <1>10 DEF CallStep

\* A session's own steps start no task, and move a handle only to an abort.
LEMMA TaskSession ==
  ASSUME TypeOK, ConnectInv, TaskInv, NEW s \in Sessions,
         ReaderStep(s) \/ WriterStep(s) \/ CloseStep(s)
  PROVE  TaskInv'
<1>1. UNCHANGED <<connector, pc, sess>>  BY LifeSession
<1>2. \A t \in Sessions :
        /\ reader'[t] # "none" => reader[t] # "none"
        /\ writer'[t] # "none" => writer[t] # "none"
        /\ \A task \in {"reader", "writer"} : Registered(t, task) => Registered(t, task)'
  <2> USE DEF TypeOK, Registered, taskVars
  <2>1. CASE AbortTasks(s)  BY <2>1 DEF AbortTasks, Aborted
  <2>2. CASE UNCHANGED taskVars  BY <2>2
  <2>3. CASE ReaderFails(s) \/ ReaderResets(s) \/ WriterFails(s) \/ CancelReader(s) \/ CancelWriter(s)
        BY <2>3 DEF ReaderFails, ReaderResets, WriterFails, CancelReader, CancelWriter
  <2> QED BY <2>1, <2>2, <2>3 DEF ReaderStep, WriterStep, CloseStep, ReceiveResponse, ReceiveProbe,
          WriterTake, WriteFrame, DrainPending
<1>3. \A c \in Calls : pc[c] = "spawned" => sess[c] \in Sessions  BY DEF ConnectInv
<1> QED BY <1>1, <1>2, <1>3 DEF TaskInv, UnderConstruction

\* TaskInv holds in every reachable state.
LEMMA TaskInvariant == Spec => []TaskInv
<1>1. Init => TaskInv  BY DEF Init, TaskInv
<1>2. TypeOK /\ ConnectInv /\ TaskInv /\ [Next]_vars => TaskInv'
  <2>1. ASSUME TaskInv, UNCHANGED vars  PROVE TaskInv'
        BY <2>1 DEF vars, clientVars, taskVars, callVars, TaskInv, Registered, UnderConstruction
  <2> QED BY <2>1, TaskCall, TaskSession DEF Next
<1> QED BY <1>1, <1>2, ConnectInvariant, PTL DEF Spec

\* A task that runs on after close() without an abort has a handle that connect()
\* registered after close() had taken the handles.
THEOREM SurvivorsHaveHandles == Spec => []SurvivorsWereRegisteredLate
<1>1. TypeOK /\ TaskInv => SurvivorsWereRegisteredLate
      BY DEF TypeOK, TaskInv, Registered, UnderConstruction, SurvivorsWereRegisteredLate
<1> QED BY <1>1, ConnectInvariant, TaskInvariant, PTL
=============================================================================
