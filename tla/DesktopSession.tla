---------------------------- MODULE DesktopSession ----------------------------
(***************************************************************************)
(* One connection ("session") of the connector to the desktop IPC hub, and *)
(* the write calls that go through it (src/src/desktop_ipc.rs).            *)
(*                                                                         *)
(* Every HTTP request runs on a thread of its own.  A write call is        *)
(* follower_checked: connect(), one owner-discovery request, then the      *)
(* mutation, addressed to the discovered owner.  Both requests follow the  *)
(* same protocol on the Session: insert a reply channel into `pending`,    *)
(* check `alive`, try_send on the bounded outgoing channel, wait for the   *)
(* reply or the timeout, remove the entry.  They race with two async       *)
(* tasks, the reader and the writer of the connection, either of which may *)
(* close() the session, and with each other.                               *)
(*                                                                         *)
(* Abstracted: owners and snapshots (module SnapshotStream), events, the   *)
(* contents of frames.  A frame is a request, named by the call and the    *)
(* stage it belongs to (the code draws a random request id), or an answer  *)
(* to a desktop probe.  Reply channels have capacity 1; `inbox` is what    *)
(* was sent into them.                                                     *)
(***************************************************************************)
EXTENDS Naturals, Sequences

CONSTANTS
  Calls,      \* the write calls, each on its own HTTP handler thread
  Sessions,   \* the connections that may be opened, in any order
  QueueCap,   \* capacity of the outgoing channel (64 in the code)
  None        \* no session, no call

ASSUME ConstantsAssumption ==
  /\ QueueCap \in Nat \ {0}
  /\ None \notin Calls
  /\ None \notin Sessions

VARIABLES
  guard,      \* the session stored in DesktopClient.session, or None
  connector,  \* the call that holds the session mutex inside connect(), or None
  life,       \* per session: how far close() has come; alive is life = "open"
  pending,    \* per session: requests with a reply channel in Session.pending
  outgoing,   \* per session: the bounded channel to the writer task
  inHand,     \* per session: the frame the writer is writing, or NoFrame
  reader,     \* per session: state of the reader task
  writer,     \* per session: state of the writer task
  handles,    \* per session: tasks whose abort handle is in Session.tasks
  aborting,   \* per session: tasks whose abort was requested
  pc,         \* per call: next step of its thread
  stage,      \* per call: the request it is working on
  sess,       \* per call: the Arc<Session> it holds, or None
  inbox,      \* per request: what was sent into its reply channel
  verdict,    \* per call: what recv_timeout returned
  result,     \* per call: what follower_checked returned
  arrivals    \* per session and request: complete frames the desktop received

clientVars  == <<guard, connector>>
sessionVars == <<life, pending, outgoing, inHand>>
taskVars    == <<reader, writer, handles, aborting>>
callVars    == <<pc, stage, sess, verdict, result>>
vars == <<clientVars, sessionVars, taskVars, callVars, inbox, arrivals>>

Stages   == {"discovery", "mutation"}
Requests == [call : Calls, stage : Stages]
ProbeReply == [call |-> None, stage |-> "probe"]
NoFrame    == [call |-> None, stage |-> "none"]
Frames   == Requests \cup {ProbeReply}

Replies  == {"success", "error", "disconnected"}
Verdicts == Replies \cup {"none", "timeout"}

\* Results by which the caller is told that its mutation was not submitted.
NotSubmitted == {"DESKTOP_IPC_UNAVAILABLE", "DESKTOP_IPC_DISCONNECTED",
                 "IPC_QUEUE_UNAVAILABLE", "DESKTOP_OWNER_UNAVAILABLE",
                 "IPC_PROTOCOL_MISMATCH", "IPC_OWNER_CHANGED"}
Results == NotSubmitted \cup
  {"none", "ok", "502 IPC_PROTOCOL_MISMATCH", "IPC_OPERATION_OUTCOME_UNKNOWN"}

Alive(s) == life[s] = "open"

\* The receiver of the outgoing channel is dropped with the writer task.
HasRoom(s) == writer[s] # "ended" /\ Len(outgoing[s]) < QueueCap

Request(c) == [call |-> c, stage |-> stage[c]]

Return(c, code) ==
  /\ pc' = [pc EXCEPT ![c] = "done"]
  /\ result' = [result EXCEPT ![c] = code]

Goto(c, step) == pc' = [pc EXCEPT ![c] = step]

-----------------------------------------------------------------------------
Init ==
  /\ guard = None /\ connector = None
  /\ life     = [s \in Sessions |-> "unborn"]
  /\ pending  = [s \in Sessions |-> {}]
  /\ outgoing = [s \in Sessions |-> <<>>]
  /\ inHand   = [s \in Sessions |-> NoFrame]
  /\ reader   = [s \in Sessions |-> "none"]
  /\ writer   = [s \in Sessions |-> "none"]
  /\ handles  = [s \in Sessions |-> {}]
  /\ aborting = [s \in Sessions |-> {}]
  /\ pc       = [c \in Calls |-> "idle"]
  /\ stage    = [c \in Calls |-> "discovery"]
  /\ sess     = [c \in Calls |-> None]
  /\ inbox    = [r \in Requests |-> <<>>]
  /\ verdict  = [c \in Calls |-> "none"]
  /\ result   = [c \in Calls |-> "none"]
  /\ arrivals = [s \in Sessions |-> [r \in Requests |-> 0]]

-----------------------------------------------------------------------------
(* connect(): the session mutex is held from the check to the return.      *)

\* Fault: the handshake runs outside the session mutex.
MutexIgnored == TRUE

MutexFree == connector = None

GuardAlive == guard # None /\ Alive(guard)

\* The stored session is alive: share it.
ConnectReuse(c) ==
  /\ pc[c] = "idle" /\ MutexFree /\ GuardAlive
  /\ sess' = [sess EXCEPT ![c] = guard]
  /\ Goto(c, "insert")
  /\ UNCHANGED <<clientVars, sessionVars, taskVars, stage, verdict, result, inbox, arrivals>>

\* The endpoint is missing, refuses, or does not initialize within 10 seconds.
ConnectFail(c) ==
  /\ pc[c] = "idle" /\ MutexFree /\ ~GuardAlive
  /\ guard' = None
  /\ Return(c, "DESKTOP_IPC_UNAVAILABLE")
  /\ UNCHANGED <<connector, sessionVars, taskVars, stage, sess, verdict, inbox, arrivals>>

\* The handshake succeeded: the Session exists and its reader is spawned.
ConnectOpen(c, s) ==
  /\ pc[c] = "idle" /\ MutexFree /\ ~GuardAlive
  /\ life[s] = "unborn"
  /\ guard' = None /\ connector' = c
  /\ life' = [life EXCEPT ![s] = "open"]
  /\ reader' = [reader EXCEPT ![s] = "running"]
  /\ sess' = [sess EXCEPT ![c] = s]
  /\ Goto(c, "opened")
  /\ UNCHANGED <<pending, outgoing, inHand, writer, handles, aborting, stage, verdict, result, inbox, arrivals>>

\* The reader's handle is registered and the writer is spawned.
SpawnWriter(c) ==
  /\ pc[c] = "opened"
  /\ handles' = [handles EXCEPT ![sess[c]] = @ \cup {"reader"}]
  /\ writer' = [writer EXCEPT ![sess[c]] = "running"]
  /\ Goto(c, "spawned")
  /\ UNCHANGED <<clientVars, sessionVars, reader, aborting, stage, sess, verdict, result, inbox, arrivals>>

\* The writer's handle is registered, the session is stored, the mutex released.
ConnectDone(c) ==
  /\ pc[c] = "spawned"
  /\ handles' = [handles EXCEPT ![sess[c]] = @ \cup {"writer"}]
  /\ guard' = sess[c] /\ connector' = None
  /\ Goto(c, "insert")
  /\ UNCHANGED <<sessionVars, reader, writer, aborting, stage, sess, verdict, result, inbox, arrivals>>

-----------------------------------------------------------------------------
(* owner() and rpc(): the steps of one request.                            *)

InsertPending(c) ==
  /\ pc[c] = "insert"
  /\ pending' = [pending EXCEPT ![sess[c]] = @ \cup {Request(c)}]
  /\ Goto(c, "send")
  /\ UNCHANGED <<clientVars, life, outgoing, inHand, taskVars, stage, sess, verdict, result, inbox, arrivals>>

\* Fault: send() relies on the closed channel alone and does not check alive.
CheckAliveOmitted(c) ==
  /\ pc[c] = "send"
  /\ Goto(c, "queue")
  /\ UNCHANGED <<clientVars, sessionVars, taskVars, stage, sess, verdict, result, inbox, arrivals>>

\* Session::send, first half: the load of `alive`.
CheckAlive(c) ==
  /\ pc[c] = "send"
  /\ \/ /\ Alive(sess[c])
        /\ Goto(c, "queue")
        /\ UNCHANGED verdict
     \/ /\ ~Alive(sess[c])
        /\ Goto(c, "abandon")
        /\ verdict' = [verdict EXCEPT ![c] = "disconnected"]
  /\ UNCHANGED <<clientVars, sessionVars, taskVars, stage, sess, result, inbox, arrivals>>

\* Session::send, second half: try_send on the outgoing channel.
TrySend(c) ==
  /\ pc[c] = "queue"
  /\ \/ /\ HasRoom(sess[c])
        /\ outgoing' = [outgoing EXCEPT ![sess[c]] = Append(@, Request(c))]
        /\ Goto(c, "wait")
     \/ /\ ~HasRoom(sess[c])
        /\ Goto(c, "abandon")
        /\ UNCHANGED outgoing
  /\ UNCHANGED <<clientVars, life, pending, inHand, taskVars, stage, sess, verdict, result, inbox, arrivals>>

\* Fault: the entry stays in pending.
ForgetNothing(c) == UNCHANGED pending

ForgetRequest(c) == pending' = [pending EXCEPT ![sess[c]] = @ \ {Request(c)}]

\* send() failed: remove the entry and return its error.
Abandon(c) ==
  /\ pc[c] = "abandon"
  /\ ForgetRequest(c)
  /\ Return(c, IF verdict[c] = "disconnected" THEN "DESKTOP_IPC_DISCONNECTED"
                                              ELSE "IPC_QUEUE_UNAVAILABLE")
  /\ UNCHANGED <<clientVars, life, outgoing, inHand, taskVars, stage, sess, verdict, inbox, arrivals>>

\* recv_timeout returns what was sent into the reply channel.
TakeReply(c) ==
  /\ pc[c] = "wait" /\ inbox[Request(c)] # <<>>
  /\ verdict' = [verdict EXCEPT ![c] = Head(inbox[Request(c)])]
  /\ inbox' = [inbox EXCEPT ![Request(c)] = Tail(@)]
  /\ Goto(c, "settle")
  /\ UNCHANGED <<clientVars, sessionVars, taskVars, stage, sess, result, arrivals>>

\* Fault: a timed-out request is sent again on the current connection.
TimeOutRetries(c) ==
  /\ pc[c] = "wait" /\ inbox[Request(c)] = <<>>
  /\ Goto(c, "idle")
  /\ UNCHANGED <<clientVars, sessionVars, taskVars, stage, sess, verdict, result, inbox, arrivals>>

\* Fault: recv() in the place of recv_timeout().
TimeOutMissing(c) == pc[c] = "unreachable" /\ UNCHANGED vars

\* recv_timeout expires with nothing in the channel.
TimeOut(c) ==
  /\ pc[c] = "wait" /\ inbox[Request(c)] = <<>>
  /\ verdict' = [verdict EXCEPT ![c] = "timeout"]
  /\ Goto(c, "settle")
  /\ UNCHANGED <<clientVars, sessionVars, taskVars, stage, sess, result, inbox, arrivals>>

\* owner(): a usable owner was found and the caller goes on to the mutation.
DiscoveryUsable(c) ==
  /\ pc[c] = "settle" /\ stage[c] = "discovery" /\ verdict[c] = "success"
  /\ ForgetRequest(c)
  /\ stage' = [stage EXCEPT ![c] = "mutation"]
  /\ verdict' = [verdict EXCEPT ![c] = "none"]
  /\ Goto(c, "insert")
  /\ UNCHANGED <<clientVars, life, outgoing, inHand, taskVars, sess, result, inbox, arrivals>>

\* The codes by which a call ends between discovery and mutation: a success may
\* name no owner, an owner without the required capability, or not the expected one.
DiscoveryErrors(v) ==
  IF v = "success" THEN {"DESKTOP_OWNER_UNAVAILABLE", "IPC_PROTOCOL_MISMATCH", "IPC_OWNER_CHANGED"}
  ELSE IF v = "disconnected" THEN {"DESKTOP_IPC_DISCONNECTED"}
  ELSE {"DESKTOP_OWNER_UNAVAILABLE"}

DiscoveryFailed(c) ==
  /\ pc[c] = "settle" /\ stage[c] = "discovery"
  /\ ForgetRequest(c)
  /\ \E code \in DiscoveryErrors(verdict[c]) : Return(c, code)
  /\ UNCHANGED <<clientVars, life, outgoing, inHand, taskVars, stage, sess, verdict, inbox, arrivals>>

\* Fault: the failure of a mutation is classified like that of a read.
MutationCodesAsRead(v) == IF v = "success" THEN {"ok"} ELSE {"DESKTOP_IPC_DISCONNECTED"}

\* rpc() with mutation = true: anything but a success leaves the outcome unknown.
\* startTurn refuses a success without a result, under a code owner() uses as well
\* but with a status of its own, 502: its turn runs all the same.
MutationCodes(v) ==
  IF v = "success" THEN {"ok", "502 IPC_PROTOCOL_MISMATCH"} ELSE {"IPC_OPERATION_OUTCOME_UNKNOWN"}

MutationSettled(c) ==
  /\ pc[c] = "settle" /\ stage[c] = "mutation"
  /\ ForgetRequest(c)
  /\ \E code \in MutationCodes(verdict[c]) : Return(c, code)
  /\ UNCHANGED <<clientVars, life, outgoing, inHand, taskVars, stage, sess, verdict, inbox, arrivals>>

-----------------------------------------------------------------------------
(* The reader task: Session::receive on each frame.                        *)

\* Fault: the reply channel is looked up, not removed.
ReceiveResponseKeeps(s, r, v) ==
  /\ reader[s] = "running" /\ arrivals[s][r] > 0 /\ r \in pending[s]
  /\ inbox' = [inbox EXCEPT ![r] = Append(@, v)]
  /\ UNCHANGED <<clientVars, sessionVars, taskVars, callVars, arrivals>>

\* A response to a request still pending is moved into its reply channel, under
\* the pending lock.  Late and repeated responses find no entry and are dropped.
ReceiveResponse(s, r, v) ==
  /\ reader[s] = "running" /\ arrivals[s][r] > 0 /\ r \in pending[s]
  /\ pending' = [pending EXCEPT ![s] = @ \ {r}]
  /\ inbox' = [inbox EXCEPT ![r] = Append(@, v)]
  /\ UNCHANGED <<clientVars, life, outgoing, inHand, taskVars, callVars, arrivals>>

\* client-discovery and follower requests are answered through the same bounded
\* channel; the answer is dropped when send() fails.
ReceiveProbe(s) ==
  /\ reader[s] = "running" /\ Alive(s) /\ HasRoom(s)
  /\ outgoing' = [outgoing EXCEPT ![s] = Append(@, ProbeReply)]
  /\ UNCHANGED <<clientVars, life, pending, inHand, taskVars, callVars, inbox, arrivals>>

\* close() by a task: only the first closer finds `alive` set and goes on.
StartClose(s) == life' = [life EXCEPT ![s] = IF @ = "open" THEN "swapped" ELSE @]

\* read_frame fails: the reader calls close() and leaves its loop.
ReaderFails(s) ==
  /\ reader[s] = "running"
  /\ StartClose(s)
  /\ reader' = [reader EXCEPT ![s] = IF Alive(s) THEN "failing" ELSE "ended"]
  /\ UNCHANGED <<clientVars, pending, outgoing, inHand, writer, handles, aborting, callVars, inbox, arrivals>>

\* ipc-connection-reset or a stream of another version: the reader calls
\* close() inside receive() and stays in its loop.
ReaderResets(s) ==
  /\ reader[s] = "running" /\ Alive(s)
  /\ StartClose(s)
  /\ reader' = [reader EXCEPT ![s] = "resetting"]
  /\ UNCHANGED <<clientVars, pending, outgoing, inHand, writer, handles, aborting, callVars, inbox, arrivals>>

-----------------------------------------------------------------------------
(* The writer task.                                                        *)

WriterTake(s) ==
  /\ writer[s] = "running" /\ inHand[s] = NoFrame /\ outgoing[s] # <<>>
  /\ inHand' = [inHand EXCEPT ![s] = Head(outgoing[s])]
  /\ outgoing' = [outgoing EXCEPT ![s] = Tail(@)]
  /\ UNCHANGED <<clientVars, life, pending, taskVars, callVars, inbox, arrivals>>

\* The desktop has the complete frame that was in the writer's hand.
Deliver(s) ==
  arrivals' = IF inHand[s] \in Requests
              THEN [arrivals EXCEPT ![s][inHand[s]] = @ + 1]
              ELSE arrivals

WriteFrame(s) ==
  /\ writer[s] = "running" /\ inHand[s] # NoFrame
  /\ Deliver(s)
  /\ inHand' = [inHand EXCEPT ![s] = NoFrame]
  /\ UNCHANGED <<clientVars, life, pending, outgoing, taskVars, callVars, inbox>>

\* write_frame fails or takes 10 seconds; the desktop may have all its bytes.
WriterFails(s) ==
  /\ writer[s] = "running" /\ inHand[s] # NoFrame
  /\ Deliver(s) \/ UNCHANGED arrivals
  /\ inHand' = [inHand EXCEPT ![s] = NoFrame]
  /\ StartClose(s)
  /\ writer' = [writer EXCEPT ![s] = IF Alive(s) THEN "failing" ELSE "ended"]
  /\ UNCHANGED <<clientVars, pending, outgoing, reader, handles, aborting, callVars, inbox>>

-----------------------------------------------------------------------------
(* close(), after the swap of `alive`.                                     *)

\* Fault: close() leaves the pending requests to their time-outs.
DrainPendingOmitted(s) ==
  /\ life[s] = "swapped"
  /\ life' = [life EXCEPT ![s] = "drained"]
  /\ UNCHANGED <<clientVars, pending, outgoing, inHand, taskVars, callVars, inbox, arrivals>>

\* Every pending request is answered with the disconnect, under one lock.
DrainPending(s) ==
  /\ life[s] = "swapped"
  /\ life' = [life EXCEPT ![s] = "drained"]
  /\ pending' = [pending EXCEPT ![s] = {}]
  /\ inbox' = [r \in Requests |-> IF r \in pending[s] THEN Append(inbox[r], "disconnected") ELSE inbox[r]]
  /\ UNCHANGED <<clientVars, outgoing, inHand, taskVars, callVars, arrivals>>

\* Fault: the handles are dropped without an abort.
AbortedNone(s) == {}

\* The tasks whose handles are registered.
Aborted(s) == handles[s]

\* Registered tasks are aborted and close() returns to the task that called it.
AbortTasks(s) ==
  /\ life[s] = "drained"
  /\ life' = [life EXCEPT ![s] = "closed"]
  /\ aborting' = [aborting EXCEPT ![s] = @ \cup Aborted(s)]
  /\ handles' = [handles EXCEPT ![s] = {}]
  /\ reader' = [reader EXCEPT ![s] = IF @ = "failing" THEN "ended" ELSE IF @ = "resetting" THEN "running" ELSE @]
  /\ writer' = [writer EXCEPT ![s] = IF @ = "failing" THEN "ended" ELSE @]
  /\ UNCHANGED <<clientVars, pending, outgoing, inHand, callVars, inbox, arrivals>>

\* An abort takes effect at an await; until then the task runs on.
CancelReader(s) ==
  /\ "reader" \in aborting[s] /\ reader[s] = "running"
  /\ reader' = [reader EXCEPT ![s] = "ended"]
  /\ UNCHANGED <<clientVars, sessionVars, writer, handles, aborting, callVars, inbox, arrivals>>

CancelWriter(s) ==
  /\ "writer" \in aborting[s] /\ writer[s] = "running"
  /\ writer' = [writer EXCEPT ![s] = "ended"]
  /\ inHand' = [inHand EXCEPT ![s] = NoFrame]
  /\ UNCHANGED <<clientVars, life, pending, outgoing, reader, handles, aborting, callVars, inbox, arrivals>>

-----------------------------------------------------------------------------
Connect(c) ==
  \/ ConnectReuse(c) \/ ConnectFail(c) \/ SpawnWriter(c) \/ ConnectDone(c)
  \/ \E s \in Sessions : ConnectOpen(c, s)

\* Every step of the thread except the expiry of its timeout.
CallStep(c) ==
  \/ Connect(c)
  \/ InsertPending(c) \/ CheckAlive(c) \/ TrySend(c) \/ Abandon(c) \/ TakeReply(c)
  \/ DiscoveryUsable(c) \/ DiscoveryFailed(c) \/ MutationSettled(c)

CloseStep(s) == DrainPending(s) \/ AbortTasks(s) \/ CancelReader(s) \/ CancelWriter(s)

ReaderStep(s) ==
  \/ \E r \in Requests, v \in {"success", "error"} : ReceiveResponse(s, r, v)
  \/ ReceiveProbe(s) \/ ReaderFails(s) \/ ReaderResets(s)

WriterStep(s) == WriterTake(s) \/ WriteFrame(s) \/ WriterFails(s)

Next ==
  \/ \E c \in Calls : CallStep(c) \/ TimeOut(c)
  \/ \E s \in Sessions : ReaderStep(s) \/ WriterStep(s) \/ CloseStep(s)

Spec == Init /\ [][Next]_vars

(* Threads are scheduled, the runtime polls its tasks, and no lock is held *)
(* across a wait: each process that can step keeps stepping.  Nothing is   *)
(* assumed of the desktop: replies, failures and room in the outgoing      *)
(* channel may never come.  Nor is the clock assumed to run: that is the   *)
(* premise of EveryCallReturns, so no other property can lean on it.       *)
CloserFairness == \A s \in Sessions : WF_vars(CloseStep(s))
ThreadFairness == \A c \in Calls : WF_vars(CallStep(c))
ClockFairness  == \A c \in Calls : WF_vars(TimeOut(c))

FairSpec == Spec /\ CloserFairness /\ ThreadFairness

-----------------------------------------------------------------------------
(* Type invariant.                                                         *)

\* Every variable of the model holds a value of its type.
TypeOK ==
  /\ guard \in Sessions \cup {None} /\ connector \in Calls \cup {None}
  /\ life \in [Sessions -> {"unborn", "open", "swapped", "drained", "closed"}]
  /\ pending \in [Sessions -> SUBSET Requests]
  /\ outgoing \in [Sessions -> Seq(Frames)]
  /\ inHand \in [Sessions -> Frames \cup {NoFrame}]
  /\ reader \in [Sessions -> {"none", "running", "failing", "resetting", "ended"}]
  /\ writer \in [Sessions -> {"none", "running", "failing", "ended"}]
  /\ handles \in [Sessions -> SUBSET {"reader", "writer"}]
  /\ aborting \in [Sessions -> SUBSET {"reader", "writer"}]
  /\ pc \in [Calls -> {"idle", "opened", "spawned", "insert", "send", "queue",
                       "wait", "settle", "abandon", "done"}]
  /\ stage \in [Calls -> Stages]
  /\ sess \in [Calls -> Sessions \cup {None}]
  /\ inbox \in [Requests -> Seq(Replies)]
  /\ verdict \in [Calls -> Verdicts]
  /\ result \in [Calls -> Results]
  /\ arrivals \in [Sessions -> [Requests -> Nat]]

-----------------------------------------------------------------------------
(* Safety.                                                                 *)

Mutation(c) == [call |-> c, stage |-> "mutation"]

Holds(queue, f) == \E i \in 1..Len(queue) : queue[i] = f

InQueue(s, r) == Holds(outgoing[s], r)

OnItsWay(s, r)  == InQueue(s, r) \/ inHand[s] = r

\* A caller that was told its mutation was not submitted can rely on it: the
\* mutation has not reached the desktop and is in no queue towards it, whatever
\* the order of the queueing, the failure of the connection and the time-outs.
DefiniteFailureNotDelivered ==
  \A c \in Calls, s \in Sessions :
    result[c] \in NotSubmitted => ~OnItsWay(s, Mutation(c)) /\ arrivals[s][Mutation(c)] = 0

\* No request reaches the desktop twice: not over one connection, although its
\* write may fail after the last byte, and not over the next connection either.
AtMostOnce ==
  \A r \in Requests, s, t \in Sessions :
    /\ arrivals[s][r] <= 1
    /\ arrivals[s][r] > 0 /\ s # t => arrivals[t][r] = 0

\* A thread that waits for a reply is answered by whoever ends the connection:
\* its entry is still pending and the closer has yet to drain the entries, or
\* its reply channel is filled.  (alive is checked after the entry is inserted,
\* and close() drains after it cleared alive.)
NoOrphanedWait ==
  \A c \in Calls :
    pc[c] = "wait" /\ inbox[Request(c)] = <<>> =>
      Request(c) \in pending[sess[c]] /\ life[sess[c]] \in {"open", "swapped"}

\* At most one answer is ever sent into a reply channel, so the send of the
\* reader and of close() into a channel of capacity 1 never blocks, and the
\* pending lock held meanwhile is always released.
OneReplyPerRequest ==
  \A r \in Requests, s \in Sessions :
    Len(inbox[r]) + (IF r \in pending[s] THEN 1 ELSE 0) <= 1

\* A call that has returned left no entry behind, on any error path.
NoPendingLeak ==
  \A c \in Calls, s \in Sessions :
    pc[c] = "done" => \A r \in pending[s] : r.call # c

\* Two connections are never alive at once: connect() holds the session mutex
\* from the check of the old session to the storing of the new one.
SingleLiveSession == \A s, t \in Sessions : Alive(s) /\ Alive(t) => s = t

\* A task that outlives close() without an abort is one whose handle connect()
\* registered only after close() had drained the handles: the window between
\* the spawn of the reader and the registration of the writer's handle.
SurvivorsWereRegisteredLate ==
  \A s \in Sessions :
    life[s] = "closed" /\ ~(\E c \in Calls : connector = c /\ sess[c] = s) =>
      /\ writer[s] = "running" => "writer" \in aborting[s] \cup handles[s]
      /\ reader[s] = "running" => "reader" \in aborting[s] \cup handles[s]

-----------------------------------------------------------------------------
(* What the session implements: WriteOutcome, with the report of a call    *)
(* mapped to the three kinds of result.                                    *)

Report(code) ==
  IF code = "none" THEN "none"
  ELSE IF code \in {"ok", "502 IPC_PROTOCOL_MISMATCH"} THEN "ok"
  ELSE IF code = "IPC_OPERATION_OUTCOME_UNKNOWN" THEN "unknown"
  ELSE "refused"

Outcome == INSTANCE WriteOutcome WITH
  Routes    <- Sessions,
  delivered <- [c \in Calls |-> [s \in Sessions |-> arrivals[s][Mutation(c)]]],
  outcome   <- [c \in Calls |-> Report(result[c])]

\* Every write call behaves as WriteOutcome says: see that module.
ImplementsWriteOutcome == Outcome!Spec

-----------------------------------------------------------------------------
(* Liveness.                                                               *)

\* The end of a connection releases every call that waits on it, without the
\* help of any time-out (FairSpec does not let the clock be counted on).
DisconnectReleasesWaiters ==
  \A c \in Calls :
    (pc[c] = "wait" /\ life[sess[c]] # "open") ~> (pc[c] # "wait")

\* Every call returns, whatever the desktop does or fails to do: with the clock
\* running no lock, queue or reply channel holds a call for ever.
EveryCallReturns ==
  ClockFairness => \A c \in Calls : (pc[c] # "idle") ~> (pc[c] = "done")

=============================================================================
