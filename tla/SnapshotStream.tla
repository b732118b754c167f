---------------------------- MODULE SnapshotStream ----------------------------
(***************************************************************************)
(* The snapshots of one conversation on one session of the connector       *)
(* (src/src/desktop_ipc.rs): which desktop window owns the conversation,   *)
(* the last snapshot accepted from it, and the calls that wait for one.    *)
(*                                                                         *)
(* Threads of HTTP requests run read_metadata, read, follower and the      *)
(* approval (respondToRequest: read_metadata, then follower_for_owner).    *)
(* They share `owners`, `snapshots`, `snapshot_serial` and the condition   *)
(* variable `changed` with the reader task, which receives snapshots, and  *)
(* with whichever task runs close().                                       *)
(*                                                                         *)
(* The requests themselves are DesktopSession's: here a request is asked,  *)
(* and answered or given up.  Every window sends through its own pipe to   *)
(* the hub, in order; the hub merges the pipes.  Conversations do not      *)
(* share entries of the maps, so one is modelled.                          *)
(*                                                                         *)
(* `term` and `since` are history variables: no step depends on them.      *)
(***************************************************************************)
EXTENDS Naturals, Sequences

CONSTANTS
  Windows,        \* desktop windows that may own the conversation
  MetadataCalls,  \* threads that run read_metadata
  ApprovalCalls,  \* threads that run respondToRequest
  HistoryCalls,   \* threads that run read
  FollowerCalls,  \* threads that run follower
  MaxBroadcasts,  \* bound: snapshots the desktop broadcasts
  MaxMoves,       \* bound: times the conversation changes its window
  None

Calls == MetadataCalls \cup ApprovalCalls \cup HistoryCalls \cup FollowerCalls

ASSUME SnapshotAssumption ==
  /\ MaxBroadcasts \in Nat /\ MaxMoves \in Nat
  /\ None \notin Windows /\ None \notin Calls
  /\ HistoryCalls \cap (MetadataCalls \cup ApprovalCalls) = {}
  /\ FollowerCalls \cap (MetadataCalls \cup ApprovalCalls \cup HistoryCalls) = {}

VARIABLES
  holder,      \* the window that owns the conversation now
  moves,       \* number of ownership changes so far
  revision,    \* the desktop's revision of the conversation
  broadcasts,  \* number of snapshots broadcast so far
  pipe,        \* per window: its messages on their way to the reader
  asked,       \* requests the desktop has yet to answer
  life,        \* how far close() has come; alive is life = "open"
  owners,      \* Session.owners: the window this session believes in, or None
  snapshot,    \* Session.snapshots: the stored snapshot, or None
  serial,      \* Session.snapshot_serial
  term,        \* history: how often the owner in `owners` has changed
  lock,        \* the call that holds the snapshots mutex across steps, or None
  accepting,   \* a snapshot that receive() has matched with owners, and in which
               \* term, or None
  pc,          \* per call: next step of its thread
  stage,       \* per call: reading a snapshot, sending a mutation, or sending
               \* it on the session that has replaced this one
  inbox,       \* per call: the reply to its request, or None
  found,       \* per call: the window its last owner() returned
  before,      \* per call: the serial, or the history revision, to be passed
  since,       \* history, per call: the desktop's revision when a history read
               \* began, the term in which another read found its owner
  got,         \* per call: the snapshot it read, or None
  label,       \* per call: the ownerClientId returned with that snapshot
  sentTo,      \* per call: the window its mutation was addressed to, or None
  result       \* per call

desktopVars == <<holder, moves, revision, broadcasts>>
storeVars   == <<owners, snapshot, serial, term, accepting>>
readVars    == <<got, label, sentTo, result>>
vars == <<desktopVars, pipe, asked, life, storeVars, lock, pc, stage, inbox, found, before, since, readVars>>

Questions == {"owner", "history"}
Snapshots == [kind : {"snapshot"}, from : Windows, revision : Nat]
Replies   == [kind : Questions, call : Calls, from : Windows, revision : Nat]
Accepted  == [from : Windows, revision : Nat, term : Nat]
Stored    == [from : Windows, revision : Nat, serial : Nat, term : Nat]

Alive == life = "open"

Steps == {"ask", "asking", "drop", "enter", "follow", "load", "history", "check", "lastcheck",
          "parking", "parked", "woken", "expired", "verify", "done"}
Codes == {"none", "ok", "FAILED", "DESKTOP_IPC_DISCONNECTED", "IPC_SNAPSHOT_TIMEOUT",
          "IPC_OWNER_CHANGED"}

Goto(c, step) == pc' = [pc EXCEPT ![c] = step]

Return(c, code) == Goto(c, "done") /\ result' = [result EXCEPT ![c] = code]

\* Fault: notify_one in the place of notify_all.
WakeOne ==
  \/ \E c \in Calls : pc[c] = "parked" /\ Goto(c, "woken")
  \/ (\A c \in Calls : pc[c] # "parked") /\ UNCHANGED pc

\* Of parked threads, notify_all wakes every one.
WakeAll == pc' = [c \in Calls |-> IF pc[c] = "parked" THEN "woken" ELSE pc[c]]

-----------------------------------------------------------------------------
Init ==
  /\ holder \in Windows /\ moves = 0 /\ revision = 0 /\ broadcasts = 0
  /\ pipe = [w \in Windows |-> <<>>]
  /\ asked = {} /\ life = "open"
  /\ owners = None /\ snapshot = None /\ serial = 0 /\ lock = None /\ accepting = None
  /\ term = 0 /\ since = [c \in Calls |-> 0]
  /\ pc = [c \in Calls |-> "ask"]
  /\ stage = [c \in Calls |-> IF c \in FollowerCalls THEN "send" ELSE "read"]
  /\ inbox = [c \in Calls |-> None]
  /\ found = [c \in Calls |-> None]
  /\ before = [c \in Calls |-> 0]
  /\ got = [c \in Calls |-> None]
  /\ label = [c \in Calls |-> None]
  /\ sentTo = [c \in Calls |-> None]
  /\ result = [c \in Calls |-> "none"]

-----------------------------------------------------------------------------
(* The desktop.                                                            *)

\* The user opens the conversation in another window.
Move(w) ==
  /\ moves < MaxMoves /\ w # holder
  /\ moves' = moves + 1 /\ holder' = w
  /\ UNCHANGED <<revision, broadcasts, pipe, asked, life, storeVars, lock, pc, stage, inbox,
                 found, before, since, readVars>>

\* The owning window broadcasts a snapshot, after a change or because a
\* follower asked for one at an unchanged revision.
Broadcast(n) ==
  /\ broadcasts < MaxBroadcasts
  /\ broadcasts' = broadcasts + 1 /\ revision' = n
  /\ pipe' = [pipe EXCEPT ![holder] = Append(@, [kind |-> "snapshot", from |-> holder, revision |-> n])]
  /\ UNCHANGED <<holder, moves, asked, life, storeVars, lock, pc, stage, inbox, found, before, since, readVars>>

\* The owning window answers a discovery, or the history request sent to it.
Answer(q) ==
  /\ q \in asked /\ q.to \in {None, holder}
  /\ asked' = asked \ {q}
  /\ pipe' = [pipe EXCEPT ![holder] =
       Append(@, [kind |-> q.kind, call |-> q.call, from |-> holder, revision |-> revision])]
  /\ UNCHANGED <<desktopVars, life, storeVars, lock, pc, stage, inbox, found, before, since, readVars>>

-----------------------------------------------------------------------------
(* The reader task: receive().                                             *)

Take(w) == pipe' = [pipe EXCEPT ![w] = Tail(@)]

\* A reply goes to its thread if that still waits for it.
ReceiveReply(w) ==
  /\ accepting = None /\ pipe[w] # <<>> /\ Head(pipe[w]).kind \in Questions
  /\ Take(w)
  /\ LET m == Head(pipe[w]) IN
       inbox' = IF pc[m.call] \in {"asking", "history"} THEN [inbox EXCEPT ![m.call] = m] ELSE inbox
  /\ UNCHANGED <<desktopVars, asked, life, storeVars, lock, pc, stage, found, before, since, readVars>>

\* Fault: a snapshot of any window is accepted.
OfAnyone(m) == TRUE

\* A snapshot of another sender is dropped.
OfOwner(m) == owners = m.from

\* First half of a snapshot: its sender is compared with owners, under that
\* lock alone.
MatchOwner(w) ==
  /\ accepting = None /\ pipe[w] # <<>> /\ Head(pipe[w]).kind = "snapshot"
  /\ Take(w)
  /\ LET m == Head(pipe[w]) IN
       accepting' = IF OfOwner(m) THEN [from |-> m.from, revision |-> m.revision, term |-> term]
                                  ELSE None
  /\ UNCHANGED <<desktopVars, asked, life, owners, snapshot, serial, term, lock, pc, stage, inbox, found,
                 before, since, readVars>>

Entry == [from |-> accepting.from, revision |-> accepting.revision, serial |-> serial + 1,
          term |-> accepting.term]

\* Second half: stored, counted and announced under the snapshots lock.
StoreSnapshot ==
  /\ accepting # None /\ lock = None
  /\ serial' = serial + 1
  /\ snapshot' = Entry
  /\ accepting' = None
  /\ WakeAll
  /\ UNCHANGED <<desktopVars, pipe, asked, life, owners, term, lock, stage, inbox, found, before, since, readVars>>

-----------------------------------------------------------------------------
(* close(), by the reader or the writer.                                   *)

SwapAlive ==
  /\ life = "open" /\ life' = "swapped"
  /\ UNCHANGED <<desktopVars, pipe, asked, storeVars, lock, pc, stage, inbox, found, before, since, readVars>>

\* Fault: close() does not touch snapshots, hence does not take their lock.
ClearSnapshotsOmitted ==
  /\ life = "swapped"
  /\ life' = "cleared"
  /\ UNCHANGED <<desktopVars, pipe, asked, storeVars, lock, pc, stage, inbox, found, before, since, readVars>>

\* snapshots is cleared under its lock.
ClearSnapshots ==
  /\ life = "swapped" /\ lock = None
  /\ life' = "cleared" /\ snapshot' = None
  /\ UNCHANGED <<desktopVars, pipe, asked, owners, serial, term, accepting, lock, pc, stage,
                 inbox, found, before, since, readVars>>

\* Fault: close() clears the snapshots without notifying.
NotifyClosedOmitted ==
  /\ life = "cleared" /\ life' = "notified"
  /\ UNCHANGED <<desktopVars, pipe, asked, storeVars, lock, pc, stage, inbox, found, before, since, readVars>>

NotifyClosed ==
  /\ life = "cleared" /\ life' = "notified"
  /\ WakeAll
  /\ UNCHANGED <<desktopVars, pipe, asked, storeVars, lock, stage, inbox, found, before, since, readVars>>

-----------------------------------------------------------------------------
(* owner().                                                                *)

AsksOwner(c) ==
  /\ asked' = asked \cup {[kind |-> "owner", call |-> c, to |-> None]}
  /\ Goto(c, "asking") /\ UNCHANGED result

\* A call keeps the session it began on.  An approval connects once more between
\* its read and its mutation: if the session has died, it may get another one.
AskOwner(c) ==
  /\ pc[c] = "ask"
  /\ \/ Alive /\ AsksOwner(c) /\ UNCHANGED stage
     \/ /\ ~Alive /\ stage[c] = "send" /\ c \in ApprovalCalls
        /\ AsksOwner(c) /\ stage' = [stage EXCEPT ![c] = "elsewhere"]
     \/ ~Alive /\ Return(c, "DESKTOP_IPC_DISCONNECTED") /\ UNCHANGED <<asked, stage>>
  /\ since' = IF c \in HistoryCalls THEN [since EXCEPT ![c] = revision] ELSE since
  /\ UNCHANGED <<desktopVars, pipe, life, storeVars, lock, inbox, found, before, got, label, sentTo>>

\* A request of the call is answered with an error, times out, or is released
\* by the end of the connection.
RequestFails(c) ==
  /\ pc[c] \in {"asking", "history"}
  /\ asked' = {q \in asked : q.call # c}
  /\ Return(c, "FAILED")
  /\ UNCHANGED <<desktopVars, pipe, life, storeVars, lock, stage, inbox, found, before, since, got, label, sentTo>>

\* The owner that was found is stored, in the maps of the session that was asked ...
InsertOwner(c) ==
  /\ pc[c] = "asking" /\ inbox[c] # None
  /\ found' = [found EXCEPT ![c] = inbox[c].from]
  /\ inbox' = [inbox EXCEPT ![c] = None]
  /\ IF stage[c] = "elsewhere"
     THEN UNCHANGED <<owners, term>> /\ Goto(c, "enter")
     ELSE /\ owners' = inbox[c].from
          /\ IF owners = inbox[c].from THEN term' = term /\ Goto(c, "enter")
                                        ELSE term' = term + 1 /\ Goto(c, "drop")
  /\ since' = IF stage[c] = "read" /\ c \notin HistoryCalls THEN [since EXCEPT ![c] = term'] ELSE since
  /\ UNCHANGED <<desktopVars, pipe, asked, life, snapshot, serial, accepting, lock, stage, before, readVars>>

\* ... and the snapshot of a previous owner is dropped, under the next lock.
DropSnapshot(c) ==
  /\ pc[c] = "drop" /\ lock = None
  /\ snapshot' = None
  /\ Goto(c, "enter")
  /\ UNCHANGED <<desktopVars, pipe, asked, life, owners, serial, term, accepting, lock, stage,
                 inbox, found, before, since, readVars>>

-----------------------------------------------------------------------------
(* read_metadata().                                                        *)

\* The snapshots lock is taken and the serial noted.
EnterMetadata(c) ==
  /\ pc[c] = "enter" /\ stage[c] = "read" /\ c \notin HistoryCalls
  /\ lock = None /\ lock' = c
  /\ before' = [before EXCEPT ![c] = serial]
  /\ Goto(c, "follow")
  /\ UNCHANGED <<desktopVars, pipe, asked, life, storeVars, stage, inbox, found, since, readVars>>

\* The owner is asked to broadcast its state, unless the queue is full.  (That the
\* owner does is a Broadcast; the request itself leaves no other trace.)
FollowSent(c, next) ==
  IF Alive THEN (Goto(c, next) /\ UNCHANGED result) \/ Return(c, "FAILED")
           ELSE Return(c, "DESKTOP_IPC_DISCONNECTED")

\* It is asked with the lock held.
Follow(c) ==
  /\ pc[c] = "follow"
  /\ FollowSent(c, "check")
  /\ lock' = IF pc'[c] = "done" THEN None ELSE lock
  /\ UNCHANGED <<desktopVars, pipe, asked, life, storeVars, stage, inbox, found, before, since, got, label, sentTo>>

-----------------------------------------------------------------------------
(* read(): follow, ask the owner to load the history, wait for its revision. *)

EnterHistory(c) ==
  /\ pc[c] = "enter" /\ stage[c] = "read" /\ c \in HistoryCalls
  /\ FollowSent(c, "load")
  /\ UNCHANGED <<desktopVars, pipe, asked, life, storeVars, lock, stage, inbox, found, before, since,
                 got, label, sentTo>>

LoadHistory(c) ==
  /\ pc[c] = "load"
  /\ IF Alive THEN /\ asked' = asked \cup {[kind |-> "history", call |-> c, to |-> found[c]]}
                   /\ Goto(c, "history") /\ UNCHANGED result
              ELSE Return(c, "DESKTOP_IPC_DISCONNECTED") /\ UNCHANGED asked
  /\ UNCHANGED <<desktopVars, pipe, life, storeVars, lock, stage, inbox, found, before, since, got, label, sentTo>>

HistoryLoaded(c) ==
  /\ pc[c] = "history" /\ inbox[c] # None
  /\ before' = [before EXCEPT ![c] = inbox[c].revision]
  /\ inbox' = [inbox EXCEPT ![c] = None]
  /\ Goto(c, "woken")
  /\ UNCHANGED <<desktopVars, pipe, asked, life, storeVars, lock, stage, found, since, readVars>>

-----------------------------------------------------------------------------
(* The wait loop of both, under the snapshots lock.                        *)

\* Fault: any stored snapshot will do.
SatisfiedByAny(c) == snapshot # None

Satisfied(c) ==
  /\ snapshot # None
  /\ IF c \in HistoryCalls THEN snapshot.revision >= before[c] ELSE serial > before[c]

\* The snapshot is returned with the owner this call had found; an approval
\* goes on to verify the pending request in it.
ReturnSnapshot(c) ==
  /\ pc[c] \in {"check", "lastcheck"} /\ Satisfied(c)
  /\ got' = [got EXCEPT ![c] = snapshot]
  /\ label' = [label EXCEPT ![c] = found[c]]
  /\ lock' = None
  /\ IF c \in ApprovalCalls THEN Goto(c, "verify") /\ UNCHANGED result ELSE Return(c, "ok")
  /\ UNCHANGED <<desktopVars, pipe, asked, life, storeVars, stage, inbox, found, before, since, sentTo>>

\* read_metadata refuses a snapshot that is not an object.
RefuseSnapshot(c) ==
  /\ pc[c] \in {"check", "lastcheck"} /\ Satisfied(c) /\ c \notin HistoryCalls
  /\ lock' = None
  /\ Return(c, "FAILED")
  /\ UNCHANGED <<desktopVars, pipe, asked, life, storeVars, stage, inbox, found, before, since, got, label, sentTo>>

NoticeDisconnect(c) ==
  /\ pc[c] \in {"check", "lastcheck"} /\ ~Satisfied(c) /\ ~Alive
  /\ lock' = None
  /\ Return(c, "DESKTOP_IPC_DISCONNECTED")
  /\ UNCHANGED <<desktopVars, pipe, asked, life, storeVars, stage, inbox, found, before, since, got, label, sentTo>>

\* alive was set when it was loaded: the thread will wait, or its time is up.
KeepWaiting(c) ==
  /\ pc[c] = "check" /\ ~Satisfied(c) /\ Alive
  /\ Goto(c, "parking")
  /\ UNCHANGED <<desktopVars, pipe, asked, life, storeVars, lock, stage, inbox, found, before, since, readVars>>

GiveUp(c) ==
  /\ pc[c] \in {"check", "lastcheck"} /\ ~Satisfied(c) /\ Alive
  /\ lock' = None
  /\ Return(c, "IPC_SNAPSHOT_TIMEOUT")
  /\ UNCHANGED <<desktopVars, pipe, asked, life, storeVars, stage, inbox, found, before, since, got, label, sentTo>>

\* wait_timeout releases the lock and parks the thread in one step.
Park(c) ==
  /\ pc[c] = "parking"
  /\ lock' = None
  /\ Goto(c, "parked")
  /\ UNCHANGED <<desktopVars, pipe, asked, life, storeVars, stage, inbox, found, before, since, readVars>>

\* Fault: wait() in the place of wait_timeout().
ExpireMissing(c) == pc[c] = "unreachable" /\ UNCHANGED vars

Expire(c) ==
  /\ pc[c] = "parked"
  /\ Goto(c, "expired")
  /\ UNCHANGED <<desktopVars, pipe, asked, life, storeVars, lock, stage, inbox, found, before, since, readVars>>

\* A thread that leaves the wait takes the lock again and looks at the state.
Relock(c) ==
  /\ pc[c] \in {"woken", "expired"} /\ lock = None
  /\ lock' = c
  /\ Goto(c, IF pc[c] = "woken" THEN "check" ELSE "lastcheck")
  /\ UNCHANGED <<desktopVars, pipe, asked, life, storeVars, stage, inbox, found, before, since, readVars>>

-----------------------------------------------------------------------------
(* respondToRequest after its read, and follower_checked after owner().    *)

\* The turn, the request and its type match the snapshot, or the call ends; a
\* match goes on to follower_for_owner, which discovers the owner once more.
Verify(c) ==
  /\ pc[c] = "verify"
  /\ \/ Return(c, "FAILED") /\ UNCHANGED stage
     \/ Goto(c, "ask") /\ stage' = [stage EXCEPT ![c] = "send"] /\ UNCHANGED result
  /\ UNCHANGED <<desktopVars, pipe, asked, life, storeVars, lock, inbox, found, before, since, got, label, sentTo>>

OwnerChanged(c) == c \in ApprovalCalls /\ found[c] # label[c]

\* The mutation is addressed to the owner just found, which for an approval
\* must be the one its snapshot was returned with.
SendMutation(c) ==
  /\ pc[c] = "enter" /\ stage[c] # "read"
  /\ IF OwnerChanged(c)
     THEN Return(c, "IPC_OWNER_CHANGED") /\ UNCHANGED sentTo
     ELSE Return(c, "ok") /\ sentTo' = [sentTo EXCEPT ![c] = found[c]]
  /\ UNCHANGED <<desktopVars, pipe, asked, life, storeVars, lock, stage, inbox, found, before, since, got, label>>

-----------------------------------------------------------------------------
DesktopStep ==
  \/ \E w \in Windows : Move(w)
  \/ \E n \in {revision, revision + 1} : Broadcast(n)
  \/ \E q \in asked : Answer(q)

ReaderStep == StoreSnapshot \/ \E w \in Windows : ReceiveReply(w) \/ MatchOwner(w)

CloseStep == ClearSnapshots \/ NotifyClosed

OwnerStep(c) == AskOwner(c) \/ InsertOwner(c) \/ DropSnapshot(c)

WaitStep(c) ==
  \/ ReturnSnapshot(c) \/ RefuseSnapshot(c) \/ NoticeDisconnect(c) \/ KeepWaiting(c)
  \/ Park(c) \/ Relock(c)

\* Steps of the thread that need no clock.
CallStep(c) ==
  \/ OwnerStep(c) \/ WaitStep(c)
  \/ EnterMetadata(c) \/ Follow(c) \/ EnterHistory(c) \/ LoadHistory(c) \/ HistoryLoaded(c)
  \/ Verify(c) \/ SendMutation(c)

ClockStep(c) == RequestFails(c) \/ GiveUp(c) \/ Expire(c)

Next ==
  \/ DesktopStep \/ ReaderStep \/ SwapAlive \/ CloseStep
  \/ \E c \in Calls : CallStep(c) \/ ClockStep(c)

Spec == Init /\ [][Next]_vars

\* Threads and the closing task are scheduled, the snapshots lock is granted in
\* the end, and the reader stores what it has accepted.  The desktop owes nothing,
\* and nothing but EveryReadReturns counts on the clock.
FairSpec ==
  Spec /\ WF_vars(StoreSnapshot) /\ WF_vars(CloseStep) /\ \A c \in Calls : WF_vars(CallStep(c))

ClockFairness == \A c \in Calls : WF_vars(ClockStep(c))

-----------------------------------------------------------------------------
\* Type invariant.
TypeOK ==
  /\ holder \in Windows /\ moves \in 0..MaxMoves
  /\ revision \in Nat /\ broadcasts \in 0..MaxBroadcasts
  /\ pipe \in [Windows -> Seq(Snapshots \cup Replies)]
  /\ asked \subseteq [kind : Questions, call : Calls, to : Windows \cup {None}]
  /\ life \in {"open", "swapped", "cleared", "notified"}
  /\ owners \in Windows \cup {None}
  /\ snapshot \in Stored \cup {None}
  /\ serial \in Nat /\ term \in Nat
  /\ lock \in Calls \cup {None}
  /\ accepting \in Accepted \cup {None}
  /\ pc \in [Calls -> Steps]
  /\ stage \in [Calls -> {"read", "send", "elsewhere"}]
  /\ inbox \in [Calls -> Replies \cup {None}]
  /\ found \in [Calls -> Windows \cup {None}]
  /\ before \in [Calls -> Nat] /\ since \in [Calls -> Nat]
  /\ got \in [Calls -> Stored \cup {None}]
  /\ label \in [Calls -> Windows \cup {None}]
  /\ sentTo \in [Calls -> Windows \cup {None}]
  /\ result \in [Calls -> Codes]

-----------------------------------------------------------------------------
(* Safety.                                                                 *)

\* Once close() has notified, no thread waits on the dead session or is about
\* to: a thread that saw alive set holds the snapshots lock until it is parked,
\* and close() takes that lock between clearing alive and notifying.
NoLostWakeup == life = "notified" => \A c \in Calls : pc[c] \notin {"parking", "parked"}

\* No thread sleeps on a snapshot that would satisfy it: what is stored while
\* it decides to wait, or while it waits, wakes it.
ParkedMeansNothingNew == \A c \in Calls : pc[c] \in {"parking", "parked"} => ~Satisfied(c)

\* A metadata read returns a snapshot accepted after its own request to follow
\* was queued, even at an unchanged revision; never one stored earlier.
FreshAfterFollow ==
  \A c \in MetadataCalls \cup ApprovalCalls : got[c] # None => got[c].serial > before[c]

\* A history read returns no state older than the conversation was when the read
\* began, so none older than an earlier read returned: though its snapshot and the
\* answer that names the revision come by different ways, and windows, calls and
\* the end of the session change the store while it waits.
HistoryIsCurrent == \A c \in HistoryCalls : got[c] # None => got[c].revision >= since[c]

\* The window a read names as the owner is the one whose snapshot it returns, and
\* an approval goes to no other, also over another session: unless the owner in
\* `owners` changed between the read's discovery and the moment the reader matched
\* that snapshot.  Only such a change lets the first finding (README) happen.
NamedOwnerSentIt ==
  \A c \in MetadataCalls \cup ApprovalCalls :
    got[c] # None => \/ label[c] = got[c].from /\ sentTo[c] \in {None, got[c].from}
                     \/ got[c].term # since[c]

-----------------------------------------------------------------------------
(* Liveness.                                                               *)

\* The end of the session releases every reader without the help of the clock.
DisconnectReleasesReaders ==
  \A c \in Calls : (pc[c] = "parked" /\ ~Alive) ~> (pc[c] = "done")

\* Every call returns once the clock runs: lock, condition variable and time-outs
\* together never hold a thread for ever, whatever the desktop does.
EveryReadReturns == ClockFairness => \A c \in Calls : <>(pc[c] = "done")

-----------------------------------------------------------------------------
(* What the repository says and the code does not keep (see README).       *)

\* connector.json: an approval is verified against the pending request and then
\* sent "to the same desktop owner": the window whose snapshot was verified.
ApprovalReachesVerifiedOwner ==
  \A c \in ApprovalCalls : sentTo[c] # None => sentTo[c] = got[c].from

\* The message of IPC_SNAPSHOT_TIMEOUT in read_metadata: "desktop did not
\* deliver current metadata snapshot", so none was accepted since the request.
TimeoutMeansNotDelivered ==
  [][\A c \in MetadataCalls :
       result[c] = "none" /\ result'[c] = "IPC_SNAPSHOT_TIMEOUT" => serial = before[c]]_vars
=============================================================================
