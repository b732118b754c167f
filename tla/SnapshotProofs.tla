---------------------------- MODULE SnapshotProofs ----------------------------
(* Proofs about SnapshotStream: for any windows, calls and bounds, no thread *)
(* sleeps on a dead session or on a snapshot that is there; a metadata read  *)
(* returns what arrived after it asked, and a history read nothing older     *)
(* than its request; and the owner a read names sent what it returns, as     *)
(* long as the owner stays.                                                  *)
EXTENDS SnapshotStream, SequenceTheorems, TLAPS

-----------------------------------------------------------------------------
(* Type correctness.                                                        *)

Messages == Snapshots \cup Replies

\* What a window sends extends its pipe by a message.
LEMMA PipeAppend ==
  ASSUME TypeOK, NEW w \in Windows, NEW m \in Messages,
         pipe' = [pipe EXCEPT ![w] = Append(@, m)]
  PROVE  pipe' \in [Windows -> Seq(Messages)]
<1>1. pipe \in [Windows -> Seq(Messages)]  BY DEF TypeOK, Messages
<1>2. Append(pipe[w], m) \in Seq(Messages)  BY <1>1, AppendProperties
<1> QED BY <1>1, <1>2

\* What the reader takes is a message, and leaves a pipe of messages.
LEMMA PipeTake ==
  ASSUME TypeOK, NEW w \in Windows, pipe[w] # <<>>, Take(w)
  PROVE  pipe' \in [Windows -> Seq(Messages)] /\ Head(pipe[w]) \in Messages
<1>1. pipe \in [Windows -> Seq(Messages)]  BY DEF TypeOK, Messages
<1>2. Tail(pipe[w]) \in Seq(Messages) /\ Head(pipe[w]) \in Messages
      BY <1>1, HeadTailProperties
<1> QED BY <1>1, <1>2 DEF Take

\* The desktop, the reader and close() keep every variable in its type.
LEMMA EnvironmentTypeOK ==
  ASSUME TypeOK, DesktopStep \/ ReaderStep \/ SwapAlive \/ CloseStep
  PROVE  TypeOK'
<1> USE DEF TypeOK, desktopVars, storeVars, readVars, Steps
<1>1. ASSUME NEW w \in Windows, Move(w)  PROVE TypeOK'
      BY <1>1, SnapshotAssumption DEF Move
<1>2. ASSUME NEW n \in {revision, revision + 1}, Broadcast(n)  PROVE TypeOK'
  <2>1. n \in Nat  OBVIOUS
  <2>2. [kind |-> "snapshot", from |-> holder, revision |-> n] \in Messages
        BY <2>1 DEF Messages, Snapshots
  <2>3. pipe' \in [Windows -> Seq(Messages)]  BY <1>2, <2>2, PipeAppend DEF Broadcast
  <2> QED BY <1>2, <2>1, <2>3, SnapshotAssumption DEF Broadcast, Messages
<1>3. ASSUME NEW q \in asked, Answer(q)  PROVE TypeOK'
  <2>1. [kind |-> q.kind, call |-> q.call, from |-> holder, revision |-> revision] \in Messages
        BY DEF Messages, Replies
  <2>2. pipe' \in [Windows -> Seq(Messages)]  BY <1>3, <2>1, PipeAppend DEF Answer
  <2> QED BY <1>3, <2>2 DEF Answer, Messages
<1>4. ASSUME NEW w \in Windows, ReceiveReply(w)  PROVE TypeOK'
  <2>1. pipe' \in [Windows -> Seq(Messages)] /\ Head(pipe[w]) \in Messages
        BY <1>4, PipeTake DEF ReceiveReply
  <2>2. Head(pipe[w]) \in Replies
        BY <1>4, <2>1 DEF ReceiveReply, Messages, Snapshots, Questions
  <2>3. inbox' \in [Calls -> Replies \cup {None}]  BY <1>4, <2>2 DEF ReceiveReply
  <2> QED BY <1>4, <2>1, <2>3 DEF ReceiveReply, Messages
<1>5. ASSUME NEW w \in Windows, MatchOwner(w)  PROVE TypeOK'
  <2>1. pipe' \in [Windows -> Seq(Messages)] /\ Head(pipe[w]) \in Messages
        BY <1>5, PipeTake DEF MatchOwner
  <2>2. Head(pipe[w]) \in Snapshots
        BY <1>5, <2>1 DEF MatchOwner, Messages, Replies, Questions
  <2>3. accepting' \in Accepted \cup {None}  BY <1>5, <2>2 DEF MatchOwner, Snapshots, Accepted
  <2> QED BY <1>5, <2>1, <2>3 DEF MatchOwner, Messages
<1>6. CASE StoreSnapshot
  <2>1. snapshot' \in Stored /\ serial' \in Nat
        BY <1>6 DEF StoreSnapshot, Entry, Accepted, Stored
  <2>2. pc' \in [Calls -> Steps]  BY <1>6 DEF StoreSnapshot, Entry, WakeAll
  <2> QED BY <1>6, <2>1, <2>2 DEF StoreSnapshot, Entry
<1>7. CASE SwapAlive  BY <1>7 DEF SwapAlive
<1>8. CASE ClearSnapshots  BY <1>8 DEF ClearSnapshots
<1>9. CASE NotifyClosed
  <2>1. pc' \in [Calls -> Steps]  BY <1>9 DEF NotifyClosed, WakeAll
  <2> QED BY <1>9, <2>1 DEF NotifyClosed
<1> QED BY <1>1, <1>2, <1>3, <1>4, <1>5, <1>6, <1>7, <1>8, <1>9
        DEF DesktopStep, ReaderStep, CloseStep

\* Every step of a call's thread keeps every variable in its type.
LEMMA CallTypeOK ==
  ASSUME TypeOK, NEW c \in Calls, CallStep(c) \/ ClockStep(c)
  PROVE  TypeOK'
<1> USE DEF TypeOK, desktopVars, storeVars, readVars, Steps, Codes, Goto, Return
<1>1. CASE AskOwner(c)
  <2>1. [kind |-> "owner", call |-> c, to |-> None]
          \in [kind : Questions, call : Calls, to : Windows \cup {None}]
        BY DEF Questions
  <2>2. asked' \subseteq [kind : Questions, call : Calls, to : Windows \cup {None}]
        BY <1>1, <2>1 DEF AskOwner, AsksOwner
  <2>3. pc' \in [Calls -> Steps]
    <3>1. pc' = [pc EXCEPT ![c] = "asking"] \/ pc' = [pc EXCEPT ![c] = "done"]
          BY <1>1 DEF AskOwner, AsksOwner
    <3> QED BY <3>1
  <2>4. result' \in [Calls -> Codes]
    <3>1. result' = result \/ result' = [result EXCEPT ![c] = "DESKTOP_IPC_DISCONNECTED"]
          BY <1>1 DEF AskOwner, AsksOwner
    <3> QED BY <3>1
  <2>5. stage' \in [Calls -> {"read", "send", "elsewhere"}]
    <3>1. stage' = stage \/ stage' = [stage EXCEPT ![c] = "elsewhere"]  BY <1>1 DEF AskOwner
    <3> QED BY <3>1
  <2>6. since' \in [Calls -> Nat]  BY <1>1 DEF AskOwner
  <2> HIDE DEF Steps, Codes
  <2> QED BY <1>1, <2>2, <2>3, <2>4, <2>5, <2>6 DEF AskOwner
<1>2. CASE InsertOwner(c)
  <2>1. inbox[c].from \in Windows  BY <1>2 DEF InsertOwner, Replies
  <2>2. owners' \in Windows \cup {None} /\ term' \in Nat /\ since' \in [Calls -> Nat]
        BY <1>2, <2>1 DEF InsertOwner
  <2>3. pc' \in [Calls -> Steps]
    <3>1. pc' = [pc EXCEPT ![c] = "enter"] \/ pc' = [pc EXCEPT ![c] = "drop"]
          BY <1>2 DEF InsertOwner
    <3> QED BY <3>1
  <2>4. found' \in [Calls -> Windows \cup {None}] /\ inbox' \in [Calls -> Replies \cup {None}]
        BY <1>2, <2>1 DEF InsertOwner
  <2> HIDE DEF Steps, Codes
  <2> QED BY <1>2, <2>2, <2>3, <2>4 DEF InsertOwner
<1>3. CASE DropSnapshot(c)  BY <1>3 DEF DropSnapshot
<1>4. CASE ReturnSnapshot(c)  BY <1>4 DEF ReturnSnapshot
<1>5. CASE NoticeDisconnect(c)  BY <1>5 DEF NoticeDisconnect
<1>6. CASE KeepWaiting(c)  BY <1>6 DEF KeepWaiting
<1>7. CASE Park(c)  BY <1>7 DEF Park
<1>8. CASE Relock(c)  BY <1>8 DEF Relock
<1>9. CASE EnterMetadata(c)  BY <1>9 DEF EnterMetadata
<1>10. CASE Follow(c)
  <2>1. pc' \in [Calls -> Steps] /\ result' \in [Calls -> Codes]
        BY <1>10 DEF Follow, FollowSent
  <2>2. lock' \in Calls \cup {None}  BY <1>10 DEF Follow
  <2> HIDE DEF Steps, Codes
  <2> QED BY <1>10, <2>1, <2>2 DEF Follow
<1>11. CASE EnterHistory(c)
  <2>1. pc' \in [Calls -> Steps] /\ result' \in [Calls -> Codes]
        BY <1>11 DEF EnterHistory, FollowSent
  <2> HIDE DEF Steps, Codes
  <2> QED BY <1>11, <2>1 DEF EnterHistory
<1>18. CASE LoadHistory(c)
  <2>1. [kind |-> "history", call |-> c, to |-> found[c]]
          \in [kind : Questions, call : Calls, to : Windows \cup {None}]
        BY DEF Questions
  <2>2. asked' \subseteq [kind : Questions, call : Calls, to : Windows \cup {None}]
        BY <1>18, <2>1 DEF LoadHistory
  <2>3. pc' \in [Calls -> Steps] /\ result' \in [Calls -> Codes]  BY <1>18 DEF LoadHistory
  <2> HIDE DEF Steps, Codes
  <2> QED BY <1>18, <2>2, <2>3 DEF LoadHistory
<1>19. CASE RefuseSnapshot(c)  BY <1>19 DEF RefuseSnapshot
<1>12. CASE HistoryLoaded(c)
  <2>1. inbox[c].revision \in Nat  BY <1>12 DEF HistoryLoaded, Replies
  <2> QED BY <1>12, <2>1 DEF HistoryLoaded
<1>13. CASE Verify(c)  BY <1>13 DEF Verify
<1>14. CASE SendMutation(c)  BY <1>14 DEF SendMutation, OwnerChanged
<1>15. CASE RequestFails(c)  BY <1>15 DEF RequestFails
<1>16. CASE GiveUp(c)  BY <1>16 DEF GiveUp
<1>17. CASE Expire(c)  BY <1>17 DEF Expire
<1> QED BY <1>1, <1>2, <1>3, <1>4, <1>5, <1>6, <1>7, <1>8, <1>9, <1>10, <1>11, <1>12, <1>13,
           <1>14, <1>15, <1>16, <1>17, <1>18, <1>19 DEF CallStep, ClockStep, OwnerStep, WaitStep

\* Type correctness of the whole model.
THEOREM TypeCorrect == Spec => []TypeOK
<1>1. Init => TypeOK
  <2> SUFFICES ASSUME Init PROVE TypeOK  OBVIOUS
  <2>1. pipe \in [Windows -> Seq(Snapshots \cup Replies)]  BY EmptySeq DEF Init
  <2> QED BY <2>1, SnapshotAssumption DEF Init, TypeOK, Steps, Codes
<1>2. TypeOK /\ [Next]_vars => TypeOK'
  <2>1. TypeOK /\ UNCHANGED vars => TypeOK'
        BY DEF TypeOK, vars, desktopVars, storeVars, readVars
  <2> QED BY <2>1, EnvironmentTypeOK, CallTypeOK DEF Next
<1> QED BY <1>1, <1>2, PTL DEF Spec

-----------------------------------------------------------------------------
(* Waiting and waking.                                                      *)

\* The threads between taking the snapshots lock and leaving it hold it.
LockInv ==
  \A c \in Calls : pc[c] \in {"follow", "check", "lastcheck", "parking"} => lock = c

\* A thread about to wait saw alive set and nothing to return; a thread that
\* waits will be notified by close(), and nothing to return has come since.
SleepInv ==
  \A c \in Calls :
    /\ pc[c] = "parking" => life \in {"open", "swapped"} /\ ~Satisfied(c)
    /\ pc[c] = "parked" => life # "notified" /\ ~Satisfied(c)

WakeInv == TypeOK /\ LockInv /\ SleepInv

\* The desktop, the reader and close() preserve the invariant.
LEMMA WakeInvEnvironment ==
  ASSUME WakeInv, DesktopStep \/ ReaderStep \/ SwapAlive \/ CloseStep
  PROVE  (LockInv /\ SleepInv)'
<1> USE DEF WakeInv, TypeOK, LockInv, SleepInv, Satisfied, Steps, storeVars
<1>1. CASE DesktopStep
  <2>1. UNCHANGED <<lock, life, snapshot, serial, pc, before>>
        BY <1>1 DEF DesktopStep, Move, Broadcast, Answer
  <2> HIDE DEF TypeOK
  <2> QED BY <2>1
<1>2. CASE \E w \in Windows : ReceiveReply(w)  BY <1>2 DEF ReceiveReply
<1>3. CASE \E w \in Windows : MatchOwner(w)  BY <1>3 DEF MatchOwner
<1>4. CASE StoreSnapshot  BY <1>4, SnapshotAssumption DEF StoreSnapshot, Entry, WakeAll
<1>5. CASE SwapAlive  BY <1>5 DEF SwapAlive
<1>6. CASE ClearSnapshots  BY <1>6, SnapshotAssumption DEF ClearSnapshots
<1>7. CASE NotifyClosed  BY <1>7 DEF NotifyClosed, WakeAll
<1> QED BY <1>1, <1>2, <1>3, <1>4, <1>5, <1>6, <1>7 DEF ReaderStep, CloseStep

\* So does every thread.
LEMMA WakeInvCall ==
  ASSUME WakeInv, NEW c \in Calls, CallStep(c) \/ ClockStep(c)
  PROVE  (LockInv /\ SleepInv)'
<1> USE SnapshotAssumption
    DEF WakeInv, TypeOK, LockInv, SleepInv, Satisfied, storeVars, Goto, Return
<1>1. CASE AskOwner(c)
  <2>1. \A d \in Calls : Satisfied(d)' <=> Satisfied(d)  BY <1>1 DEF AskOwner
  <2>2. pc[c] = "ask" /\ UNCHANGED <<lock, life>>  BY <1>1 DEF AskOwner
  <2>3. pc' = [pc EXCEPT ![c] = "asking"] \/ pc' = [pc EXCEPT ![c] = "done"]
        BY <1>1 DEF AskOwner, AsksOwner
  <2> HIDE DEF Satisfied, TypeOK
  <2>4. pc \in [Calls -> Steps]  BY DEF TypeOK
  <2> QED BY <2>1, <2>2, <2>3, <2>4
<1>2. CASE InsertOwner(c)
  <2>1. \A d \in Calls : Satisfied(d)' <=> Satisfied(d)  BY <1>2 DEF InsertOwner
  <2>2. pc[c] = "asking" /\ UNCHANGED <<lock, life>>  BY <1>2 DEF InsertOwner
  <2>3. pc' = [pc EXCEPT ![c] = "enter"] \/ pc' = [pc EXCEPT ![c] = "drop"]
        BY <1>2 DEF InsertOwner
  <2> HIDE DEF Satisfied, TypeOK
  <2>4. pc \in [Calls -> Steps]  BY DEF TypeOK
  <2> QED BY <2>1, <2>2, <2>3, <2>4
<1>3. CASE DropSnapshot(c)
  <2>1. ASSUME NEW d \in Calls
        PROVE  Satisfied(d)' => Satisfied(d)
        BY <1>3 DEF DropSnapshot
  <2>2. pc' = [pc EXCEPT ![c] = "enter"] /\ UNCHANGED <<lock, life>>  BY <1>3 DEF DropSnapshot
  <2> HIDE DEF Satisfied
  <2> QED BY <2>1, <2>2
<1>4. CASE ReturnSnapshot(c)
  <2>1. \A d \in Calls : Satisfied(d)' <=> Satisfied(d)  BY <1>4 DEF ReturnSnapshot
  <2>2. pc[c] \in {"check", "lastcheck"} /\ lock' = None /\ UNCHANGED life
        BY <1>4 DEF ReturnSnapshot
  <2>3. pc' = [pc EXCEPT ![c] = "verify"] \/ pc' = [pc EXCEPT ![c] = "done"]
        BY <1>4 DEF ReturnSnapshot
  <2> HIDE DEF Satisfied, TypeOK
  <2>4. pc \in [Calls -> Steps]  BY DEF TypeOK
  <2>5. LockInv'  BY <2>2, <2>3, <2>4
  <2>6. SleepInv'  BY <2>1, <2>2, <2>3, <2>4
  <2> QED BY <2>5, <2>6
<1>5. CASE NoticeDisconnect(c)  BY <1>5 DEF NoticeDisconnect
<1>6. CASE KeepWaiting(c)  BY <1>6 DEF KeepWaiting, Alive
<1>7. CASE Park(c)  BY <1>7 DEF Park
<1>8. CASE Relock(c)  BY <1>8 DEF Relock
<1>9. CASE EnterMetadata(c)  BY <1>9 DEF EnterMetadata
<1>10. CASE Follow(c)
  <2>1. \A d \in Calls : Satisfied(d)' <=> Satisfied(d)  BY <1>10 DEF Follow
  <2>2. pc[c] = "follow" /\ UNCHANGED life  BY <1>10 DEF Follow
  <2>4. pc \in [Calls -> Steps]  BY DEF TypeOK
  <2>3. \/ pc' = [pc EXCEPT ![c] = "check"] /\ UNCHANGED lock
        \/ pc' = [pc EXCEPT ![c] = "done"] /\ lock' = None
        BY <1>10, <2>4 DEF Follow, FollowSent
  <2> HIDE DEF Satisfied, TypeOK
  <2>5. LockInv'  BY <2>2, <2>3, <2>4
  <2>6. SleepInv'  BY <2>1, <2>2, <2>3, <2>4
  <2> QED BY <2>5, <2>6
<1>11. CASE EnterHistory(c)  BY <1>11 DEF EnterHistory, FollowSent
<1>18. CASE LoadHistory(c)  BY <1>18 DEF LoadHistory
<1>19. CASE RefuseSnapshot(c)
  <2>1. \A d \in Calls : Satisfied(d)' <=> Satisfied(d)  BY <1>19 DEF RefuseSnapshot
  <2>2. /\ pc[c] \in {"check", "lastcheck"} /\ lock' = None /\ UNCHANGED life
        /\ pc' = [pc EXCEPT ![c] = "done"]
        BY <1>19 DEF RefuseSnapshot
  <2> HIDE DEF Satisfied, TypeOK
  <2>3. pc \in [Calls -> Steps]  BY DEF TypeOK
  <2>4. LockInv'  BY <2>2, <2>3
  <2>5. SleepInv'  BY <2>1, <2>2, <2>3
  <2> QED BY <2>4, <2>5
<1>12. CASE HistoryLoaded(c)  BY <1>12 DEF HistoryLoaded
<1>13. CASE Verify(c)  BY <1>13 DEF Verify
<1>14. CASE SendMutation(c)  BY <1>14 DEF SendMutation, OwnerChanged
<1>15. CASE RequestFails(c)  BY <1>15 DEF RequestFails
<1>16. CASE GiveUp(c)  BY <1>16 DEF GiveUp
<1>17. CASE Expire(c)  BY <1>17 DEF Expire
<1> QED BY <1>1, <1>2, <1>3, <1>4, <1>5, <1>6, <1>7, <1>8, <1>9, <1>10, <1>11, <1>12, <1>13,
           <1>14, <1>15, <1>16, <1>17, <1>18, <1>19 DEF CallStep, ClockStep, OwnerStep, WaitStep

\* WakeInv holds in every reachable state.
LEMMA WakeInvariant == Spec => []WakeInv
<1>1. Init => LockInv /\ SleepInv  BY DEF Init, LockInv, SleepInv
<1>2. WakeInv /\ [Next]_vars => (LockInv /\ SleepInv)'
  <2>1. WakeInv /\ UNCHANGED vars => (LockInv /\ SleepInv)'
        BY DEF WakeInv, LockInv, SleepInv, Satisfied, vars, storeVars
  <2> QED BY <2>1, WakeInvEnvironment, WakeInvCall DEF Next
<1> QED BY <1>1, <1>2, TypeCorrect, PTL DEF Spec, WakeInv

\* The notification of close() is never lost.
THEOREM CloseWakesEveryone == Spec => []NoLostWakeup
<1>1. WakeInv => NoLostWakeup  BY DEF WakeInv, SleepInv, NoLostWakeup
<1> QED BY <1>1, WakeInvariant, PTL

\* The notification of a snapshot is never lost.
THEOREM SnapshotsWakeEveryone == Spec => []ParkedMeansNothingNew
<1>1. WakeInv => ParkedMeansNothingNew  BY DEF WakeInv, SleepInv, ParkedMeansNothingNew
<1> QED BY <1>1, WakeInvariant, PTL
-----------------------------------------------------------------------------
(* What a metadata read returns.                                            *)

\* The stored snapshot is the latest of the series; calls read before they
\* send, and what they noted for the read stays as it was when they read.
ReadInv ==
  /\ snapshot # None => snapshot.serial = serial
  /\ \A c \in Calls :
       /\ pc[c] \in {"follow", "load", "check", "lastcheck", "parking", "parked", "woken", "expired",
                     "history", "verify"} => stage[c] = "read"
       /\ pc[c] \in {"load", "history"} => c \in HistoryCalls
       /\ pc[c] = "follow" => c \notin HistoryCalls
       /\ pc[c] = "verify" => c \in ApprovalCalls
       /\ stage[c] # "read" => c \in ApprovalCalls \cup FollowerCalls
       /\ got[c] # None => pc[c] \in {"verify", "done"} \/ stage[c] # "read"
       /\ sentTo[c] # None => pc[c] = "done" /\ stage[c] # "read"

CallInv == TypeOK /\ ReadInv /\ FreshAfterFollow

\* The desktop, the reader and close() touch nothing of a call but its wakeup.
LEMMA CallInvEnvironment ==
  ASSUME CallInv, DesktopStep \/ ReaderStep \/ SwapAlive \/ CloseStep
  PROVE  (ReadInv /\ FreshAfterFollow)'
<1>1. UNCHANGED <<stage, before, got, label, sentTo>>
      BY DEF DesktopStep, ReaderStep, CloseStep, Move, Broadcast, Answer, ReceiveReply, MatchOwner,
         StoreSnapshot, Entry, SwapAlive, ClearSnapshots, NotifyClosed, readVars
<1>2. \A c \in Calls : pc'[c] = pc[c] \/ (pc[c] = "parked" /\ pc'[c] = "woken")
      BY DEF DesktopStep, ReaderStep, CloseStep, Move, Broadcast, Answer, ReceiveReply, MatchOwner,
         StoreSnapshot, Entry, SwapAlive, ClearSnapshots, NotifyClosed, WakeAll
<1>3. snapshot' # None => snapshot'.serial = serial'
  <2>1. CASE StoreSnapshot  BY <2>1 DEF StoreSnapshot, Entry
  <2>2. CASE UNCHANGED serial /\ (snapshot' = snapshot \/ snapshot' = None)
        BY <2>2 DEF CallInv, ReadInv
  <2> QED BY <2>1, <2>2 DEF DesktopStep, ReaderStep, CloseStep, Move, Broadcast, Answer, ReceiveReply,
        MatchOwner, SwapAlive, ClearSnapshots, NotifyClosed, storeVars
<1> QED BY <1>1, <1>2, <1>3 DEF CallInv, ReadInv, FreshAfterFollow

\* A thread reads what satisfies it, and sends once its read is over.
LEMMA CallInvCall ==
  ASSUME CallInv, NEW c \in Calls, CallStep(c) \/ ClockStep(c)
  PROVE  (ReadInv /\ FreshAfterFollow)'
<1> USE SnapshotAssumption
    DEF CallInv, TypeOK, ReadInv, FreshAfterFollow, storeVars, readVars, Goto, Return, Calls
<1>1. CASE AskOwner(c)
  <2>1. \/ UNCHANGED stage
        \/ stage[c] = "send" /\ stage' = [stage EXCEPT ![c] = "elsewhere"]
        BY <1>1 DEF AskOwner
  <2>2. pc[c] = "ask" /\ UNCHANGED <<snapshot, serial, before, got, label, sentTo>>
        BY <1>1 DEF AskOwner
  <2>3. pc' = [pc EXCEPT ![c] = "asking"] \/ pc' = [pc EXCEPT ![c] = "done"]
        BY <1>1 DEF AskOwner, AsksOwner
  <2>4. \A d \in Calls : stage'[d] = "read" <=> stage[d] = "read"  BY <2>1
  <2> QED BY <2>2, <2>3, <2>4
<1>2. CASE InsertOwner(c)
  <2>1. pc[c] = "asking" /\ UNCHANGED <<snapshot, serial, stage, before, got, label, sentTo>>
        BY <1>2 DEF InsertOwner
  <2>2. pc' = [pc EXCEPT ![c] = "enter"] \/ pc' = [pc EXCEPT ![c] = "drop"]
        BY <1>2 DEF InsertOwner
  <2> QED BY <2>1, <2>2
<1>3. CASE DropSnapshot(c)  BY <1>3 DEF DropSnapshot
<1>4. CASE ReturnSnapshot(c)
  <2>1. /\ pc[c] \in {"check", "lastcheck"} /\ snapshot # None
        /\ c \notin HistoryCalls => serial > before[c]
        /\ got' = [got EXCEPT ![c] = snapshot] /\ label' = [label EXCEPT ![c] = found[c]]
        /\ UNCHANGED <<snapshot, serial, stage, before, sentTo>>
        BY <1>4 DEF ReturnSnapshot, Satisfied
  <2>2. \/ c \in ApprovalCalls /\ pc' = [pc EXCEPT ![c] = "verify"]
        \/ pc' = [pc EXCEPT ![c] = "done"]
        BY <1>4 DEF ReturnSnapshot
  <2>3. ReadInv'  BY <2>1, <2>2
  <2>4. FreshAfterFollow'  BY <2>1
  <2> QED BY <2>3, <2>4
<1>5. CASE NoticeDisconnect(c)  BY <1>5 DEF NoticeDisconnect
<1>6. CASE KeepWaiting(c)  BY <1>6 DEF KeepWaiting
<1>7. CASE Park(c)  BY <1>7 DEF Park
<1>8. CASE Relock(c)  BY <1>8 DEF Relock
<1>9. CASE EnterMetadata(c)
  <2>1. got[c] = None /\ c \notin HistoryCalls  BY <1>9 DEF EnterMetadata
  <2>2. /\ before' = [before EXCEPT ![c] = serial] /\ pc' = [pc EXCEPT ![c] = "follow"]
        /\ UNCHANGED <<snapshot, serial, stage, got, label, sentTo>>
        /\ stage[c] = "read"
        BY <1>9 DEF EnterMetadata
  <2>3. \A d \in Calls : got'[d] # None => before'[d] = before[d]  BY <2>1, <2>2
  <2>4. sentTo[c] = None  BY <1>9 DEF EnterMetadata
  <2> QED BY <2>1, <2>2, <2>3, <2>4
<1>10. CASE Follow(c)
  <2>1. pc[c] = "follow" /\ UNCHANGED <<snapshot, serial, stage, before, got, label, sentTo>>
        BY <1>10 DEF Follow
  <2>2. pc' = [pc EXCEPT ![c] = "check"] \/ pc' = [pc EXCEPT ![c] = "done"]
        BY <1>10 DEF Follow, FollowSent
  <2> QED BY <2>1, <2>2
<1>11. CASE EnterHistory(c)
  <2>1. /\ pc[c] = "enter" /\ stage[c] = "read" /\ c \in HistoryCalls
        /\ UNCHANGED <<snapshot, serial, stage, before, got, label, sentTo>>
        BY <1>11 DEF EnterHistory
  <2>2. pc' = [pc EXCEPT ![c] = "load"] \/ pc' = [pc EXCEPT ![c] = "done"]
        BY <1>11 DEF EnterHistory, FollowSent
  <2> QED BY <2>1, <2>2
<1>12. CASE LoadHistory(c)
  <2>1. pc[c] = "load" /\ UNCHANGED <<snapshot, serial, stage, before, got, label, sentTo>>
        BY <1>12 DEF LoadHistory
  <2>2. pc' = [pc EXCEPT ![c] = "history"] \/ pc' = [pc EXCEPT ![c] = "done"]
        BY <1>12 DEF LoadHistory
  <2> QED BY <2>1, <2>2
<1>13. CASE HistoryLoaded(c)  BY <1>13 DEF HistoryLoaded
<1>14. CASE Verify(c)  BY <1>14 DEF Verify
<1>15. CASE SendMutation(c)
  <2>1. /\ pc' = [pc EXCEPT ![c] = "done"] /\ stage[c] # "read"
        /\ UNCHANGED <<snapshot, serial, stage, before, got, label>>
        /\ UNCHANGED sentTo \/ sentTo' = [sentTo EXCEPT ![c] = found[c]]
        BY <1>15 DEF SendMutation
  <2>2. \A d \in Calls : sentTo'[d] # None => pc'[d] = "done" /\ stage'[d] # "read"
    <3>1. CASE UNCHANGED sentTo  BY <2>1, <3>1
    <3>2. CASE sentTo' = [sentTo EXCEPT ![c] = found[c]]  BY <2>1, <3>2
    <3> QED BY <2>1, <3>1, <3>2
  <2> QED BY <2>1, <2>2
<1>16. CASE RefuseSnapshot(c)  BY <1>16 DEF RefuseSnapshot
<1>17. CASE RequestFails(c)  BY <1>17 DEF RequestFails
<1>18. CASE GiveUp(c)  BY <1>18 DEF GiveUp
<1>19. CASE Expire(c)  BY <1>19 DEF Expire
<1> QED BY <1>1, <1>2, <1>3, <1>4, <1>5, <1>6, <1>7, <1>8, <1>9, <1>10, <1>11, <1>12, <1>13,
           <1>14, <1>15, <1>16, <1>17, <1>18, <1>19 DEF CallStep, ClockStep, OwnerStep, WaitStep

\* CallInv holds in every reachable state.
LEMMA CallInvariant == Spec => []CallInv
<1>1. Init => ReadInv /\ FreshAfterFollow
      BY SnapshotAssumption DEF Init, ReadInv, FreshAfterFollow, Calls
<1>2. CallInv /\ [Next]_vars => (ReadInv /\ FreshAfterFollow)'
  <2>1. CallInv /\ UNCHANGED vars => (ReadInv /\ FreshAfterFollow)'
        BY DEF CallInv, ReadInv, FreshAfterFollow, vars, storeVars, readVars
  <2> QED BY <2>1, CallInvEnvironment, CallInvCall DEF Next
<1> QED BY <1>1, <1>2, TypeCorrect, PTL DEF Spec, CallInv

\* A metadata read returns what was accepted after it asked to follow.
THEOREM MetadataIsFresh == Spec => []FreshAfterFollow
<1>1. CallInv => FreshAfterFollow  BY DEF CallInv
<1> QED BY <1>1, CallInvariant, PTL

-----------------------------------------------------------------------------
(* What a history read returns.                                             *)

\* An answer to a history call is not older than the call, which has begun.
Current(m) ==
  m.kind \in Questions /\ m.call \in HistoryCalls
    => pc[m.call] # "ask" /\ m.revision >= since[m.call]

\* What is asked, and what is on its way.
AskedInv == \A q \in asked : q.call \in HistoryCalls => pc[q.call] # "ask"
PipesCurrent == \A w \in Windows : \A i \in 1..Len(pipe[w]) : Current(pipe[w][i])

\* What a history call hears or waits for.
HistoryCurrent ==
  \A c \in HistoryCalls :
    /\ since[c] <= revision
    /\ inbox[c] # None => pc[c] # "ask" /\ inbox[c].revision >= since[c]
    /\ pc[c] \in {"woken", "expired", "check", "lastcheck", "parking", "parked"} => before[c] >= since[c]

HistoryInv == AskedInv /\ PipesCurrent /\ HistoryCurrent /\ HistoryIsCurrent

\* Steps that put nothing into a pipe, and begin no history call.
LEMMA PipesStayCurrent ==
  ASSUME PipesCurrent, UNCHANGED pipe,
         \A d \in HistoryCalls : since'[d] = since[d] /\ (pc'[d] = "ask" => pc[d] = "ask")
  PROVE  PipesCurrent'
BY DEF PipesCurrent, Current

\* A message that is current and joins a pipe.
LEMMA AppendStaysCurrent ==
  ASSUME TypeOK, PipesCurrent, UNCHANGED <<pc, since>>, NEW w \in Windows, NEW m \in Messages, Current(m),
         pipe' = [pipe EXCEPT ![w] = Append(@, m)]
  PROVE  PipesCurrent'
<1>1. pipe \in [Windows -> Seq(Messages)]  BY DEF TypeOK, Messages
<1>2. \A v \in Windows : \A i \in 1..Len(pipe'[v]) :
        pipe'[v][i] = m \/ (i \in 1..Len(pipe[v]) /\ pipe'[v][i] = pipe[v][i])
  <2>1. ASSUME NEW v \in Windows, v # w  PROVE pipe'[v] = pipe[v]  BY <1>1, <2>1
  <2>2. pipe'[w] = Append(pipe[w], m) /\ pipe[w] \in Seq(Messages)  BY <1>1
  <2>3. \A i \in 1..Len(pipe'[w]) : pipe'[w][i] = m \/ (i \in 1..Len(pipe[w]) /\ pipe'[w][i] = pipe[w][i])
        BY <2>2, AppendProperties
  <2> QED BY <2>1, <2>3
<1> QED BY <1>2 DEF PipesCurrent, Current

\* A message taken from a pipe is current, and leaves the others.
LEMMA TakeStaysCurrent ==
  ASSUME TypeOK, PipesCurrent, UNCHANGED since, \A d \in Calls : pc'[d] = "ask" => pc[d] = "ask",
         NEW w \in Windows, pipe[w] # <<>>, Take(w)
  PROVE  PipesCurrent' /\ Current(Head(pipe[w]))
<1>1. pipe \in [Windows -> Seq(Messages)]  BY DEF TypeOK, Messages
<1>2. pipe[w] \in Seq(Messages) /\ pipe' = [pipe EXCEPT ![w] = Tail(pipe[w])]  BY <1>1 DEF Take
<1>3. Len(pipe[w]) \in Nat \ {0} /\ Head(pipe[w]) = pipe[w][1]  BY <1>2
<1>4. Current(Head(pipe[w]))  BY <1>3 DEF PipesCurrent
<1>5. \A v \in Windows : \A i \in 1..Len(pipe'[v]) :
        \E j \in 1..Len(pipe[v]) : pipe'[v][i] = pipe[v][j]
  <2>1. ASSUME NEW v \in Windows, v # w  PROVE pipe'[v] = pipe[v]  BY <1>2, <2>1, <1>1
  <2>2. pipe'[w] = Tail(pipe[w])  BY <1>1, <1>2
  <2>3. \A i \in 1..Len(pipe'[w]) : i + 1 \in 1..Len(pipe[w]) /\ pipe'[w][i] = pipe[w][i + 1]
        BY <2>2, <1>2, <1>3, HeadTailProperties
  <2> QED BY <2>1, <2>3
<1>6. \A m \in Messages : m.kind \in Questions => m.call \in Calls
      BY DEF Messages, Snapshots, Replies, Questions
<1>7. \A v \in Windows : \A j \in 1..Len(pipe[v]) : pipe[v][j] \in Messages  BY <1>1
<1>8. ASSUME NEW v \in Windows, NEW i \in 1..Len(pipe'[v])
      PROVE  LET m == pipe'[v][i] IN
               m.kind \in Questions /\ m.call \in HistoryCalls => pc'[m.call] # "ask" /\ m.revision >= since'[m.call]
  <2>1. PICK j \in 1..Len(pipe[v]) : pipe'[v][i] = pipe[v][j]  BY <1>5
  <2>2. Current(pipe[v][j]) /\ pipe[v][j] \in Messages  BY <1>7 DEF PipesCurrent
  <2> QED BY <1>6, <2>1, <2>2 DEF Current
<1>9. PipesCurrent'  BY <1>8 DEF PipesCurrent, Current
<1> QED BY <1>4, <1>9

\* The desktop answers from its present revision, which only grows.
LEMMA HistoryEnvironment ==
  ASSUME TypeOK, HistoryInv, DesktopStep \/ ReaderStep \/ SwapAlive \/ CloseStep
  PROVE  HistoryInv'
<1>1. UNCHANGED <<since, before, got>> /\ revision' \in Nat /\ revision' >= revision
  <2>1. UNCHANGED revision \/ revision' \in {revision, revision + 1}
        BY DEF DesktopStep, ReaderStep, CloseStep, Move, Broadcast, Answer, ReceiveReply, MatchOwner,
           StoreSnapshot, SwapAlive, ClearSnapshots, NotifyClosed, desktopVars
  <2>2. UNCHANGED <<since, before, got>>
        BY DEF DesktopStep, ReaderStep, CloseStep, Move, Broadcast, Answer, ReceiveReply, MatchOwner,
           StoreSnapshot, SwapAlive, ClearSnapshots, NotifyClosed, readVars
  <2> QED BY <2>1, <2>2 DEF TypeOK
<1>2. \A c \in Calls : pc'[c] = pc[c] \/ (pc[c] = "parked" /\ pc'[c] = "woken")
      BY DEF DesktopStep, ReaderStep, CloseStep, Move, Broadcast, Answer, ReceiveReply, MatchOwner,
         StoreSnapshot, SwapAlive, ClearSnapshots, NotifyClosed, WakeAll
<1>3. asked' \subseteq asked
      BY DEF DesktopStep, ReaderStep, CloseStep, Move, Broadcast, Answer, ReceiveReply, MatchOwner,
         StoreSnapshot, SwapAlive, ClearSnapshots, NotifyClosed
<1>4. \A c \in HistoryCalls : c \in Calls  BY DEF Calls
<1>5. AskedInv'  BY <1>2, <1>3, <1>4 DEF HistoryInv, AskedInv
<1>6. PipesCurrent'
  <2>1. ASSUME NEW n \in {revision, revision + 1}, Broadcast(n)  PROVE PipesCurrent'
    <3> DEFINE m == [kind |-> "snapshot", from |-> holder, revision |-> n]
    <3>1. m \in Messages  BY DEF TypeOK, Messages, Snapshots
    <3>2. Current(m)  BY DEF Current, Questions
    <3>3. pipe' = [pipe EXCEPT ![holder] = Append(@, m)] /\ holder \in Windows /\ UNCHANGED <<pc, since>>
          BY <2>1 DEF Broadcast, TypeOK
    <3> HIDE DEF m
    <3> QED BY <3>1, <3>2, <3>3, AppendStaysCurrent DEF HistoryInv
  <2>2. ASSUME NEW q \in asked, Answer(q)  PROVE PipesCurrent'
    <3> DEFINE m == [kind |-> q.kind, call |-> q.call, from |-> holder, revision |-> revision]
    <3>1. m \in Messages  BY DEF TypeOK, Messages, Replies
    <3>2. Current(m)  BY DEF Current, HistoryInv, AskedInv, HistoryCurrent
    <3>3. pipe' = [pipe EXCEPT ![holder] = Append(@, m)] /\ holder \in Windows /\ UNCHANGED <<pc, since>>
          BY <2>2 DEF Answer, TypeOK
    <3> HIDE DEF m
    <3> QED BY <3>1, <3>2, <3>3, AppendStaysCurrent DEF HistoryInv
  <2>3. ASSUME NEW w \in Windows, ReceiveReply(w) \/ MatchOwner(w)  PROVE PipesCurrent'
    <3>1. pipe[w] # <<>> /\ Take(w) /\ UNCHANGED <<pc, since>>  BY <2>3 DEF ReceiveReply, MatchOwner
    <3> QED BY <3>1, TakeStaysCurrent DEF HistoryInv
  <2>4. CASE UNCHANGED pipe  BY <1>1, <1>2, <1>4, <2>4, PipesStayCurrent DEF HistoryInv
  <2> QED BY <2>1, <2>2, <2>3, <2>4 DEF DesktopStep, ReaderStep, CloseStep, Move, StoreSnapshot, SwapAlive,
        ClearSnapshots, NotifyClosed
<1>7. \A c \in HistoryCalls : inbox'[c] # None => pc'[c] # "ask" /\ inbox'[c].revision >= since'[c]
  <2>1. ASSUME NEW w \in Windows, ReceiveReply(w)
        PROVE  \A c \in HistoryCalls : inbox'[c] # None => pc'[c] # "ask" /\ inbox'[c].revision >= since'[c]
    <3>1. pipe[w] # <<>> /\ Take(w) /\ UNCHANGED <<pc, since>>  BY <2>1 DEF ReceiveReply
    <3>2. Current(Head(pipe[w]))  BY <3>1, TakeStaysCurrent DEF HistoryInv
    <3>3. Head(pipe[w]).kind \in Questions
          /\ (UNCHANGED inbox \/ inbox' = [inbox EXCEPT ![Head(pipe[w]).call] = Head(pipe[w])])
          BY <2>1 DEF ReceiveReply
    <3>4. ASSUME NEW d \in HistoryCalls
          PROVE  inbox'[d] = inbox[d] \/ (inbox'[d] = Head(pipe[w]) /\ Head(pipe[w]).call = d)
          BY <1>4, <3>3 DEF TypeOK
    <3> QED BY <3>1, <3>2, <3>3, <3>4 DEF Current, HistoryInv, HistoryCurrent
  <2>2. CASE UNCHANGED inbox  BY <1>1, <1>2, <1>4, <2>2 DEF HistoryInv, HistoryCurrent
  <2> QED BY <2>1, <2>2 DEF DesktopStep, ReaderStep, CloseStep, Move, Broadcast, Answer, MatchOwner,
        StoreSnapshot, SwapAlive, ClearSnapshots, NotifyClosed
<1>8. \A c \in HistoryCalls : since'[c] <= revision'  BY <1>1, <1>4 DEF HistoryInv, HistoryCurrent, TypeOK
<1>9. HistoryCurrent'  BY <1>1, <1>2, <1>4, <1>7, <1>8 DEF HistoryInv, HistoryCurrent
<1>10. HistoryIsCurrent'  BY <1>1 DEF HistoryInv, HistoryIsCurrent
<1> QED BY <1>5, <1>6, <1>9, <1>10 DEF HistoryInv

\* A call that begins has no answer yet; one that waits, waits for an answer it got.
LEMMA HistoryCall ==
  ASSUME TypeOK, ReadInv, HistoryInv, NEW c \in Calls, CallStep(c) \/ ClockStep(c)
  PROVE  HistoryInv'
<1> USE DEF storeVars, readVars, desktopVars, Goto, Return
<1>1. pc \in [Calls -> Steps] /\ since \in [Calls -> Nat] /\ revision \in Nat /\ before \in [Calls -> Nat]
      /\ inbox \in [Calls -> Replies \cup {None}] /\ got \in [Calls -> Stored \cup {None}]
      BY DEF TypeOK
<1>2. \A d \in HistoryCalls : d \in Calls /\ d \notin ApprovalCalls
      BY SnapshotAssumption DEF Calls
<1>3. CASE AskOwner(c)
  <2>1. /\ pc[c] = "ask" /\ UNCHANGED <<pipe, revision, inbox, before, got>>
        /\ pc' = [pc EXCEPT ![c] = "asking"] \/ pc' = [pc EXCEPT ![c] = "done"]
        /\ asked' = asked \/ asked' = asked \cup {[kind |-> "owner", call |-> c, to |-> None]}
        /\ since' = IF c \in HistoryCalls THEN [since EXCEPT ![c] = revision] ELSE since
        BY <1>3 DEF AskOwner, AsksOwner
  <2>2. \A d \in Calls : (pc'[d] = "ask" => pc[d] = "ask") /\ pc'[c] # "ask"  BY <1>1, <2>1
  <2>3. \A d \in Calls : d # c => since'[d] = since[d] /\ pc'[d] = pc[d]  BY <1>1, <2>1
  <2>4. AskedInv'
    <3>1. \A q \in asked' : q \in asked \/ q.call = c  BY <2>1
    <3> QED BY <1>2, <2>2, <3>1 DEF HistoryInv, AskedInv
  <2>5. PipesCurrent'
    <3>1. \A m : Current(m) /\ m.kind \in Questions /\ m.call \in HistoryCalls => m.call # c
          BY <2>1 DEF Current
    <3> QED BY <1>2, <2>1, <2>2, <2>3, <3>1 DEF HistoryInv, PipesCurrent, Current
  <2>6. HistoryCurrent'
    <3>1. ASSUME NEW d \in HistoryCalls, d # c
          PROVE  /\ since'[d] <= revision'
                 /\ inbox'[d] # None => pc'[d] # "ask" /\ inbox'[d].revision >= since'[d]
                 /\ pc'[d] \in {"woken", "expired", "check", "lastcheck", "parking", "parked"}
                      => before'[d] >= since'[d]
          BY <1>2, <2>1, <2>3, <3>1 DEF HistoryInv, HistoryCurrent
    <3>2. CASE c \in HistoryCalls
      <4>1. inbox[c] = None  BY <2>1, <3>2 DEF HistoryInv, HistoryCurrent
      <4>2. since'[c] <= revision' /\ inbox'[c] = None /\ pc'[c] \in {"asking", "done"}
            BY <1>1, <2>1, <3>2, <4>1
      <4> QED BY <3>1, <4>2 DEF HistoryCurrent
    <3>3. CASE c \notin HistoryCalls  BY <3>1, <3>3 DEF HistoryCurrent
    <3> QED BY <3>2, <3>3
  <2>7. HistoryIsCurrent'
    <3>1. c \in HistoryCalls => got[c] = None  BY <1>2, <2>1, SnapshotAssumption DEF ReadInv, Calls
    <3> QED BY <1>2, <2>1, <2>3, <3>1 DEF HistoryInv, HistoryIsCurrent
  <2> QED BY <2>4, <2>5, <2>6, <2>7 DEF HistoryInv
<1>4. CASE LoadHistory(c)
  <2>1. /\ pc[c] = "load" /\ UNCHANGED <<pipe, revision, inbox, before, got, since>>
        /\ pc' = [pc EXCEPT ![c] = "history"] \/ pc' = [pc EXCEPT ![c] = "done"]
        /\ asked' = asked \/ asked' = asked \cup {[kind |-> "history", call |-> c, to |-> found[c]]}
        BY <1>4 DEF LoadHistory
  <2>2. \A d \in Calls : pc'[d] = pc[d] \/ (d = c /\ pc'[d] \in {"history", "done"})  BY <1>1, <2>1
  <2>3. \A q \in asked' : q \in asked \/ q.call = c  BY <2>1
  <2>4. AskedInv'  BY <1>2, <2>1, <2>2, <2>3 DEF HistoryInv, AskedInv
  <2>5. PipesCurrent'  BY <1>2, <2>1, <2>2, PipesStayCurrent DEF HistoryInv
  <2>6. (HistoryCurrent /\ HistoryIsCurrent)'
        BY <1>2, <2>1, <2>2 DEF HistoryInv, HistoryCurrent, HistoryIsCurrent
  <2> QED BY <2>4, <2>5, <2>6 DEF HistoryInv
<1>5. CASE HistoryLoaded(c)
  <2>1. /\ pc[c] = "history" /\ inbox[c] # None /\ UNCHANGED <<pipe, revision, asked, got, since>>
        /\ before' = [before EXCEPT ![c] = inbox[c].revision]
        /\ inbox' = [inbox EXCEPT ![c] = None] /\ pc' = [pc EXCEPT ![c] = "woken"]
        BY <1>5 DEF HistoryLoaded
  <2>2. \A d \in Calls : pc'[d] = "ask" => pc[d] = "ask"  BY <1>1, <2>1
  <2>3. AskedInv' /\ HistoryIsCurrent'
        BY <1>2, <2>1, <2>2 DEF HistoryInv, AskedInv, HistoryIsCurrent
  <2>4. PipesCurrent'  BY <1>2, <2>1, <2>2, PipesStayCurrent DEF HistoryInv
  <2>5. HistoryCurrent'  BY <1>1, <1>2, <2>1 DEF HistoryInv, HistoryCurrent
  <2> QED BY <2>3, <2>4, <2>5 DEF HistoryInv
<1>6. CASE ReturnSnapshot(c)
  <2>1. /\ pc[c] \in {"check", "lastcheck"} /\ UNCHANGED <<pipe, revision, asked, inbox, before, since>>
        /\ got' = [got EXCEPT ![c] = snapshot]
        /\ c \in HistoryCalls => snapshot # None /\ snapshot.revision >= before[c]
        BY <1>6 DEF ReturnSnapshot, Satisfied
  <2>2. pc' = [pc EXCEPT ![c] = "verify"] \/ pc' = [pc EXCEPT ![c] = "done"]  BY <1>6 DEF ReturnSnapshot
  <2>3. \A d \in Calls : pc'[d] = pc[d] \/ (d = c /\ pc'[d] \in {"verify", "done"})  BY <1>1, <2>2
  <2>4. (AskedInv /\ HistoryCurrent)'
        BY <1>2, <2>1, <2>3 DEF HistoryInv, AskedInv, HistoryCurrent
  <2>5. PipesCurrent'  BY <1>2, <2>1, <2>3, PipesStayCurrent DEF HistoryInv
  <2>6. HistoryIsCurrent'
    <3>1. c \in HistoryCalls => snapshot.revision >= since[c]
      <4>1. c \in HistoryCalls => before[c] >= since[c] /\ snapshot.revision >= before[c] /\ snapshot # None
            BY <2>1 DEF HistoryInv, HistoryCurrent
      <4>2. snapshot # None => snapshot.revision \in Nat  BY DEF TypeOK, Stored
      <4> QED BY <1>1, <4>1, <4>2
    <3> QED BY <1>1, <1>2, <2>1, <3>1 DEF HistoryInv, HistoryIsCurrent
  <2> QED BY <2>4, <2>5, <2>6 DEF HistoryInv
<1>7. CASE Verify(c)
  <2>1. /\ c \in ApprovalCalls /\ UNCHANGED <<pipe, revision, asked, inbox, before, since, got>>
        BY <1>7 DEF Verify, ReadInv
  <2>2. pc' = [pc EXCEPT ![c] = "ask"] \/ pc' = [pc EXCEPT ![c] = "done"]  BY <1>7 DEF Verify
  <2>3. \A d \in HistoryCalls : pc'[d] = pc[d]  BY <1>1, <1>2, <2>1, <2>2
  <2>4. PipesCurrent'  BY <2>1, <2>3, PipesStayCurrent DEF HistoryInv
  <2> QED BY <2>1, <2>3, <2>4 DEF HistoryInv, AskedInv, HistoryCurrent, HistoryIsCurrent
<1>8. CASE InsertOwner(c)
  <2>1. /\ UNCHANGED <<pipe, revision, asked, before, got>> /\ pc[c] = "asking"
        /\ inbox' = [inbox EXCEPT ![c] = None]
        BY <1>8 DEF InsertOwner
  <2>2. pc' = [pc EXCEPT ![c] = "enter"] \/ pc' = [pc EXCEPT ![c] = "drop"]  BY <1>8 DEF InsertOwner
  <2>3. \A d \in HistoryCalls : since'[d] = since[d]  BY <1>1, <1>2, <1>8 DEF InsertOwner
  <2>4. \A d \in Calls : pc'[d] = pc[d] \/ (d = c /\ pc'[d] \in {"enter", "drop"})  BY <1>1, <2>2
  <2>5. PipesCurrent'  BY <1>2, <2>1, <2>3, <2>4, PipesStayCurrent DEF HistoryInv
  <2>6. \A d \in Calls : inbox'[d] = None \/ inbox'[d] = inbox[d]  BY <1>1, <2>1
  <2>7. (AskedInv /\ HistoryCurrent /\ HistoryIsCurrent)'
        BY <1>2, <2>1, <2>3, <2>4, <2>6 DEF HistoryInv, AskedInv, HistoryCurrent, HistoryIsCurrent
  <2> QED BY <2>5, <2>7 DEF HistoryInv
<1>9. CASE Park(c) \/ Relock(c) \/ KeepWaiting(c) \/ Expire(c)
  <2>1. UNCHANGED <<pipe, revision, asked, inbox, before, since, got>>
        BY <1>9 DEF Park, Relock, KeepWaiting, Expire
  <2>2. pc[c] \in {"woken", "expired", "check", "parking", "parked"}
        /\ \E p \in {"expired", "check", "lastcheck", "parking", "parked"} : pc' = [pc EXCEPT ![c] = p]
        BY <1>9 DEF Park, Relock, KeepWaiting, Expire
  <2>3. \A d \in Calls : pc'[d] = pc[d]
          \/ {pc[d], pc'[d]} \subseteq {"woken", "expired", "check", "lastcheck", "parking", "parked"}
        BY <1>1, <2>2
  <2>4. PipesCurrent'  BY <1>2, <2>1, <2>3, PipesStayCurrent DEF HistoryInv
  <2> QED BY <1>2, <2>1, <2>3, <2>4 DEF HistoryInv, AskedInv, HistoryCurrent, HistoryIsCurrent
<1>10. CASE \/ DropSnapshot(c) \/ NoticeDisconnect(c) \/ EnterMetadata(c) \/ Follow(c) \/ EnterHistory(c)
            \/ RefuseSnapshot(c) \/ SendMutation(c) \/ RequestFails(c) \/ GiveUp(c)
  <2>1. UNCHANGED <<pipe, revision, inbox, since, got>> /\ asked' \subseteq asked
        BY <1>10 DEF DropSnapshot, NoticeDisconnect, EnterMetadata, Follow, EnterHistory, RefuseSnapshot,
           SendMutation, RequestFails, GiveUp
  <2>2. \E p \in {"enter", "follow", "load", "done", "check"} :
          pc' = [pc EXCEPT ![c] = p] /\ (c \in HistoryCalls => p # "check")
        BY <1>10 DEF ReadInv, DropSnapshot, NoticeDisconnect, EnterMetadata, Follow,
           FollowSent, EnterHistory, RefuseSnapshot, SendMutation, RequestFails, GiveUp
  <2>3. \A d \in HistoryCalls : before'[d] = before[d]
        BY <1>1, <1>2, <1>10 DEF DropSnapshot, NoticeDisconnect, EnterMetadata, Follow, EnterHistory,
           RefuseSnapshot, SendMutation, RequestFails, GiveUp
  <2>4. \A d \in HistoryCalls : pc'[d] = pc[d] \/ pc'[d] \in {"enter", "follow", "load", "done"}
        BY <1>1, <1>2, <2>2
  <2>5. PipesCurrent'  BY <1>2, <2>1, <2>4, PipesStayCurrent DEF HistoryInv
  <2> QED BY <1>2, <2>1, <2>3, <2>4, <2>5 DEF HistoryInv, AskedInv, HistoryCurrent, HistoryIsCurrent
<1> QED BY <1>3, <1>4, <1>5, <1>6, <1>7, <1>8, <1>9, <1>10 DEF CallStep, ClockStep, OwnerStep, WaitStep

\* A history read returns nothing older than its own beginning.
THEOREM HistoryReadsAreCurrent == Spec => []HistoryIsCurrent
<1>1. Init => HistoryInv
  <2> SUFFICES ASSUME Init PROVE HistoryInv  OBVIOUS
  <2>1. \A w \in Windows : pipe[w] = <<>>  BY DEF Init
  <2>2. PipesCurrent  BY <2>1 DEF PipesCurrent
  <2> QED BY <2>2, SnapshotAssumption
      DEF Init, HistoryInv, AskedInv, HistoryCurrent, HistoryIsCurrent, Calls
<1>2. CallInv /\ HistoryInv /\ [Next]_vars => HistoryInv'
  <2>1. HistoryInv /\ UNCHANGED vars => HistoryInv'
        BY DEF HistoryInv, AskedInv, PipesCurrent, Current, HistoryCurrent, HistoryIsCurrent, vars,
           desktopVars, readVars
  <2> QED BY <2>1, HistoryEnvironment, HistoryCall DEF Next, CallInv
<1>3. HistoryInv => HistoryIsCurrent  BY DEF HistoryInv
<1> QED BY <1>1, <1>2, <1>3, CallInvariant, PTL DEF Spec

-----------------------------------------------------------------------------
(* Whose snapshot a read returns, and where an approval goes.               *)

\* The steps of a read after its owner() until it has its snapshot.
Discovered == {"drop", "enter", "follow", "check", "lastcheck", "parking", "parked", "woken", "expired"}

\* Matched in the present term means matched with the present owner.
MatchedInv(r) == r # None => r.term <= term /\ (r.term = term => r.from = owners)

\* Matched in the term of the read's discovery means matched with whom it found.
FoundInv(c, r) == r # None => (r.term = since[c] => r.from = found[c])

OwnerInv ==
  /\ MatchedInv(accepting) /\ MatchedInv(snapshot)
  /\ \A c \in Calls \ HistoryCalls :
       stage[c] = "read" /\ pc[c] \in Discovered =>
         /\ since[c] <= term /\ (since[c] = term => found[c] = owners)
         /\ FoundInv(c, accepting) /\ FoundInv(c, snapshot)

\* The reader matches with the owner of the term; nobody else of the environment
\* brings a snapshot.
LEMMA OwnerEnvironment ==
  ASSUME TypeOK, OwnerInv, NamedOwnerSentIt, DesktopStep \/ ReaderStep \/ SwapAlive \/ CloseStep
  PROVE  (OwnerInv /\ NamedOwnerSentIt)'
<1>1. UNCHANGED <<owners, term, since, found, stage, got, label, sentTo>>
      BY DEF DesktopStep, ReaderStep, CloseStep, Move, Broadcast, Answer, ReceiveReply, MatchOwner,
         StoreSnapshot, SwapAlive, ClearSnapshots, NotifyClosed, storeVars, readVars
<1>2. \A c \in Calls : pc'[c] = pc[c] \/ (pc[c] = "parked" /\ pc'[c] = "woken")
      BY DEF DesktopStep, ReaderStep, CloseStep, Move, Broadcast, Answer, ReceiveReply, MatchOwner,
         StoreSnapshot, SwapAlive, ClearSnapshots, NotifyClosed, WakeAll
<1>3. \A c \in Calls : pc'[c] \in Discovered => pc[c] \in Discovered  BY <1>2 DEF Discovered
<1>4. NamedOwnerSentIt'  BY <1>1 DEF NamedOwnerSentIt
<1>5. ASSUME NEW w \in Windows, MatchOwner(w)  PROVE OwnerInv'
  <2>1. UNCHANGED snapshot
        /\ (accepting' # None => accepting'.term = term /\ accepting'.from = owners)
        BY <1>5 DEF MatchOwner, OfOwner
  <2> QED BY <1>1, <1>3, <2>1 DEF OwnerInv, MatchedInv, FoundInv, TypeOK
<1>6. CASE StoreSnapshot
  <2>1. accepting' = None /\ snapshot'.term = accepting.term /\ snapshot'.from = accepting.from
        /\ accepting # None
        BY <1>6 DEF StoreSnapshot, Entry
  <2> QED BY <1>1, <1>3, <1>4, <2>1 DEF OwnerInv, MatchedInv, FoundInv
<1>7. CASE UNCHANGED accepting /\ snapshot' \in {snapshot, None}
      BY <1>1, <1>3, <1>4, <1>7 DEF OwnerInv, MatchedInv, FoundInv
<1> QED BY <1>4, <1>5, <1>6, <1>7 DEF DesktopStep, ReaderStep, CloseStep, Move, Broadcast, Answer,
      ReceiveReply, SwapAlive, ClearSnapshots, NotifyClosed, storeVars

\* A discovery begins a term or joins it; an approval keeps to its label.
LEMMA OwnerCall ==
  ASSUME TypeOK, ReadInv, OwnerInv, NamedOwnerSentIt, NEW c \in Calls, CallStep(c) \/ ClockStep(c)
  PROVE  (OwnerInv /\ NamedOwnerSentIt)'
<1> USE DEF storeVars, readVars, Goto, Return
<1>1. /\ pc \in [Calls -> Steps] /\ since \in [Calls -> Nat] /\ found \in [Calls -> Windows \cup {None}]
      /\ stage \in [Calls -> {"read", "send", "elsewhere"}] /\ got \in [Calls -> Stored \cup {None}]
      /\ label \in [Calls -> Windows \cup {None}] /\ sentTo \in [Calls -> Windows \cup {None}]
      /\ term \in Nat
      BY DEF TypeOK
<1>2. \A d \in MetadataCalls \cup ApprovalCalls : d \in Calls \ HistoryCalls /\ d \notin FollowerCalls
      BY SnapshotAssumption DEF Calls
<1>3. CASE InsertOwner(c)
  <2>1. /\ UNCHANGED <<accepting, snapshot, stage, got, label, sentTo>> /\ pc[c] = "asking"
        /\ found' = [found EXCEPT ![c] = inbox[c].from]
        /\ since' = IF stage[c] = "read" /\ c \notin HistoryCalls THEN [since EXCEPT ![c] = term'] ELSE since
        BY <1>3 DEF InsertOwner
  <2>2. \/ UNCHANGED <<owners, term>>
        \/ owners # inbox[c].from /\ owners' = inbox[c].from /\ term' = term + 1
        BY <1>3 DEF InsertOwner
  <2>3. stage[c] = "read" => owners' = inbox[c].from  BY <1>3 DEF InsertOwner
  <2>4. \E p \in {"enter", "drop"} : pc' = [pc EXCEPT ![c] = p]  BY <1>3 DEF InsertOwner
  <2>5. \A r \in {accepting, snapshot} :
          r # None => r.term \in Nat /\ r.term <= term' /\ (r.term = term' => r.from = owners')
    <3>1. \A r \in {accepting, snapshot} : r # None => r.term \in Nat  BY DEF TypeOK, Accepted, Stored
    <3> QED BY <1>1, <2>2, <3>1 DEF OwnerInv, MatchedInv
  <2>6. (MatchedInv(accepting) /\ MatchedInv(snapshot))'  BY <2>1, <2>5 DEF MatchedInv
  <2>7. ASSUME NEW d \in Calls \ HistoryCalls, stage'[d] = "read", pc'[d] \in Discovered
        PROVE  /\ since'[d] <= term' /\ (since'[d] = term' => found'[d] = owners')
               /\ FoundInv(d, accepting)' /\ FoundInv(d, snapshot)'
    <3>1. CASE d = c
      <4>1. since'[d] = term' /\ found'[d] = inbox[c].from /\ owners' = inbox[c].from /\ term' \in Nat
            BY <1>1, <2>1, <2>2, <2>3, <2>7, <3>1
      <4> QED BY <2>1, <2>5, <4>1 DEF FoundInv
    <3>2. CASE d # c
      <4>1. since'[d] = since[d] /\ found'[d] = found[d] /\ pc'[d] = pc[d]  BY <1>1, <2>1, <2>4, <3>2
      <4>2. since[d] <= term /\ (since[d] = term => found[d] = owners)
            /\ FoundInv(d, accepting) /\ FoundInv(d, snapshot)
            BY <2>1, <2>7, <4>1 DEF OwnerInv
      <4> QED BY <1>1, <2>1, <2>2, <4>1, <4>2 DEF FoundInv
    <3> QED BY <3>1, <3>2
  <2>8. NamedOwnerSentIt'
    <3>1. ASSUME NEW d \in MetadataCalls \cup ApprovalCalls, got[d] # None  PROVE since'[d] = since[d]
      <4>1. d = c => stage[c] # "read"  BY <1>2, <2>1, <3>1 DEF ReadInv
      <4> QED BY <1>1, <1>2, <2>1, <4>1
    <3> QED BY <2>1, <3>1 DEF NamedOwnerSentIt
  <2> QED BY <2>6, <2>7, <2>8 DEF OwnerInv
<1>4. CASE ReturnSnapshot(c)
  <2>1. /\ pc[c] \in {"check", "lastcheck"} /\ snapshot # None
        /\ got' = [got EXCEPT ![c] = snapshot] /\ label' = [label EXCEPT ![c] = found[c]]
        /\ UNCHANGED <<owners, term, accepting, snapshot, since, found, stage, sentTo>>
        BY <1>4 DEF ReturnSnapshot, Satisfied
  <2>2. pc' = [pc EXCEPT ![c] = "verify"] \/ pc' = [pc EXCEPT ![c] = "done"]  BY <1>4 DEF ReturnSnapshot
  <2>3. stage[c] = "read" /\ sentTo[c] = None  BY <2>1 DEF ReadInv
  <2>4. \A d \in Calls : pc'[d] \in Discovered => pc[d] \in Discovered  BY <1>1, <2>2 DEF Discovered
  <2>5. OwnerInv'  BY <2>1, <2>4 DEF OwnerInv, MatchedInv, FoundInv
  <2>6. c \in MetadataCalls \cup ApprovalCalls => (snapshot.term = since[c] => snapshot.from = found[c])
        BY <1>2, <2>1, <2>3 DEF OwnerInv, FoundInv, Discovered
  <2>7. NamedOwnerSentIt'  BY <1>1, <1>2, <2>1, <2>3, <2>6 DEF NamedOwnerSentIt
  <2> QED BY <2>5, <2>7
<1>5. CASE SendMutation(c)
  <2>1. /\ UNCHANGED <<owners, term, accepting, snapshot, since, found, stage, got, label>>
        /\ pc' = [pc EXCEPT ![c] = "done"] /\ stage[c] # "read"
        /\ \/ UNCHANGED sentTo
           \/ sentTo' = [sentTo EXCEPT ![c] = found[c]] /\ (c \in ApprovalCalls => found[c] = label[c])
        BY <1>5 DEF SendMutation, OwnerChanged
  <2>2. \A d \in Calls : pc'[d] \in Discovered => pc[d] \in Discovered  BY <1>1, <2>1 DEF Discovered
  <2>3. OwnerInv'  BY <2>1, <2>2 DEF OwnerInv, MatchedInv, FoundInv
  <2>4. c \in MetadataCalls \cup ApprovalCalls => c \in ApprovalCalls  BY <1>2, <2>1 DEF ReadInv
  <2>5. \A d \in MetadataCalls \cup ApprovalCalls : sentTo'[d] \in {sentTo[d], label[d]}
        BY <1>1, <1>2, <2>1, <2>4
  <2>6. NamedOwnerSentIt'  BY <2>1, <2>5 DEF NamedOwnerSentIt
  <2> QED BY <2>3, <2>6
<1>6. CASE AskOwner(c)
  <2>1. /\ UNCHANGED <<owners, term, accepting, snapshot, found, got, label, sentTo>>
        /\ pc' = [pc EXCEPT ![c] = "asking"] \/ pc' = [pc EXCEPT ![c] = "done"]
        BY <1>6 DEF AskOwner, AsksOwner
  <2>2. \A d \in Calls \ HistoryCalls : since'[d] = since[d]  BY <1>1, <1>6 DEF AskOwner
  <2>3. \A d \in Calls : pc'[d] \in Discovered => d # c /\ pc[d] \in Discovered  BY <1>1, <2>1 DEF Discovered
  <2>4. \A d \in Calls : d # c => stage'[d] = stage[d]  BY <1>1, <1>6 DEF AskOwner
  <2>5. OwnerInv'  BY <2>1, <2>2, <2>3, <2>4 DEF OwnerInv, MatchedInv, FoundInv
  <2>6. NamedOwnerSentIt'  BY <1>2, <2>1, <2>2 DEF NamedOwnerSentIt
  <2> QED BY <2>5, <2>6
<1>7. CASE Verify(c)
  <2>1. UNCHANGED <<owners, term, accepting, snapshot, since, found, got, label, sentTo>>
        BY <1>7 DEF Verify
  <2>2. pc' = [pc EXCEPT ![c] = "ask"] \/ pc' = [pc EXCEPT ![c] = "done"]  BY <1>7 DEF Verify
  <2>3. \A d \in Calls : pc'[d] \in Discovered => d # c /\ pc[d] \in Discovered  BY <1>1, <2>2 DEF Discovered
  <2>4. \A d \in Calls : d # c => stage'[d] = stage[d]  BY <1>1, <1>7 DEF Verify
  <2>5. OwnerInv'  BY <2>1, <2>3, <2>4 DEF OwnerInv, MatchedInv, FoundInv
  <2>6. NamedOwnerSentIt'  BY <2>1 DEF NamedOwnerSentIt
  <2> QED BY <2>5, <2>6
<1>8. CASE \/ DropSnapshot(c) \/ NoticeDisconnect(c) \/ KeepWaiting(c) \/ Park(c) \/ Relock(c)
           \/ EnterMetadata(c) \/ Follow(c) \/ RefuseSnapshot(c) \/ RequestFails(c) \/ GiveUp(c) \/ Expire(c)
  <2>1. /\ UNCHANGED <<owners, term, accepting, since, found, stage, got, label, sentTo>>
        /\ snapshot' \in {snapshot, None}
        BY <1>8 DEF DropSnapshot, NoticeDisconnect, KeepWaiting, Park, Relock, EnterMetadata, Follow,
           RefuseSnapshot, RequestFails, GiveUp, Expire
  <2>2. \E p \in Discovered \cup {"done"} :
          pc' = [pc EXCEPT ![c] = p] /\ (p \in Discovered => pc[c] \in Discovered)
        BY <1>8 DEF DropSnapshot, NoticeDisconnect, KeepWaiting, Park, Relock, EnterMetadata, Follow,
           FollowSent, RefuseSnapshot, RequestFails, GiveUp, Expire, Discovered
  <2>3. \A d \in Calls : pc'[d] \in Discovered => pc[d] \in Discovered  BY <1>1, <2>2
  <2>4. OwnerInv'  BY <2>1, <2>3 DEF OwnerInv, MatchedInv, FoundInv
  <2>5. NamedOwnerSentIt'  BY <2>1 DEF NamedOwnerSentIt
  <2> QED BY <2>4, <2>5
<1>9. CASE EnterHistory(c) \/ LoadHistory(c) \/ HistoryLoaded(c)
  <2>1. UNCHANGED <<owners, term, accepting, snapshot, since, found, stage, got, label, sentTo>>
        BY <1>9 DEF EnterHistory, LoadHistory, HistoryLoaded
  <2>2. c \in HistoryCalls  BY <1>9 DEF EnterHistory, LoadHistory, HistoryLoaded, ReadInv
  <2>3. \A d \in Calls \ HistoryCalls : pc'[d] = pc[d]
        BY <1>1, <1>9, <2>2 DEF EnterHistory, FollowSent, LoadHistory, HistoryLoaded
  <2>4. OwnerInv'  BY <2>1, <2>3 DEF OwnerInv, MatchedInv, FoundInv
  <2>5. NamedOwnerSentIt'  BY <2>1 DEF NamedOwnerSentIt
  <2> QED BY <2>4, <2>5
<1> QED BY <1>3, <1>4, <1>5, <1>6, <1>7, <1>8, <1>9 DEF CallStep, ClockStep, OwnerStep, WaitStep

\* The owner a read names sent what the read returns, and an approval goes to it,
\* unless the owner changed between the discovery and the match.
THEOREM NamedOwnersSentTheSnapshot == Spec => []NamedOwnerSentIt
<1>1. Init => OwnerInv /\ NamedOwnerSentIt
      BY SnapshotAssumption DEF Init, OwnerInv, MatchedInv, FoundInv, Discovered, NamedOwnerSentIt, Calls
<1>2. CallInv /\ OwnerInv /\ NamedOwnerSentIt /\ [Next]_vars => (OwnerInv /\ NamedOwnerSentIt)'
  <2>1. OwnerInv /\ NamedOwnerSentIt /\ UNCHANGED vars => (OwnerInv /\ NamedOwnerSentIt)'
        BY DEF OwnerInv, MatchedInv, FoundInv, NamedOwnerSentIt, vars, storeVars, readVars
  <2> QED BY <2>1, OwnerEnvironment, OwnerCall DEF Next, CallInv
<1> QED BY <1>1, <1>2, CallInvariant, PTL DEF Spec
=============================================================================
