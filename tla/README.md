# Verification of the Codex desktop connector

This directory holds TLA+ models of the connector in `src/`, the TLC
configurations that check them on small instances, and proofs checked by TLAPS.
The connector is a local HTTP server: it forwards business calls to the Codex
desktop over one IPC connection, reads the desktop's databases, and prepares
project directories. Paths below are relative to the repository (`src/`).

## The system

| Component | State | Operations |
|---|---|---|
| IPC session (`src/desktop_ipc.rs`: `DesktopClient`, `Session`) | the stored session, `alive`, `pending` reply channels, the outgoing channel (64), the abort handles of two tasks | `connect`, `send`, `owner`, `rpc`, `receive`, `close`; the reader and the writer task |
| Snapshots and owners (same file) | `owners`, `snapshots`, `snapshot_serial`, the condition variable `changed` | `owner`, `read_metadata`, `read`, `receive` of a snapshot, `close`; `respondToRequest` above them (`src/desktop_invoke.rs`) |
| Events (same file, `src/desktop_events.rs`) | the ring of recent events, the publisher's queue (8) | `receive`, `recent_events`, `publish`, the publisher thread |
| History paging (`src/desktop_history.rs`) | none; the cursor carries it | `list_turns`, `list_items`, `read_item` |
| Catalog (`src/desktop_catalog.rs`) | none | `list`, `projects`, `history_source` |
| Dispatch (`src/desktop_invoke.rs`) | none | validation, one branch per method |
| HTTP server (`src/main.rs`) | the management token, `management_operation` | one thread per connection |
| Process runtime, command line (`src/process_runtime.rs`, `src/cli.rs`) | pid file, token file, the bound port | `start`, `daemonize`, `stop`, `status` |
| Projects (`src/project_checkout.rs`, `src/project_preparation.rs`, `src/baijimu_cli.rs`) | directories, git configuration | `prepare`, `inspect_existing`, `create_directory` |
| Publication (`tools/release/publish-market.py`) | frozen version, publication receipt (at the source owner) | `publish`, `verify_frozen`, `verify_market` |
| Signing, workflow, launcher, manifest | release artifacts | shell, YAML, a launcher |

How they interact. Every HTTP connection gets a thread; threads share one
`DesktopClient`. A thread inside a call blocks on a reply channel
(`recv_timeout`) or on the condition variable `changed` (`wait_timeout`). Two
async tasks per session, the reader and the writer, run on a runtime of two
worker threads: the reader calls `receive` (which fills reply channels, stores
snapshots, appends events, answers probes), the writer empties the outgoing
channel, and either may call `close`. The desktop hub forwards requests to the
window that owns a conversation and merges what windows broadcast.

What is hard about it. Threads and tasks meet at six mutexes, a condition
variable, an atomic flag and a bounded channel, and most operations take several
of them one after the other. A write may fail after the desktop has all its
bytes. A time-out races with a late answer. Ownership of a conversation moves
between the steps of a call. The session can die between any two of these steps.
The databases change between two pages of one query. Commands, publication runs
and checkouts can be interrupted and repeated. `PROJECT.json` lists each of these
hazards at its line, with the properties that cover it.

What makes each component correct:

* session: a mutation arrives at most once; a definite failure is definite;
  every call returns; a dead connection releases its waiters; no entry leaks;
  one live session at a time;
* snapshots: a read returns a state at least as new as it promises; nobody
  sleeps through the snapshot or the close it waits for; an approval goes to the
  owner whose state was verified;
* events: a consumer that follows the documented protocol loses nothing silently;
* paging: a completed pagination is one history, with no gap and no repetition;
  the chunks of an item belong to one version;
* projects: a reused directory belongs to the requested project;
* process: the token file opens the running server; the pid file never names a
  process that did not get the port; every start and stop ends;
* publication: what is submitted is one build, also after a rerun; success is
  reported only for what was verified; a rerun is refused only for another build.

## Modules

| Module | Models | Lines |
|---|---|---|
| `WriteOutcome` | abstract: what a caller may conclude from the result of a write call | the promise in `README.md` ("结果未知", no replay) and the tests of `desktop_ipc.rs` |
| `DesktopSession` | the session and the write calls on it | `desktop_ipc.rs` 67-168, 298-323, 351-477, 521-533 |
| `SnapshotStream` | owners, snapshots, and the calls that wait for one | `desktop_ipc.rs` 185-278, 298-323, 414-500, 521-529; `desktop_invoke.rs` 126-177 |
| `HttpConnection` | one connection of the HTTP server, from its first byte to its reply | `main.rs` 107-191, 218-328 |
| `ProjectDirectories` | directories checked out, taken over or created, by calls with and without the server's lock | `project_checkout.rs` 31-161, 173-181; `project_preparation.rs` 10-127; `main.rs` 162-174; `desktop_invoke.rs` 179-189; `cli.rs` 49-63 |
| `DesktopCatalog` | a list of threads or projects read page by page with offsets | `desktop_catalog.rs` 42-68, 91-111 |
| `EventStream` | the ring of events, `recentEvents`, live delivery | `desktop_ipc.rs` 324-339, 502-517; `desktop_events.rs` 18-48 |
| `HistoryPages` | a list read page by page | `desktop_history.rs` 172-244, 260-321 |
| `ItemContent` | an item read chunk by chunk | `desktop_history.rs` 322-354 |
| `ConnectorDaemon` | `start`, `start --daemon`, `stop` | `process_runtime.rs` 3-61, 86-183, 203-240, 297-313; `cli.rs` 14-48; `main.rs` 87-113 |
| `MarketPublication` | a publication and its reruns | `publish-market.py` 31-51, 86-178, 181-207 |
| `DesktopSessionProofs`, `DesktopWaitProofs`, `SnapshotProofs`, `HistoryPagesProofs`, `LocalReadsProofs`, `EventStreamProofs`, `MarketProofs`, `ServerProofs` | theorems | |
| `MCDesktopSession`, `MCSnapshotStream`, `MCEventStream` | symmetry and bounds for TLC | |
| `MCHttpService`, `MCLocalReads` | two modules each that share no state, for one run: one of them runs, the other rests | |

A definition that begins with the comment `Fault:` is not part of the model. It
is the definition below it with a plausible bug, kept so that each property can
be seen to fail when the code is wrong; `PROJECT.json` pairs them under
`mutants`.

### DesktopSession

`guard` is `DesktopClient.session`, `connector` says who holds its mutex inside
`connect`. Per session, `life` is how far `close` has come (`alive` is
`life = "open"`), `pending`, `outgoing` and `handles` are the fields of the
same names, `inHand` is the frame the writer task is writing. Per call, `pc` is
the next step of its thread; the granularity is one lock acquisition, atomic
load, channel operation or wait per action. So `Session::send` is two actions,
`CheckAlive` and `TrySend`, and `close` is three: the swap of `alive` (inside
the failing action of the task), `DrainPending`, `AbortTasks`. An abort is only
a request, which `CancelReader` and `CancelWriter` carry out at the task's next
await.

`WriterFails` covers a write error and the ten-second limit; it may or may not
have delivered the frame. `ReceiveResponse` may answer any delivered request
that is still pending, any number of times in the desktop's view (late and
repeated responses find no entry). Owners, snapshots and the content of frames
are abstracted; an owner that is missing, lacks the capability, or is not the
expected one is a nondeterministic outcome of a successful discovery.
`MutationCodes` includes what `startTurn` makes of a success without a result: a
502 with the code `IPC_PROTOCOL_MISMATCH`, which `owner` uses with another status
before anything is submitted. The turn runs, so the model counts the 502 among the
results that may follow a delivery, and `Report` maps it to "ok". No property covers
a caller that looks at the code alone: the repository promises nothing of it.

`WriteOutcome` is the contract: `Deliver` at most once and never after a
refusal, `Report` "ok" only after the delivery, "refused" only without one,
"unknown" in any case. `ImplementsWriteOutcome` maps `arrivals` and `result`.

### SnapshotStream

The requests of a call are reduced to asked, answered or failed; what their
protocol guarantees is `DesktopSession`'s business. `lock` is the call that holds
the `snapshots` mutex across steps (`read_metadata` holds it while it sends);
`accepting` is the snapshot that `receive` has compared with `owners` and not
yet stored, the window between lines 486 and 490. `owner` is `AskOwner`,
`InsertOwner` and, under a later lock, `DropSnapshot`. A wait is `KeepWaiting`
(alive was loaded), `Park` (the atomic release of `wait_timeout`), then a wake-up
or `Expire`, then `Relock`. `respondToRequest` connects twice, for its read and
for its mutation: if the session dies in between, the mutation goes on over
another one (`stage` is `"elsewhere"`), whose maps are not these. `read` sends its
follow broadcast (`EnterHistory`) and its history request (`LoadHistory`) as two
frames; either may find the session dead, and the broadcast a full queue
(`FollowSent`). `RefuseSnapshot` is a snapshot that is no object. Broadcasts, moves
and answers are the desktop's, and each window's messages arrive in order through a
pipe of its own.

Two history variables say what a read may rely on. `term` counts the changes of
`owners`, and a stored snapshot carries the term in which `receive` matched its
sender. `since` is, for a history read, the revision of the conversation when the
read began, and for a metadata read the term in which it discovered its owner. So
`HistoryIsCurrent` speaks of the conversation itself, through moves, dropped and
refilled snapshots and the different ways of answer and snapshot; and
`NamedOwnerSentIt` says that the window a read names is the one whose snapshot it
returns, and the one an approval goes to, unless `owners` changed between discovery
and match. That exception is the first finding, and the property says that there is
no other way to it.

### EventStream

`stored` says whether there is a session in `DesktopClient.session`: `connect` takes
out a dead one before it tries to replace it (`ConnectFails`), and without a session
`recent_events` answers with no events. Streams are numbered in the order of their sessions; `latest`, `ring` and
`queue` are per stream, because each session has a ring and a publisher of its
own. `Receive` is the tail of `Session::receive`: number, append, offer to the
publisher's queue (`try_send`, so a full queue drops), evict from the front. Stream
changes of another host, or from a window that is not the owner, return before that
(lines 479-486) and are no events here: what the properties count is what reached
the ring. The
eviction by bytes is a free choice of how many events go, the new one included.
`PostFails` covers an error and a time-out, after which the endpoint may have
the event. The polling client is the one `README.md:20` asks for; `got`, `upTo`
and `resynced` are what it knows, and `LossIsReported` compares that with what
really happened. The filter of `recent_events` is written as the last part of the
ring, from the first event after the client's position (`RowsAfter`): the numbers
of a ring grow, so that is what the filter keeps, and `FilterOfRing` proves it. An
aborted reader task may still run after its session was
replaced (`CancelReader`).

### HttpConnection

A request is its lengths (header text, declared and real body) and what the
checks tell apart: target, token, arguments, workspace header. `ClientSends` cuts
it into segments at will, `ClientShuts` ends or breaks the stream at any byte, and
a client may stop without either. `ReadHeaders` and `ReadBody` are one
`stream.read` each, of any size up to the buffer, with the checks that follow it
in the loop; `ReadEnd` is a read of nothing or an error, `ReadExpires` the ten
seconds. `Dispatch` is `handle_connection` from the target to the handler with
the order of its refusals; `Perform` is the handler, which is the business of the
other modules.

The limit on headers is compared after each read with all that was read, bytes of
the body included. So a request whose header text fits the limit may still be
refused when its body comes close behind; `WellFormed` asks for headers that
leave room for one read, and is what `RefusedOnlyIfIncomplete` promises about.

### ProjectDirectories

A project stands for its directory under the root. `dir` holds what the questions
of `inspect_existing` tell apart: the identity git gives, the origin (its path: the
host of the URL is not compared, `project_checkout.rs:107`), whether a
branch is named, and (not asked by the code) whether the files are all there.
`guard` is `management_operation`; `task`, `at`, `checkout`, `answer` are per
call, `incarnation` numbers the servers, `cameTo` the server a call came to. Each
question to git is a step of its own, so the directory may change between two of
them. `Restart` ends the server's threads in the middle of anything; the
processes they started go on, which is why a call of the next server may meet
them.

`baijimu project checkout` is not in the repository. What the connector relies on
is assumed: when it reports success, the directory is a complete checkout of that
project; it removes nothing. In which order it works, where it fails and whether
it works in a directory that appeared meanwhile is left open. Under this,
`AnswersNameTheProject` holds for every caller. That an answered checkout is
complete does not hold: a failed or abandoned one that got as far as its identity
is taken over. `TakesOverNoWorkInProgress` says exactly when, and that the lock
excludes it among the calls of one server.

### DesktopCatalog

`table` is the sequence of rows the filters let through, in the order of the
query; `Touch` moves or adds a row, at the place the order gives it (`updated_at`
or `created_at` in either direction, or by name), `Leave` takes one out. `Page`
is `query`, or `project_query` with its skip and take: the rows from the offset,
and one row more to see whether others follow. The repository promises nothing of
a list that changes meanwhile; `MissedOnlyForTheFallen` is what does hold.

### HistoryPages and ItemContent

A request of `HistoryPages` is `Begin` (the transaction, which fixes `view`),
`Check` (`max(rollout_ordinal)` and the anchor of the cursor), one `TakeRow` per
row returned, then `EndPage` with a cursor or `EndList` without. `list_turns` and
`list_items` share this control; the existence of the turn is `OfItems` only. Any
row but the first may be the one that exceeds the byte budget. In `ItemContent` a
request is `Begin` and then `RefuseStale` or `ReturnChunk`. The client passes each
cursor back as it was given.

Assumed of the desktop's database, which is not in the repository: the id of a
removed row never returns; ordinals are unique among the rows there are and grow,
but may be used again after a rollback; a rewrite of an item changes one of its
ordinals. `OneHistory` shows why a cursor carries both the id and the ordinal of
its anchor: with ordinals alone a rollback and new turns would mix two histories.

### ConnectorDaemon

One data directory and one port. A server is `Bind`, `LoadToken`, then either
`WriteOwnPid` or the creation of a token before it (`RemoveOldToken`, which removes
on Windows only, `RenameToken`, `ReadBack`). `start --daemon` is `AskHealth`, then
`RecordPid` or `SpawnServer`, `WaitHealth` or `WaitExpires`, `RecordPid`; `stop`
is `AskHealth`, `Terminate`, `RemovePidFile`. `Die` is a crash or the signal, at
any step. A token is named by the process that generated it. What serialises the
token file is that a server binds the port first, which the model shows
(`TokenAgrees` fails when `Bind` does not exclude). Two servers on different
ports over one data directory would not be excluded, and are not modelled.

`PidFileNamesHolder` is as much as holds of the pid file. That it names a live
server does not: a crash leaves it, and `stop` removes it after the signal without
waiting, so it may remove the file of a server started meanwhile. Only `status`
prints it; `stop` asks the health endpoint instead.

### MarketPublication

One version. `app`, `frozen`, `receipt`, `listing` are the source owner's and the
market's; the rest is the run's. Each call of `publish()` is an action; a call
with an effect may have it and fail all the same (`After`), a freeze or a
submission also later (`late`, `underway`), and `Stop` is a failure or an
interruption anywhere. A later run may bring artifacts that were built again.
Assumed of the source owner: it freezes a version once and keeps it; to freeze it
again fails or succeeds without effect. Nothing is assumed of a submission made
again: it may be received again, also after a review. `submitted` is a history
variable, the builds whose runs have submitted; `SubmittedIsOneBuild` says that
every submission, however late or often it is received, is of the one build that is
frozen. Runs follow one another because of the concurrency group in
`.github/workflows/release.yml:25-27`.

## What is checked

| Run | Instance | Shows |
|---|---|---|
| `Session` | 2 calls, 1 session, queue of 2, probes | `DefiniteFailureNotDelivered`, `NoOrphanedWait`, `OneReplyPerRequest`, `NoPendingLeak`, `DisconnectReleasesWaiters`, `EveryCallReturns` |
| `SessionReconnect` | 2 calls, 2 sessions, queue of 1, no probes | `AtMostOnce` over two connections, `SingleLiveSession`, `SurvivorsWereRegisteredLate`, `ImplementsWriteOutcome` |
| `SnapshotCalls` | an approval (a metadata read, then a mutation) and a history read, 2 windows, 2 broadcasts, 1 move | `NoLostWakeup`, `ParkedMeansNothingNew`, `HistoryIsCurrent`, `FreshAfterFollow`, `NamedOwnerSentIt` |
| `SnapshotReleases` | metadata and history read, 1 window, 1 broadcast | `DisconnectReleasesReaders`, `EveryReadReturns` |
| `EventStream` | 2 streams of at most 4 events, ring of 2, queue of 2, polls of 1 or 2 | `LossIsReported`, `GapsAreReal`, `DeliveredInOrder` |
| `HistoryPages` | pages of 2, at most 5 rows appended, gaps of at most 1, both directions | `PagesInOrder`, `OneHistory`, `EveryPaginationEnds` |
| `LocalReads` | chunks of 2, texts of 0, 2 or 5, 2 rewrites; tables of up to 4 rows, pages of 1 or 2, 3 writes, three orders | `OneText`, `MissedOnlyForTheFallen`, `CatalogTypeOK` (the type invariant, with the range of offsets) |
| `HttpService` | reads of at most 3 bytes, header limit 9, header text of 3 or 5, bodies of 0, 2 or 4 with a limit of 3; 2 HTTP calls and 1 shell call on 1 project, 2 servers | `RefusedOnlyIfIncomplete`, `OnlyWholeRequestsPerform`, `AnswersNameTheProject`, `TakesOverNoWorkInProgress`, `CreatedByItsCall`, `EveryConnectionEnds`, `EveryDirectoryCallEnds` |
| `ConnectorDaemon` | 2 `start --daemon`, 1 `stop`, at most 3 servers | `TokenAgrees`, `PidFileNamesHolder`, `EverythingSettles` |
| `MarketPublication` | 3 runs, 2 builds, 2 platforms, 2 requests for the receipt | `SubmittedIsOneBuild`, `SuccessIsVerified`, `RefusalsAreReal`, `EveryRunEnds` |
| `SnapshotApprovalOwner` | an approval and a follower call, bounds of `SnapshotCalls` | violated: see findings |
| `SnapshotTimeout` | metadata read and follower call, 1 window | violated: see findings |

The type invariants of the other modules are theorems instead of runs (below).

Bounds. Two calls are enough for one to fill the queue, hold the mutex or answer
late while the other is at any step; a queue of 1 or 2 is full after one or two
frames, probe answers included, so both outcomes of `try_send` occur in every
state. Two sessions give one death and one reconnect; each call connects once,
so a third session adds nothing for two calls. In the snapshot runs one move is
what a change of owner needs, and two broadcasts give a stale snapshot and a
fresh one. A ring of 2 with 4 events evicts by count and by bytes, the new event
included, and a limit of 1 leaves a page incomplete; `PollOrPublish` keeps
behaviours with a poll and a publisher apart, which read nothing of each other. Five rows and pages of two
give three pages, with room for a rollback and new rows under old ordinals. A text
of 5 in chunks of 2 has an uneven last chunk, a text of 2 ends on a boundary, and
the empty text has an empty chunk. Four rows in pages of one or two and three
writes let rows fall out of places already read, return, and push others back.
Reads of 3 bytes cut the separator of 4 and end before, at and behind the
boundaries of headers and body; lengths on both sides of each limit occur, and
bodies shorter and longer than declared. To keep the two dimensions apart, either
the lengths vary or what is checked after the framing does. Two HTTP calls meet
at the lock, with one from the shell beside it and one restart. Two commands and a direct start are three
servers for one port. Three publication runs are one that is interrupted, one
whose freeze is late, and one that finds what they left. The proofs below remove
these bounds for the properties they cover.
Deadlock is not checked: every model stops when its calls have returned, its
events, rows, processes or runs are used up, and that is what it should do.

Fairness. `FairSpec` of `DesktopSession` and `SnapshotStream` assumes that a
closing task runs on and that a thread which can take a step takes one: the
runtime polls its tasks, the operating system schedules threads, and no lock is
held across a wait for another party. It assumes nothing of the desktop, not even
that it reads, and nothing of the clock. What a disconnect must achieve is checked
under it, so no time-out can hide a lost wake-up. That a running time-out expires
(`recv_timeout`, `wait_timeout`) is `ClockFairness`, the premise of
`EveryCallReturns` and `EveryReadReturns`.
`PagedSpec` assumes that the client goes on asking and SQLite answers (a busy
database is a failed request, which the client repeats). `RunSpec` assumes that
each call of a publication run returns, with a result or an error; `Stop` is not
fair, so a run ends without being interrupted. `RunningSpec` assumes that
processes run on and that the five seconds of `wait_for_connector_health` pass;
nothing makes a server die, nor a signal arrive.
`HttpFairness` assumes that the thread of a connection runs and the clock of its
read does; the client owes nothing. `DirectoryFairness` assumes that threads run
and that the external program ends, since the connector sets it no limit: a
checkout that hangs does keep the lock, and every preparation with it. The lock
itself need not be fair, because each call takes it once. The restart of the
server owes nothing.

## Findings

1. *An approval may be verified against one window and sent to another*
   (`SnapshotApprovalOwner`). `receive` compares the sender of a snapshot with
   `owners` (`desktop_ipc.rs` 483-486), lets go of that lock, and stores the
   snapshot (490-497). In between, an `owner()` call, that of the approval itself or
   of another call, may install a new owner and drop the stored snapshot (443-450).
   A metadata read that found the new owner takes the old window's snapshot as fresh
   and returns it with the new `ownerClientId`; `respondToRequest` then sends the
   approval to the new window.
   `README.md:51` says only snapshots of the current owner are accepted, and
   `connector.json:646` that the answer goes to the same desktop owner.
2. *A delivered snapshot may be reported as not delivered* (`SnapshotTimeout`).
   The removal at line 448-450 comes after the new owner is visible, so it may
   remove the new owner's first snapshot. The reader that was woken by it finds
   the serial advanced and no snapshot, and times out if the desktop has nothing
   else to broadcast ("desktop did not deliver current metadata snapshot", line
   233).

Both need two calls on one conversation and a change of owner or its first
discovery. For the first finding one call after the other is enough; for the second
they must run at the same time.

## What is proved

All theorems hold for every value of the constants, bounds included, under the
named assumptions of the modules. Most of these say that a bound is a natural
number, that kinds of callers are disjoint, and that `None` and the like are
outside the other sets. The others: a positive queue, ring, page, chunk and read
size, and finitely many platforms.

* `DesktopSessionProofs`. `TypeCorrect`, then one inductive invariant,
  `DeliveryInv`: a request frame exists only after its call reached the matching
  step, on the session of that call, and in at most one place among the queue,
  the writer's hand and the desktop. Neither `AtMostOnce` nor
  `DefiniteFailureNotDelivered` is inductive without it, because the number of
  arrivals grows only through the writer's hand. It yields
  `DeliveredAtMostOnce`, `DefiniteFailures` and, step by step,
  `SessionImplementsWriteOutcome`.
* `DesktopWaitProofs`. `ConnectInv` ties the mutex to the session under
  construction and gives `OneLiveSession`. `WaitInv` follows a request from its
  insertion to its answer and gives `WaitersAreReleased`: `alive` is checked
  after the insertion, and the drain comes after `alive` is cleared. `EntryInv`
  says where an entry of `pending` can be: only on the session of its call, under
  the request the call is at, from the insertion to the removal, with its channel
  still empty. No single thread keeps this (the caller, the reader and the drain
  all remove entries), and neither `RepliesOnce` (`OneReplyPerRequest`) nor
  `ReturnedCallsLeaveNoEntry` (`NoPendingLeak`) is inductive without it: an entry
  left from an earlier stage could be answered into a channel in use. `TaskInv`
  says that outside of `connect` every task that was started is registered or
  marked for an abort; on a session under construction the reader at least is, as
  soon as the writer runs. It gives `SurvivorsHaveHandles`
  (`SurvivorsWereRegisteredLate`).
* `SnapshotProofs`. A wake-up invariant (a thread between its check of `alive`
  and its parking holds the lock; `close` has passed the lock before it
  notifies; a parked thread is not satisfied) gives `CloseWakesEveryone` and
  `SnapshotsWakeEveryone`; `CallInv` gives `MetadataIsFresh`. `HistoryInv` bounds
  what is on its way: an answer to a question of a history read, in a pipe or an
  inbox, names no revision from before the read began, because revisions only grow
  and a question is answered after it is asked. It gives `HistoryReadsAreCurrent`
  (`HistoryIsCurrent`). `OwnerInv` ties the terms to the windows: a snapshot
  matched in the present term came from the present owner, and a call that
  discovered its owner in the present term found that owner. It gives
  `NamedOwnersSentTheSnapshot` (`NamedOwnerSentIt`).
* `HistoryPagesProofs` (`PagesAssumption`: positive page size). `HistoryInv` says
  what a history is (ids below `born`, unique ordinals) and how two of its states
  may differ: a row that both hold has the same predecessors in both, because the
  history is only ever cut from above. `AnchorInv` ties the cursor to the last row of the
  client's list, which gives `PagesFollow` (`PagesInOrder`). `ReturnedInv` is the
  reason for `CompleteLists` (`OneHistory`): the rows returned so far are exactly
  those of the first request's view, or of the current one, up to the anchor.
  Each `Check` re-establishes it for a new view from two facts only, that the
  anchor is still there and that the head has not sunk.
* `LocalReadsProofs` holds two arguments. Items (`ContentAssumption`: positive
  chunk size): `ContentInv` ties the cursor to the end of the last chunk and its
  version; it gives `TypeCorrect`, `ChunksOfOneText` and `ChunksAdvance`. The
  catalog (`CatalogAssumption`: finitely many rows, positive limits):
  `CatalogInv` counts, at every page boundary and not only at the end, the rows
  nobody wrote that stand before the offset and were not listed, and bounds them
  by `fallen`. A row gets there only when a write takes another one out of the
  places already read, and one write takes out one row at most; a page adds none.
  `MissedOnlyForTheFallen` alone says nothing until the end, so it is not
  inductive. This gives `CatalogTypeCorrect` and `ListingsMissOnlyTheFallen`.
* `ServerProofs` holds three arguments. A connection: `HttpInv` says at each step
  of the thread how many bytes it has and which checks are behind it. It gives
  `CompleteRequestsAreRead` (`RefusedOnlyIfIncomplete`) and
  `HandlersSeeWholeRequests` (`OnlyWholeRequestsPerform`) for all lengths and
  limits. The directories: `DirectoryInv` says of each call where it stands, what
  it has learnt of its directory (which a directory never loses), whether it
  holds the lock, and of which server it is; and of each directory without all
  its files, that a checkout behind it still runs or has failed. That gives
  `AnswersAreOfTheProject`, `NewDirectoriesAreNew` and `NoWorkInProgressIsTaken`:
  work in progress of the same server would hold the lock. The daemon:
  `DaemonInv` says that one process at most is past `bind`, that it alone writes
  the token file, and that a process is recorded only after it had the port; it
  gives `TokenFileOpensTheServer` and `PidFileIsOfAHolder`.
* `MarketProofs`. `MarketInv` follows what a run has established, for each of its
  steps and whatever earlier runs left, late freezes and submissions included. The comparison by
  number and per platform becomes equality because the platforms are finite
  (`CheckedIsOneBuild`). It gives `SubmissionIsOneBuild`, `ReportedSuccessIsThere`
  and `OwnBuildIsNotRefused`.
* `EventStreamProofs`. `StreamTypeCorrect`, with the bounds of ring and queue, and
  `LiveInv`: of each stream, what is delivered comes before what is being posted,
  and that before what is queued. It gives `LiveEventsInOrder`. `PollInv` is the
  polling client's: a ring is the numbers that follow those dropped from it,
  without a hole; an answer under way is a part of such a run that begins at or
  after the client's position, and begins later only if what is between has left
  the ring; the client is where the stream was, of every event up to there given
  or told of. It gives `NoSilentLoss` (`LossIsReported`) and
  `ReportedGapsAreReal` (`GapsAreReal`), for any ring, limits and sessions.

`TypeCorrect` and its kin prove the type invariants of `DesktopSession`,
`SnapshotStream`, `HistoryPages`, `ItemContent`, `DesktopCatalog`, `EventStream`
(the client's variables are typed in `PollInv`), `MarketPublication`,
`ConnectorDaemon`, `HttpConnection` and `ProjectDirectories`.

Every invariant and every action property that a passing run checks is a theorem,
and so is the refinement of `WriteOutcome`. Only model-checked are the liveness
properties: `DisconnectReleasesWaiters`, `EveryCallReturns`,
`DisconnectReleasesReaders`, `EveryReadReturns`, `EveryPaginationEnds`,
`EveryConnectionEnds`, `EveryDirectoryCallEnds`, `EveryRunEnds` and
`EverythingSettles`. Their fairness needs `ENABLED`, which is out of the prover's
reach. What they rest on is proved where it is a safety property: a disconnect
leaves no waiter without an answer on its way (`WaitersAreReleased`,
`CloseWakesEveryone`), no reply channel is sent to twice and so blocks its sender
(`RepliesOnce`), and a chunk that announces another has text (`ChunksAdvance`).
The two violated properties of the findings have no theorem.

## Not modelled

* Signing of release artifacts: a loop with a fixed number of attempts in one
  process, and one call of the Windows signer. Nothing runs beside them, and a
  test reaches all of it.
* The release workflow: the order of its jobs is declared and carried out by the
  hosting service. Its concurrency group is an assumption of `MarketPublication`.
* The rules of `validate_request` against the manifest, the columns and filters
  of the catalog, previews of history rows, the encoding of cursors, header lines
  and the comparison of the token: functions of their input without state, which
  the models take as a Boolean or a choice.
* The framing of IPC frames (`read_frame`, `write_frame`), which fail or succeed
  as a whole in `DesktopSession`, and the rejected-read code of `rpc`.
* `status`, `help`, the log, the parsing of options, `history_source`: they read
  and print, or are one query.
* `json_compat.rs` (strips a byte order mark), the launcher, the manifest.

What more could be done: one module that composes the handlers of
`HttpConnection` with the session and the snapshots they use, which is beyond TLC
at useful bounds as the modules stand.
