# A verification model of node-srt

TLA+ models of `@eyevinn/srt` (`src/`): the classes that drive the native SRT bindings
from JavaScript through a worker thread, the Node streams that call them directly, and
the tools both use. TLC checks the models on small instances; TLAPS proves the theorems
for every value of the constants. Source paths below are relative to the repository's `src/`
directory; line numbers are those of the commit beside this project.

## The system

| Component | State it keeps | Operations | Talks to |
|---|---|---|---|
| `AsyncSRT` (`async-api.ts`) | `_worker`, `_workCbQueue`, `_error`, `_createAsyncWorkPromiseLockLevel`, `_startedToDispose` | one method per binding call, `dispose()`, `getError()` | posts messages to the task-runner, receives its answers |
| Task-runner (`async-worker.ts`) | the native object, its message port | runs one native call per message, answers once | the native bindings |
| Native bindings (`node-srt.cc`) | SRT sockets and epolls of the library | create, bind, listen, connect, accept, close, read, write, flags, epoll, stats | libsrt |
| `SRTSocketAsync`, `SRTClientConnection` (`srt-socket-async.ts`, `srt-client.ts`) | `_socket`, `_startedToDispose`, an `AsyncSRT` of its own | `create`, `setSocketFlags`, `open`, `read`, `write`, `dispose` | `AsyncSRT` |
| `SRTServer`, `SRTServerConnection` (`srt-server.ts`) | `_connectionMap`, `_epid`, `_pollEventsTimer`; per connection `_asyncSrt`, `_fd` | `open`, the poll loop, event handlers, `dispose`, `close` of a connection | `AsyncSRT`, user callbacks by events |
| `AsyncReaderWriter` (`async-reader-writer.ts`, `async-read-modes.ts`, `async-write-modes.ts`) | loop variables of a read and a write in progress | `readChunks`, `writeChunks`, the explicit scheduling | an `AsyncSRT` shared with others |
| Tools (`tools.ts`) | none | slicing and merging buffers, `waitForCondition` | used by `AsyncSRT.dispose()` and the reader-writer |
| Streams (`srt-stream-readable.ts`, `srt-stream-writable.ts`) | `_fd`, a poll interval, a read timer | the Node stream protocol | the native bindings, synchronously |
| Rest | loading the library, starting the worker, enumerations, types, logging, build scripts, examples, tests | | |

### What is hard, and what makes each part correct

* **AsyncSRT.** An answer of the worker carries no identity (`async-api.ts:155`):
  the callback at the head of the queue gets it. So the queue must be, position by
  position, the list of messages in flight, through timeouts, late answers and
  disposal. The lock level must count the calls that are owed an answer, or
  `dispose()` would strand a caller or hang. A settled promise must stay as it is.
  There is one `_error` for all calls in flight.
* **SRTServer.** `_pollEvents()` starts a handler per event and awaits none, and the
  level-triggered epoll reports again what a handler has not dealt with yet. The
  single worker executes calls of all handlers in order, and an `accept()` without a
  peer would block it. `dispose()` races with all of them.
* **SRTSocketAsync.** Each method tests the object's state and then awaits: two of them
  overlap and the second acts on what the first has not finished.
* **Reader-writer.** A loop that retries on every error shares the worker with a
  writer; a tick fails in part; chunks must stay in order.
* **Streams.** The Readable of Node, an accept interval, a read timer and the user's
  handlers all touch `_fd`, and every native call holds up the one thread they run on.
  A read asked for before there is a connection must be answered after it; the stream
  must be handed to its user once; a destroyed stream must leave nothing behind.
* **Tools.** The slicing loop tests a value of the iteration before; the merging loop
  compares the target with an offset only; `waitForCondition()` has four ways to end,
  two clocks and a timeout that races them.

The hazards are listed with their lines and properties in `PROJECT.json`.

## Modules

| Module | Models | Composes |
|---|---|---|
| `AsyncSRT` | `async-api.ts` and `async-worker.ts`: main thread, worker thread and the two message queues between them | |
| `AsyncCalls` | abstract: what the asynchronous API promises: each call performed at most once, in order, and answered in order (no callbacks, no threads) | implemented by `AsyncSRT` |
| `AsyncSRT_proofs` | the theorems | extends `AsyncSRT` |
| `CallLoop` | what a class above `AsyncSRT` sees of it: calls performed and answered in order, continuations run as microtasks | implemented by `AsyncSRT`, as `AsyncLoop` shows |
| `AsyncLoop` | `AsyncSRT` with the continuations of its callers | extends `AsyncSRT`, instantiates `CallLoop` |
| `AsyncLoop_proofs` | that it is the loop of `CallLoop` | extends `AsyncLoop` and `AsyncSRT_proofs` |
| `NodeSRT` | the effects of `node-srt.cc` on one listening socket, its connections and an epoll, and the network | |
| `SRTServer` | `srt-server.ts` | extends `NodeSRT` and `CallLoop` |
| `SRTSocketAsync` | `srt-socket-async.ts` with `srt-client.ts` | extends `CallLoop` |
| `AsyncReaderWriter` | the reader-writer and its loops | extends `CallLoop` |
| `SRTReadStream` | `srt-stream-readable.ts` | extends `NodeSRT` |
| `SRTWriteStream` | `srt-stream-writable.ts` | |
| `Streams` | both streams on one main thread | extends `SRTReadStream`, instantiates `SRTWriteStream` |
| `Tools` | `tools.ts` | |
| `SRTServer_proofs`, `SRTSocketAsync_proofs`, `AsyncReaderWriter_proofs`, `Streams_proofs`, `Tools_proofs` | their theorems | extend the module they are named after |
| `SRTServerAccept_proofs` | the theorems about the poll loop and `accept()` | extends `SRTServer_proofs` |
| `MC...` | instances for TLC: constants for calls, peers and descriptors | extend the module they are named after |

### AsyncSRT

`Calls` is the set of invocations of API methods; `Writes`, `TimeoutCalls`, `Neutered`
and `Blocking` tell their kinds apart (made by `write()`; made with `useTimeout`; the
buffer was detached by an earlier write; the native call may never return). Methods
differ in arguments otherwise. The variables are the fields of the class, with a callback named by its call, plus the message queues `inbox` and
`outbox`, the worker's `busy` and `thread`, and what each caller observes: `promise`,
`answer` (whose result resolved it), `cbAnswer` (whose result its callback got).
The result of a native call is abstracted to the call it came from and to whether
it threw.

| Action | Code |
|---|---|
| `CallAfterDispose`, `CallWhileDisposing`, `CallWithUndefinedArg` | the early exits of `_createAsyncWorkPromise` (199-219) |
| `CallPosted` | the rest of it, with `_postAsyncWork`: lock, timer, queue, message |
| `CallNotCloned` | the same when `postMessage()` throws (189): promise rejected, callback queued, lock kept |
| `WorkerTake`, `WorkerReply` | the message handler of the task-runner, split at the native call |
| `OnWorkerMessage` | `_onWorkerMessage` and the `onResult` it calls |
| `Timeout` | the timer callback (250-257) |
| `Dispose`, `DisposeProceed`, `Terminated`, `DisposeAgain` | `dispose()` up to its wait, after it, when `terminate()` resolves, and called again |

A JavaScript function runs to its next await without interruption, so each is one
action. `onResult` calls the user's callback before it gives the lock back; a
callback that calls the API appends at the other end of the queue and increments the
lock, or starts the disposal, which tests the lock in a later turn if it is held. The
one difference from an action of its own is that a disposal started from the last
callback sees the lock still held and waits one polling period more.
The worker's own test for undefined arguments (48-53) is unreachable: the main
thread makes the same test first. `terminate()` stops JavaScript, but not a native
call the thread is in: `Terminated` requires `busy = NoCall`.

### CallLoop and AsyncLoop

The classes above make calls, await them and continue. `calls` are those not
performed yet, `answers` the results on their way, `resumed` the continuations whose
await is over. `Posts` is what `_createAsyncWorkPromise` does seen from outside: queue
the call when live; give `undefined` at once during the disposal; reject after it. Microtasks run before
the event loop takes anything else: actions that are not continuations require `Idle`.
Actions of the worker and the network are independent of the main thread and commute
with it; `SRTServer` lets the network act only between continuations for that reason.

The classes above are modelled on this loop and not on `AsyncSRT` itself, so `AsyncLoop` shows
that `AsyncSRT` is such a loop. It adds the continuations of whoever awaits a promise, which
`AsyncSRT` does not have: `CallsLive`, `CallThrows`, `CallsInVain`, `Disposes` and `Returns` are
what code on the main thread does in a turn, one call at a time; `MessageArrives` and `TimerFires`
are `OnWorkerMessage` and `Timeout` with the continuation they resume; `Elsewhere` is the rest of
`AsyncSRT`. `LoopTurn` lists what the loop may
do. `Loop` reads `calls` off `busy` and `inbox`, `answers` off `outbox`, and tells from `_worker` and
`_startedToDispose` how far a disposal has come. `ImplementsLoop` is about behaviours until
a call times out or a message is refused: none of the classes above asks for a timeout
(`srt-server.ts:254` calls `accept()` without one), and their models write no buffer twice. A function
that makes several calls at once, as `setSocketFlags()` and `tick()` do, is as many steps of the
loop.

### NodeSRT and SRTServer

A socket has a status, as `srt_getsockstate()` reports it. `Accept` closes the listener
whether it succeeds or not, as `node-srt.cc:181-188` does; without a peer it waits or, where
reads of the listener are not blocking (`SRTO_RCVSYN`), fails: its parameter `waits`. `Listen`
closes the listener when it fails, and so does `Bind`, unless the address cannot be parsed
(`node-srt.cc:117-120`). `EpollUWait` reports every watched socket that has something to report,
each time. The library acts by itself too: some time after a connection broke it closes the socket
(`LibraryCloses`), which the code expects where it tests for CLOSED and NONEXIST
(`srt-stream-readable.ts:71`, `srt-server.ts:268-272`), and later forgets it, so that no epoll
reports it any more (`LibraryForgets`). From then on the native `close()` of it throws. In `SRTServer`, `Open`, `Bound`, `Listening`, `EpollCreated` and `Watching` are the
segments of `_open()` between its awaits; `PollTimer` and `Polled` those of
`_pollEvents()`; `ListenerEvent`, `Accepted`, `Added`, `BrokenEvent`, `ConnectionClosed`
and `DataEvent` those of `_handleEvent()`; `Dispose`, `ListenerClosed`, `DisposeProceed`
and `WorkerExited` those of `dispose()`, inherited from `SRTSocketAsync`. Events of one poll are
handled in any order. Each element of `Opens` is an invocation of `open()`, which nothing
in `SRTServer` keeps from being called again: its `bind()` fails on a socket that is bound
already and closes the listener (`node-srt.cc:124-126`), whatever the poll loop and the
handlers are doing with it. `attached` is the set of connections whose `_asyncSrt` is not
null: empty in every reachable state, because the constructor (`srt-server.ts:29-32`)
does not store its argument, so the part of `CloseConnection` that handles
an attached connection is there for the code and never taken. The server is opened after
`create()` has completed. A handler that throws, or whose call is rejected, leaves an unhandled rejection;
`EventsAreMapped` and `NeverRejected` show that this does not happen there.

### SRTSocketAsync

One object; the user makes up to two `create()`, one `setSocketFlags()` of two flags, one
`open()`, one `read()` or `write()` and any number of `dispose()`, in any order and
whether or not others are pending. A native socket is open, connected or closed: `connect()`
fails, and closes, one that is connected, and a native `read()` or `write()` returns at once unless
it is on a connected socket, where it may wait for ever (`TransferWaits`). `overlapped` remembers whether a method was ever
called while another was pending. `_open()` is that of the client. `setSocketFlags()` makes
its calls in a synchronous loop (`srt-socket-async.ts:95-105`); an invalid passphrase makes
`AsyncSRT.setSockFlag()` throw there, so that the method has ended while the first flag is
still being set: the second alternative of `SetSocketFlags`.

### AsyncReaderWriter

A chunk is its number, a message its size. `Tick` is the body of `tick()` in both write
modes; `AfterTick` what `Promise.all()` and the loop make of each settled write. The variables
`scheduling` and `readsBlock` are chosen at the start, from `Schedulings` and `ReadModes`, and
never change: the write mode, and whether a native read waits for data. A rejection that the loops leave unhandled (`whenWritten.then(...)` without a
catch) is taken to be ignored or handled by the process; where the runtime ends the
process instead, nothing follows.

### SRTReadStream, SRTWriteStream, Streams

The streams call the bindings on the main thread. What Node's `Readable` and `Writable` do
is the environment: `_read()` is called when nothing was pushed since the last time,
`_destroy()` once, `_write()` for one chunk at a time.

`SRTReadStream` has one socket, `Listener`, which becomes a connection by `connect()` or gives
one by `accept()`, and uses the operations of `NodeSRT`. Native calls may take a while, and the
network goes on between them, so a function is split at each: `pc` is where the main thread
is. `ListenCalled`, `Binds`, `Listens` and `Watches` are `listen()`; `IntervalFires`,
`BrokenEvent`, `BrokenEventThrows`, `ListenerEvent`, `Accepts`, `Adds` and `DataEvent` its
interval, in which an exception leaves the other events of the turn alone (`IntervalThrows`):
`close()` throws on a socket that the library was first to close, and `accept()` when its peer has
left and reads do not block (`blocking`);
`ConnectCalled` is `connect()`; `ReadCalled`, `ReadTimerFires`, `Reads` and `ReadThrows` are
`_readSocketAndPush()` from its two callers; `Destroys` is `_destroy()`, called by the user
(`DestroyCalled`), after a failed read, or by the user's `'data'` handler in the middle of the
read loop (`DestroyedInHandler`). `push()` and the count of the bytes left are a choice
between going on and stopping. `handedOver` records the callbacks that were given the stream.

`SRTWriteStream` has a socket of its own, in `sinkStatus`, which the library may close after it
broke (`SinkReaped`), and no step of it waits: its operations are one action each. A native write that throws passes through Node's `write()` to
the caller, and the chunk never calls back (`writing`): Node keeps the chunks after it.
`Streams` lets the two act in turn whenever the main thread is idle.

### Tools

A behaviour of `Tools` is one use of it: a buffer is sliced and merged again, an iteration per
action, or `waitForCondition()` is called once. A byte is its position in the source, a chunk the
positions from `start` on. `SliceMore` is the body of the slicing loop, with the value of
`relativeOffset` of the iteration before in its guard, as in the code; `MergeInto` and
`MergeIntoNew` are `copyChunksIntoBuffer()` with and without a target. `WaitCalled`,
`ConditionSays`, `WakesUp` and `TimeoutFires` are the segments of `waitForCondition()`:
`ConditionSays` is what follows the await of the condition, which may never come, `WakesUp`
what follows the sleep; a timeout that fires in between resolves the promise and leaves the loop where
it is. `date` is `Date.now()` and `perf` `performance.now()`: both advance
(`ClocksAdvance`), and the first may jump ahead (`DateJumps`). `TimerDelay` is what `setTimeout()`
makes of a delay it cannot represent.

## Runs

All finish in seconds. `CHECK_DEADLOCK FALSE` is stated in every configuration: after a
disposal the system has legitimately nothing left to do.

| Run | Instance | Shows |
|---|---|---|
| `async_safety` | an `accept()` with a timeout that may block, two writes, one of a detached buffer, a plain call, with their continuations | type; `Aligned`, `OwnAnswer`, `ReportedWriteWasSent` until a `postMessage()` throws; `QueueExcess`, `LockCounts`, `NoneStranded`, `ErrorIsOwn` even after it; `ImplementsLoop` until then or until the timeout |
| `async_live` | the same calls without continuations; the `accept()` may block for ever | `EveryCallSettles` and `DisposeCompletes` unless the worker is stuck or a `postMessage()` threw, the former even then for the call with the timeout; `ImplementsChannel` until it throws |
| `server` | a server, one or two `open()`, two peers | `AcceptWillNotBlock`, `OnePollLoop`, `EventsAreMapped`, `NeverRejected`; `AnnouncedWasAccepted` with one `open()` and no disposal; `PeerAnnounced`, `BreakNoticed`, `DisposeCompletes` |
| `socket_life` | two `create()`, two descriptors, one call of every other method, overlapping at will | `NothingBehindClose`; `EveryCallSettles` unless a native read or write holds the worker for ever; `OwnsWhatItNames` as long as no calls overlapped |
| `rw` | three chunks in ticks of two in both write modes, a reader of three bytes in both read modes, two messages of one or two bytes, a link that may break, a disposal | `TicksAreBounded`, `ResolvedMeansSent`, `WritesInOrder`, `WriterSettles`, `DisposeEndsReader` |
| `streams` | a read stream with two peers, blocking or not, a write stream with three chunks | `HandedOverOnce`, `DestroyFrees`, `NothingLeftOut`, `DataIsPushed` |
| `tools` | buffers, offsets, chunk sizes and targets of up to five bytes; limits of one or three attempts or milliseconds or none, sleeps of two, clocks of six | `SliceAndMerge` where merging does not throw, a target that is too small cutting chunks off without a word; `AttemptsReported`; `WaitEnds`: with a limit of either kind and a condition that answers, the promise resolves and the loop ends |

Every module's type invariant is checked by a run (that of `AsyncSRT` by `async_safety`).
Five more runs, listed under "Disagreements", expect a violation.

Why the bounds are enough. A misalignment of the callback queue needs one call that
disturbs it, one behind it and one that is answered late; three kinds of call in
flight with every order of posting show it, and the theorems below hold for every set.
Two peers suffice for the server because accepting one closes the listener: no state
has more than one accepted connection; a third `open()` would fail as the second does. Two
descriptors and two `create()` are the least for a lost socket. Ticks of two in three chunks
give a full tick, a short one and a failure in the middle; messages of one or two bytes
against three give an exact and an exceeding read. `MaxMessages` bounds what the peer sends.
The read stream accepts one peer for the same reason as the server; the second is the one
that is dropped. Three chunks are one sent, one that throws and one kept. Five bytes in
chunks of one, two, three and five give slices that divide the buffer, that do not, and one
that is all of it, with targets that are too small, exact and too large; size 0 stands for every
degenerate argument. In `waitForCondition()` three attempts and six milliseconds let each limit
be the first to be reached; the clocks are followed further only to the end of a sleep that comes
before the last attempt (`ClocksFollowed`). `Epoch` exceeds `MaxDelay`, as today's `Date.now()` exceeds
2^31 - 1.

### Fairness

The worker takes the next message and finishes native calls that are not in `Blocking`. An
`accept()` waits for its peer instead (`AcceptBlocked`), and a native read or write of
`SRTSocketAsync` for data or for room (`TransferWaits`: `SRTO_RCVSYN` and `SRTO_SNDSYN` are on
unless the user turns them off), for ever if need be; so does a `read()` of `AsyncReaderWriter` with
`readsBlock`, while its writes are taken to return: that a send waits for ever for room in the
sender's buffer is left out there. Nothing obliges the library to close or forget a socket. The event
loop delivers answers, runs continuations and fires armed timers. That is the scheduling
Node gives both threads. The user need not call anything and no peer need act. In
`AsyncReaderWriter` timers are strongly fair: a reader that retries for ever keeps
making the main thread busy for a moment, but each turn of the event loop has a phase for
timers. The same holds of the interval and the read timer of `SRTReadStream`, between which
and calls of the user the thread alternates. `Tools` assumes that time passes, that due
timers fire and that the condition answers every time: one that hangs keeps the loop where it is,
as `tools.ts:97` warns.

### Disagreements with the documentation

Each is a run that TLC finds violated.

* `async_write_doc`: a failed `write()` rejects (`async-api.ts:322-324`); the comments at
  `async-api.ts:298` and `:88` say it resolves to `SRT_ERROR`.
* `server_peers_doc`: the README (`README.md:141` of the repository) offers a server for
  multiple incoming connections; `NodeSRT::Accept` closes the listener after the first.
* `server_usable_doc`: the connection given to `'connection'` listeners has no `AsyncSRT`:
  `getReaderWriter()`, `read()` and `write()` throw that it is closed already.
* `rw_giveup_doc`: `anyFailures` in `readChunks()` is never set, so the branch that is to
  evade an infinite loop is dead, and the loop never ends on a connection that is down.
* `tools_copy_doc`: `sliceBufferToChunks()` appends an empty chunk whenever the last one is not
  full (`tools.ts:18-21`), for which `copyChunksIntoBuffer()` then says that a target of exactly
  the right size is too small (`tools.ts:60-62`).

Other observations made while modelling, which no run checks:

* a second `dispose()` of an `AsyncSRT` resolves to `NaN` while the first still runs, and
  the first never resolves if the only call in flight timed out inside a native call that
  does not return;
* a `write()` made during a disposal reports bytes it never posted (`async-api.ts:206-211`,
  `321-325`), and a failed `accept()` during the disposal of a server is announced as a
  connection with descriptor -1 (`srt-server.ts:254-265`);
* a connection that breaks stays in `_connectionMap`, because `close()` returns before it
  emits `'closing'`;
* `SRTSocketAsync.dispose()` before `create()` has completed leaves the `AsyncSRT`, and then
  the socket, alive for good; otherwise it drops the result of `close()`;
* two overlapping `create()` both pass the guard that forbids calling it twice
  (`srt-socket-async.ts:39-47`), and one of the two native sockets is lost;
* the comment on `dispose()` says that it throws when closing fails and can be retried
  (`srt-socket-async.ts:57-58`); it does neither, since it ignores the result of `close()` and
  returns at once when called again;
* a second `open()` of a server closes its listener, and the `accept()` queued at that moment
  fails and is announced as a connection with descriptor -1;
* the yielding loop rejects with writes of its last tick still in flight, and the explicit
  scheduling has returned before a chunk is sent;
* the empty chunk at the end of a sliced buffer is also given to `write()` by `writeChunks()`;
  `chunkMaxSize = 0` gives no chunks; a last chunk that does not fit a target is cut off
  without an error (`tools.ts:60-63`);
* `waitForCondition()` gives `setTimeout()` an absolute time (`tools.ts:155`), which is beyond
  what a timer can take, so that any time limit fires after a millisecond; `WaitEnds` asks
  whether the wait ends, not when;
* the comment at `tools.ts:97` says that `waitForCondition()` hangs for ever when `condition` does.
  That is so without a time limit; with one (`timeoutIn` or `timeoutOn`) the timer resolves the
  promise (`tools.ts:152-155`), and only the loop stays in the condition;
* the read stream does not expect the library to close a broken socket first: in the interval
  `close()` throws then (`srt-stream-readable.ts:73`), before `push(null)`, so that the stream does
  not end, and in `_destroy()` (line 196) it throws before `_fd` is reset and the scheduled read
  cleared, so that both stay, for a caller too: that read fails once more and schedules nothing;
* where reads of the listener do not block, the `accept()` of a peer that has left the backlog
  fails and closes the listener: the server announces it as a connection with descriptor -1, and
  the interval of a read stream throws; both poll on;
* destroying a read stream before it has a connection neither closes it nor its socket, and
  leaves the interval armed: a later peer is accepted and handed to the destroyed stream;
* in listener mode `_destroy()` closes the listener again, which throws, and the accepted
  connection stays open;
* where reads do not block, "no data yet" is an exception and destroys the read stream: the
  branch for -1 (`srt-stream-readable.ts:154-160`) is never taken;
* a write stream emits `'close'` only if closing throws, since `_destroy()` takes no callback;
  a second `connect()` on it closes the connection natively while `_fd` still names it.

## Proofs

`AsyncSRT_proofs` proves, for every finite set of calls and from `CallsAssumption` only
(calls are finitely many; `NoCall` is none of them; a write has no timeout, as the API
offers none):

| Theorem | States |
|---|---|
| `TypeCorrect` | `TypeOK` |
| `LockLevelIsExact` | `LockCounts` |
| `ExcessIsExact` | `QueueExcess` |
| `DisposeStrandsNobody` | `NoneStranded` |
| `SettledForGood` | a settled promise keeps its outcome and the call whose result it has |
| `QueueIsAligned` | `Aligned` |
| `EveryAnswerIsOwn` | `OwnAnswer` |
| `ReportedWritesWereSent` | `ReportedWriteWasSent` |
| `Refinement` | `ImplementsChannel` |

Two inductive invariants carry them. `LockInv` strengthens `LockCounts`: that a call is
counted once and gives the lock back once rests on timers being armed for pending
promises only (`TimersPending`), on queued callbacks belonging to calls that were made
(`QueuedWasMade`), on a callback being queued once (`Distinct`), and on every pending
promise having its callback in the queue of a live instance (`PendingQueued`); the last
part is `NoneStranded`. `AnswerInv` is `Aligned`, with
`OwnAnswer`, `AnsweredWasExecuted` (only what was performed is in `outbox` or has
resolved anything) and `Running` (the thread is not stopped before the main thread has
detached it, so that no answer is dropped while the queue waits for it). Alignment rests
on four lemmas about sequences: what is appended to the last queue, or moved from
the head of one to the end of another, leaves their concatenation as it should be.
`ExcessIsExact` follows from the same facts by counting: each action adds one to the queue and
to one side of the equation, or takes one from both.
For the refinement, the calls `performed` by the channel are those in `outbox` and then the one
in the worker, so that handing a result over is a stutter and `OnWorkerMessage` is `Answer`, or
`AnswerLate` when the timeout came first. `StatusStep` turns the change of one promise into the
change of one status, and every action maps to an action of the channel or to a stutter; what
the worker holds when it is terminated is discarded.

`AsyncLoop_proofs` proves, for every finite set of calls, from `CallsAssumption` only:

| Theorem | States |
|---|---|
| `LoopRefinement` | `ImplementsLoop` |
| `ErrorsAreOwn` | `ErrorIsOwn` |

A turn is a step of `AsyncSRT` (`TurnsAreSteps`), so that its theorems and invariants hold here.
`LoopInv` adds that the continuations to be run belong to settled promises, and that the
stored error is that of the result they were given, because one answer is taken at a time and its
continuation runs before the next; and that nothing is in flight once the instance is disposed of,
unless a call had timed out or been refused. That a call which was answered cannot fail later
needs `OnceInv`: a call is performed once. Until a timeout or a refusal the promises pending are exactly the calls in flight
and the holders of the lock (`InFlightPending`): the counter that `dispose()` polls says whether the
loop is empty, and the callback at the head of the queue is that of the answer (`AnswerStep`).
There is a lemma for each action of the loop; those on `Each` say what appending to a queue and
taking from it does to what is looked up for its elements, and `ReadyKept` that no step changes
what is looked up for calls performed or settled.

`SRTSocketAsync_proofs` proves, for any number of `create()` and any set of descriptors, from
`SocketAssumption` (descriptors, `Null` and results differ; the invocations of `create()` are
not named like the other continuations):

| Theorem | States |
|---|---|
| `TypeCorrect` | `TypeOK` |
| `OnlyTransfersBehindClose` | `NothingBehindClose` |
| `NoSocketIsLost` | `OwnsWhatItNames` |

`CloseInv` states the order of the close for each of the three queues and between them,
because a call passes from one to the next: nothing but transfers is behind it, and once it has
been answered transfers alone are anywhere. `AsyncSRT` is disposed of after that, which is why no
other call is ever rejected. `OwnInv` follows a socket that the object cannot name
yet: as long as nothing has overlapped, a `create()` is alone in the loop, with the one socket
that is open as its answer, and the close is that of the object's socket, so that none is open
when it has been answered.

`SRTServer_proofs` proves, for every finite set of peers and any number of `open()` calls, from
`NodeSRTAssumption` (peers, finitely many, the listener and the two results differ) and
`SRTServerAssumption` (`undefined` and a rejection are told apart from what native calls give):

| Theorem | States |
|---|---|
| `TypeCorrect` | `TypeOK` |
| `EveryEventIsMapped` | `EventsAreMapped` |
| `NothingIsRejected` | `NeverRejected` |

A connection is watched by the epoll before it is in the map. `MapInv` says why no event is
about one that is not: the answer to the `epollAddUsock()` that made it watched is
ahead, in the queue, of the answer to every poll that reports it, and it maps the connection
before the loop takes the next answer. The sets `CallSet` and `ResumptionSet`
say, in terms of the map, what is in each queue; `ResumedOK` that the continuation of a poll or of
the close runs alone, so that the disposal finds nothing else resumed; and `FieldInv` that the
connections in the map were announced and that a disposed `AsyncSRT` has nothing in flight.

`SRTServerAccept_proofs` proves, from the same assumptions:

| Theorem | States |
|---|---|
| `OneLoopOnly` | `OnePollLoop` |
| `AcceptFindsItsPeer` | `AcceptWillNotBlock` |
| `ConnectionsWereAccepted` | `AnnouncedWasAccepted` |

That no second `accept()` is queued cannot be said of the `accept()` calls alone: each comes at
the end of a chain of awaits (`epollUWait()`, `getSockState()`, `accept()`) that starts over with
every poll while an earlier chain is still under way. `ListenerInv` follows the chains through
the three queues:

* `LoopInv`: the polls, and the calls of `_open()` that will lead to one, are one altogether.
  An `open()` gets there by a `bind()` that did not fail, which only a listener in its
  initial state grants; `BindInv` says that each `open()` calls `bind()` once.
* `ReportedInv`: a handler of the listener exists only after a poll has reported it, and
  then the backlog was not empty: the peer is there, or has left, or the listener was closed.
* `CheckInv`: while the listener listens, there is one handler at most before `accept()`, and it
  is ahead of the poll that could report the listener again; one that comes
  later is behind the `accept()`, which closes the listener, so that it finds another status.
* `AcceptInv`: hence one `accept()` at most, queued or about to be.
* `OpenInv`: with one `open()` and no disposal nothing closes the listener before that `accept()`.
* `NativeInv`: the listener is never connected, and not watched once it is closed, so that the
  library, which closes and forgets connections, leaves it alone.

`AcceptedInv` carries the result of that `accept()` to `'connection'`: whatever is to be watched
or mapped is a socket that `accept()` has made, or -1 where a peer has left, or the listener was
disturbed. The lemmas
on `None`, `AtMostOne` and `Before` say what appending to a queue and taking from
it does to each part; `MainThreadKeeps` uses them once for all steps of the main thread, which
take one resumption and append calls that are listed per action.

`AsyncReaderWriter_proofs` proves, for any number of chunks, any `writesPerTick`, any sizes of
messages and both write modes, from `TransferAssumption` (the numbers are positive, and no result
that is not a size is a number):

| Theorem | States |
|---|---|
| `TypeCorrect` | `TypeOK` |
| `ChunksKeepTheirOrder` | `WritesInOrder` |
| `ResolvesWhenSent` | `ResolvedMeansSent` |
| `TickBound` | `TicksAreBounded` |

`WriteInv` follows a chunk from `write()` to `onWrite`: `OrderInv` says that what was sent precedes
what is still to be performed, `WrittenInv` that what was reported precedes the resumed
continuations, those the answers and those the calls, and that no chunk handed to `write()` is
missing from all of them; `SentInv` that one which was not sent either is still to be
performed or has failed; and `YieldInv` that all writes in flight are of one tick, which
`Promise.all()` awaits unless it has rejected. Hence the bound: the chunks in flight differ,
because the queues rise one after the other, and lie in an interval of `writesPerTick` numbers.
The lemmas `AppendQueue`, `TakeQueue` and `TickQueue` say what each operation of a queue does to
the chunks in it; reads are about no chunk and leave them as they are.

`Streams_proofs` proves, for every finite set of peers and any number of chunks, from
`NodeSRTAssumption`, `ReadStreamAssumption`
(no socket is `Null`) and `StreamsAssumption`:

| Theorem | States |
|---|---|
| `StreamsTypeCorrect` | `StreamsTypeOK` |
| `HandedOverOnceOnly` | `HandedOverOnce` |
| `DestroyedIsFreed` | `DestroyFrees` |
| `NoGapInWrites` | `NothingLeftOut` |

That a read stream is handed over once is not inductive: it depends on the epoll never
watching more than one socket that could report data. `OneConnection` says that it
watches the listener until that is closed, and the one accepted connection at most then, which the
library may close; `InOrder`
says how far `listen()` has come at each `pc` and that the interval and the handlers run
without a connection; `NotAgain` that a stream that was handed over has no interval and a
socket that neither connects nor listens again. Each native operation has a lemma of what it
does to these. `DestroyedIsFreed` needs `CallerInv` besides: the socket of a
caller is closed by `_destroy()` or, once it broke, by the library, and can neither connect nor listen a
second time, so that no call made afterwards names it again or arms its read timer; where the
library was first, `_fd` still names the closed socket, and a read that is scheduled fails. For the writer, `WriterInv` adds to `NothingLeftOut` that all chunks
offered were sent unless a write hangs or the stream was destroyed.

`Tools_proofs` proves, for all sizes, offsets, limits and clocks that satisfy
`ToolsAssumption` (limits are positive; `Infinity` exceeds every time that is
reached; `Epoch` exceeds `MaxDelay`):

| Theorem | States |
|---|---|
| `TypeCorrect` | `TypeOK` |
| `AttemptsAreReported` | `AttemptsReported` |
| `SlicingAndMerging` | `SliceAndMerge` |

`WaitInv` relates `attempts` to the loop counter at each `pc`, and says that a promise resolved
by the timeout has recorded the attempt being made, after which none follows. `SliceInv` is the
invariant of the slicing loop: the chunks so far are contiguous and end at `offset`, or at the
end of the part asked for where `offset` is past it; so it covers the iteration that comes too
late. `CopyInv` says that the target holds a beginning of
what was sliced up to `at` and nothing behind it.

Only model-checked: liveness, which is out of the prover's reach. Every invariant, action
property and refinement that a run checks is a theorem.

## Not modelled

Statistics, socket flags and log levels, which the library keeps and this code passes on;
loading, types and logging. `PROJECT.json` says why for each. Encryption, congestion and the
timing of SRT are the library's. Memory is not modelled: `NodeSRT::Read` keeps its buffer when
`srt_recvmsg()` fails (`node-srt.cc:218-222`). `writesPerTick = 0` is excluded by an assumption;
with it the yielding loop would spin in microtasks for ever. How long a native call holds up the
main thread of the streams is not modelled, only that it does. The values of bytes are not:
a byte is its position.

## Plan

1. `SRTServer`: an `open()` that overlaps `create()`, as a composition with `SRTSocketAsync`.
2. Theorems: that the continuations of `SRTServer`, `SRTSocketAsync` and `AsyncReaderWriter`, each
   of which makes its calls in one step, are runs of `MakesCall` and `Ends`, so that they can be
   composed with `AsyncLoop` in one theorem.
