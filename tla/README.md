# Specifications of harness-transport

TLA+ specifications of the message transports in this repository, TLC
configurations that check them on small instances, and proofs that TLAPS
checks for instances of any size.

harness-transport lets one process put a message into another agent session
on the same machine. It speaks two protocols: JSON lines over the Unix socket
of a Claude Code session (`udsmsg`), and JSON-RPC over a WebSocket to the
Codex app-server daemon (`codexmsg`). `deliver` puts one interface over both
for MCP servers; `cmd/claude-send` and `cmd/codex-send` are the command-line
tools.

## The system

| Component | State | Operations | Interacts through |
|---|---|---|---|
| codexmsg client (`codexmsg/client.go`, `jsonrpc.go`, `methods.go`) | `nextID`, the `pending` table, `closed`, `err`, `done`, `writeMu`, a one-slot channel per call | `Dial`, `Call`, `readLoop`, `fail`, `write`, `Close`, `Initialize`, `QueueMessage` | a socket to the daemon; channels and two mutexes between goroutines |
| WebSocket framing (`codexmsg/ws.go`) | `wsConn`: connection and reader; `buf` and `msgOp` inside `ReadMessage` | `wsHandshake`, `writeFrame`, `readFrame`, `ReadMessage`, `Close` | called by the client from several goroutines |
| Codex delivery backend (`deliver/codex.go`) | `thread`, `disabled`, the cached `client` | `Adopt`, `Available`, `Fits`, `Deliver`, `connect`, `Close` | the codexmsg client; MCP request handlers call it concurrently |
| uds inbox server (`udsmsg/server.go`, `frame.go`) | `closed`, listener, wait group; per connection `first`, the deadline, `Peer.Authed` | `Listen`, `Serve`, `Start`, `handleConn`, `dispatch`, `readLine`, `Close` | one goroutine per connection, callbacks into the owner |
| key file and session registry (`udsmsg/keyfile.go`, `session.go`) | files | `writeKey`, `ReadKey`, `removeKey`, `PublishSession`, `UnpublishSession` | other processes read the files |
| claude-send (`cmd/claude-send/main.go`) | options, replies channel, exit status | `run`, `resolve`, `send`, `accepter`, `await` | inbox, client, key file, registry, context |
| uds client (`udsmsg/client.go`) | one connection | `Dial`, `Send`, `SendUser`, `BuildUserFrame`, `Close` | another session's inbox |
| Claude delivery backend (`deliver/claude.go`, `deliver.go`) | socket, token, name, mode | `Available`, `MaxIntactBytes`, `Fits`, `Deliver`, `compose` | uds client, `/proc` |
| codex-send (`cmd/codex-send/main.go`) | none of its own | connect, initialize, queue | codexmsg client |
| attribution envelope (`udsmsg/attrib.go`) | none | `Wrap`, `Unwrap` | text of a user frame |
| addresses, discovery, process identity (`addr.go`, `discover.go`, `proc.go`) | none | `ResolveTarget`, `Alive`, `ProcStart`, ... | `/proc`, file system |
| peer credentials, file ownership, identifiers | none | one system call or random bytes each | |

What is hard here:

* **Concurrency.** `Call`, `readLoop`, `fail` and `Close` race for the table
  and for the channels in it: a send on a closed channel, or a second close,
  would end the process. Two `Deliver`s race to dial. `Adopt` races
  `Deliver`. Two goroutines of claude-send race to close the inbox.
* **Failure.** The daemon dies, stops reading, answers late or twice, or
  stores a message whose receipt is lost. The process is killed while it
  writes its key file. A session dies and leaves its socket and key behind,
  and its pid comes back as another session.
* **Ordering.** `first` and `Authed` decide what a line may do by its
  position on the connection. The key file's name is derived from a path that
  `Close` has just removed. Control frames arrive between fragments.
* **Timeouts.** Contexts end while a response is between the table and the
  channel. The read deadline cuts a line in two. The end of claude-send's
  window races the last answer.
* **Boundaries.** The length of a frame is encoded in three ways. JSON inflates
  a message up to sixfold under a cap on the line. A message may quote the
  envelope and the trailer it is wrapped in.

`PROJECT.json` lists each of these as a hazard at its line, with the
properties that watch it.

## Modules

One step of a model is what the code does between two points where another
goroutine or process can get in: a critical section, a channel operation, a
read or a write. Definitions keep the names of the code where they can.
A definition marked *Mutant* is a plausible mistake in the definition that
follows it; no model uses it. It is there so that each property can be seen
to fail when the code is wrong.

### CodexClient and RpcClient

`CodexClient` is `client.go`. A member of `Calls` is one invocation of `Call`,
a member of `Closers` one of `Close`; `Reader` is `readLoop`. `pending`,
`closed`, `err`, `doneClosed`, `nextID` and `writeMu` are the fields of
`Client`. The channel of a call is `buf[c]` (its one slot) and `chClosed[c]`.

| Code | Actions |
|---|---|
| `Call` up to its lock; a failed `Marshal` or the critical section | `CallBegin`, `CallRegister` |
| `write` | `CallLock`, `CallWrite` |
| a failed write, `select`, the two ways out of it | `CallUnsent`, `CallCancelled`, `CallCancel`, `CallReceive`, `CallWoken` |
| `readLoop` | `ReaderRead`, `ReaderReadFails`, `ReaderTake`, `ReaderSend`; `ReaderPong` and `ReaderEcho` for the control frames `ReadMessage` answers |
| `fail` | `FailEnter`, `FailCloseChan`, `FailDone` |
| `Close` | `CloseBegin`, `CloseFrame`, `CloseConn`, then `fail` |

The daemon is external: `DaemonAnswers` (any request it has had, again if it
likes), `DaemonTalks`, `DaemonStalls` (it stops reading, so that writes
block), `DaemonGone`.

`RpcClient` says what a caller may rely on, without tables or channels: a
call that returns a response was asked, one that returns a send error never
was, the closed error means the client is down, the context's error that the
context ended. `ImplementsRpc` is the refinement, by the mapping at the end of
`CodexClient`.

### CodexBackend

`deliver/codex.go`. A member of `Delivers` is one invocation of `Deliver`, and
stands for its message and for the connection it may dial. `thread`,
`disabled` and `client` are the backend's fields. A `Deliver` goes through
`Check` (`Available`), `Latch` (the second lock, and `Fits`), `Connect`, `Dial`,
`Initialize`, `Install` or `CloseSurplus`, `Queue`, `Answered` or `Unanswered`,
and after an error `Take` and `ShutHeld`, which are `Close`. A connection is
used by what `RpcClient` promises: no response without a request, and any call
may end in an error. `DaemonQueues` and `DaemonOutage` are external.

### UdsServer

`udsmsg/server.go`. A line is its kind, which is all that `decodeFrame` and
`dispatch` tell apart. `Fate` is `dispatch` in the order of its early returns;
`Turn` is one turn of `handleConn`'s loop, shared by the four ways `readLine`
can return (`ReadLine`, `ReadTooLong`, `ReadEnd`, `ReadTimeout`). `log` records
what was dispatched and with what result. `Accept`, `ServeClosed`,
`ServeReturns`, `CloseBegin` and `CloseListener` are `Serve` and `Close`. The
peers are external: they dial, send a line in two halves, and hang up.

### CodexSend

`cmd/codex-send/main.go`, composed with `CodexClient`: it EXTENDS that module
and adds where `run` stands and the status it returns. `main` is the caller of
both calls and of the deferred `Close`, so its steps are those of `CallStep`,
`CloseStep` and `FailStep`, in the order of `run`; `readLoop`, the daemon and
all their failures are the client's. `Timeout` ends the one context that both
calls share.

### WsFrame and WsConn

`WsFrame` is the bytes of a frame as pure operators: `Header` and
`LengthBytes` (with `Short` and `Long` for `PutUint16` and `PutUint64`) for what
`writeFrame` builds, `ReadHeader` (with `Uint16` and `Uint64`) for what
`readFrame` makes of it, `Masked` for the payload. Lengths are below 2^31, far
above the cap of the code.

`WsConn` is one connection with everybody who uses it. `CallerBegins` is
`Client.write`, the only one that takes the lock; `CloserBegins` is
`wsConn.Close`; `WriteHead` and `WriteBody` are the two `Write`s of
`writeFrame`. `ReadData`, `ReadContinuation`, `ReadControl`, `ReadPong`,
`ReadUnknown` and `ReadFails` are the turns of `ReadMessage`, over every
sequence of data, continuation, control and unknown frames; what it has to
answer it writes through the same two steps. Beside what the code keeps the
module records what the sender meant (`meant`, `pings`) and whether its
sequence broke into a message after some bytes of it (`broke`).

### ClaudeSend

One run of claude-send: `Parse`, `Resolve`, `CheckTarget`; `Bind`, `WriteTmp`,
`RenameKey` and `KeyFails` for `Listen` and `writeKey`; `Start`, `Announce`,
`Dial`, `SendUser`; `AwaitTimeout` and `AwaitReply`; then the deferred calls,
`Unpublish` and `CloseMain`, `CloseMainSocket`, `CloseMainKey`. `Watch`,
`WatchSocket` and `WatchKey` are the goroutine in `Serve` that closes the inbox
when the context ends. `FrameArrives` and `Deliver` are the handlers, which
block on the replies channel when it is full.

### ClaudeDeliver, Envelope and LineCap

`ClaudeDeliver` is how a message finds a session. Sessions are processes that
start under a free pid, bind a socket in one of the socket directories,
publish a key, close in the order of `Server.Close` or die and leave their
files; they are external and behave like the inbox of `server.go`. A process
stands for its start time and its token. `ProcStart` may fail: for a session
that publishes, whose key file then has no start time (`keyStart`), and for
whoever tests one. `Deliver` of `deliver/claude.go` is
`DeliverChecks` (`Available` and the size limit), `DeliverReadsStart`, and
then `Dial`; claude-send is `SendBegins` (`SendFinds` for `--to`, `SendTakes` for
`--to-socket`), `SendReadsKey`, `SendChecks`, and then `Dial`. `DialTests` and
`DialConnects` are two steps, because the target may change between them.
`SendUser` writes, `SessionReads` is what `dispatch` does with it. The history
variables `goneBefore` and `goneTested` remember which processes were gone when
an invocation began and when Dial tested its target.

`Envelope` is `compose`, `Wrap`, `scrubName` and `Unwrap` on sequences of
tokens, where a token is a piece of text that one of the patterns can tell
apart. `Pick` is `strings.Map`: the tokens at a set of positions, in their order.
`Found` is what `FindAllStringSubmatch` finds for `attrRe`: the set of matches in
which a match is exactly when it begins after the end of every one before it.
`LineCap` is the arithmetic of sizes: what `compose` and `Wrap` add, how
far JSON inflates each kind of byte, and the three limits (`MaxIntactBytes`,
`encodeFrame`, `Fits`). Both are extended by `ClaudeDeliver` and are checked by
its run.

## Runs

| Run | What it shows |
|---|---|
| `codex_client` | Channels are used safely, answers reach their own call, nobody is stranded, the table does not leak, and the client implements `RpcClient`. Two calls, one closer, one unread message, every kind of chatter. |
| `codex_client_live` | A call returns after the daemon has gone, after its context has ended unless the daemon has stopped reading, and after one of two racing closes has returned even then. |
| `codex_send` | Exit status 0 means that the daemon accepted `initialize` first and answered for this message; the command ends. |
| `codex_backend` | No connection leaks or is reused after failing on it, nothing is queued before `initialize` or to a second thread, receipts are honest. Two delivers, one close, two thread ids, two outages. |
| `codex_backend_error` | *Violation*: an error from `Deliver` for a message that did arrive. |
| `uds_server` | Authentication gates the callbacks, nothing is dispatched after a connection's last line; an idle connection is dropped, and `Serve` waits for its handlers and returns once the peers are gone. One connection, every kind of line, three lines. |
| `ws_conn` | Requests of different callers never run into each other; messages come out whole, in order and at once, pings are answered with their payload, a message that breaks into another is refused; `readFrame` reads what `writeFrame` wrote. Two callers, a closer, three frames. |
| `ws_conn_ping` | *Violation*: a control frame lands inside a request. |
| `claude_send` | No half-written key file, honest exit statuses, no files left behind unless the end of the process overtakes another `Close`, and an end whoever floods the inbox; with a kill at any step. |
| `claude_send_exit` | *Violation*: the process exits while the other `Close` still has the socket and the key to remove; in a directory behind a symbolic link, where the key file would stay besides. |
| `claude_deliver` | A connection goes to the process whose start time was tested unless that one exits between the test and the connect, and a key that outlived its publisher carries nothing, however pids and paths change hands; what is unwrapped is what was wrapped; a message within the floor fits the line. Three sessions, two pids, two directories. |
| `claude_deliver_recycled` | *Violation*: a delivery reaches a session that took over the parent's pid and path. |

A *violation* run states what a comment or document of the repository says,
and finds the behaviour of the code that differs; `PROJECT.json` quotes the
line under `findings`.

### Limits the properties respect

In these places the code does less than a reader of its comments may expect.
The models contain the behaviour, and the properties are stated so that they
promise no more than the code does.

* `Call` looks at its context only after its write, which has no deadline. A
  daemon that stops reading therefore keeps a call past its timeout (`codex-send`
  documents its timeout as "give up after this long"). `ContextBoundsCall` and
  `Exits` of `CodexSend` leave out a daemon that has stopped reading,
  `CloseWakesCalls` does not.
* `ReadMessage` tells a message in progress by the bytes collected so far, and
  a first fragment may be empty. `BrokenMessageRefused` therefore speaks of
  messages with some bytes. A message that breaks into one of empty fragments is
  read in its place; `MessagesIntact` says that no byte is lost by that.
* `Fits` and `Deliver` disagree. `Deliver` refuses by `MaxIntactBytes` even where
  `Fits` has measured the message and found it small enough, and counts the
  trailer with the body, so that a body of exactly `MaxIntactBytes` is refused.
  `Fits` in turn leaves the `from_mode` of the frame out of its measure.
  `FloorHolds` says what callers can rely on: what `Deliver` accepts fits.
* Nothing bounds a sender's name. One of more than about 7600 bytes, as
  JSON encodes it, eats up what
  `claudeOverhead` sets aside, and `encodeFrame` may refuse a message within the
  floor; `FloorHolds` is about shorter names.
* A session that does not require authentication takes a message with a wrong
  token, and so `RecycledPidRefused` fails.
* claude-send trusts the start time in a key file. Without one, because there is
  no key for the path or because its publisher could not read its own start
  time, nothing but the token ties the connection to a process; `StaleKeyRefused`
  and `MisledOnlyByExit` are about targets with a start time. Even these may
  exit between the test and the connect, and another session bind the path in
  between: `MisledOnlyByExit` says that this is the only way to be connected to
  another process. A stale socket in an earlier directory hides a
  session's socket in a later one until it is removed.
* `Deliver` looks at `disabled` before it connects. A delivery that is past
  that point goes to the first thread after a second one has disabled the
  backend; `NoRedirect` says that it does not go to the second.
* What the read deadline cuts off of a first line is dispatched, as a line is
  that ends with the stream.
* `Server.Close` leaves accepted connections alone. Their callbacks go on, and
  `Serve` returns only when the last of these peers has hung up (`ServeDrains`).
* When claude-send's context ends, `Serve`'s goroutine and the deferred call
  both run `Close`. The second returns at once, and the process may exit before
  the first has removed the files. `RemovedOnExit` therefore fails;
  `CleanUnlessCutShort` says which files may stay, and that this is the only
  reason but for a symbolic link: `Close` removes the socket before `removeKey`
  resolves its path, and then makes another name for the key than `writeKey` did.
* When an answer and the end of the window are ready together, `select` may
  pick either, and the status may be 4 with an answer unread. `StatusMeansAnswer`
  says that nothing is left unread before that; of the answers that arrive at the
  very end it speaks of those that `await` has read, while `src/README.md` has the
  status 0 whenever anything arrived.

### Bounds

* `MaxInbox = 1`: the daemon has at most one unread message. Which messages
  follow each other is unbounded (every message that is read makes room), so
  late, duplicate and unsolicited responses all occur. Two calls are enough
  for a response to go astray, one closer and `readLoop` for two `fail`s to
  race. The proofs do not depend on any of these.
* `MaxLines = 3`: the rules of `dispatch` tell apart the first line, the lines
  after it and the line after a rejection.
* `MaxOutages = 2`: the daemon goes away and comes back, so a stale cached
  connection meets a daemon that answers.
* `MaxFrames` in `WsConn` is 3: a first fragment, a control frame and a
  continuation, or a message that breaks into another after one of them, each
  while two callers and a closer write.
* `FrameRoundTrip` takes the lengths on both sides of every place where the
  encoding changes, and of the cap. A byte is one bit for masking, since
  exclusive or works on each bit alone; payloads up to five bytes wrap around
  the four of the mask.
* `EnvelopeRoundTrip` takes all names of up to three tokens and all bodies of up
  to two, with longer bodies that quote a trailer, an envelope or its end.
* `FloorHolds` takes bodies from 110 bytes below to one byte above the floor,
  which is where the trailer can tip them over, of each kind of byte and of
  two kinds mixed; the caps are those of the code.
* Three sessions in `ClaudeDeliver`: the parent, one that takes over from it or
  lives beside it, and one more to take over again, with authentication
  required and not. One invocation is followed at a time: invocations share
  nothing, and sessions see nothing of them before they write.
* `Cap = 1` for the replies channel, 16 in the code: three frames then fill it
  and block a handler.
* Symmetry is used for calls, delivers, threads and callers, in runs that
  check no liveness.
* One connection in `UdsServer`: connections share nothing but `closed`, the
  listener and the wait group, and the safety properties are proved for any
  number of them.

Deadlock is not checked in any run: every one of these systems may come to
rest, when all calls, deliveries or connections are over.

### Fairness

Goroutines that can run do run: weak fairness on the steps of each call once
begun, of `readLoop`, of `fail` and `Close`, of the inbox's goroutines and of
the main goroutines of claude-send and codex-send. The read deadline of a
connection passes in the end, and the timeouts of the two commands do; the
connection that claude-send writes to has the context's deadline, so
`SendUser` ends as well. Nobody is obliged to start a call or a close. The
daemon and the peers owe nothing: they need not answer, read or hang up.

## Proofs

Eight modules hold proofs. Each theorem `Spec => []P` rests on an inductive
invariant `IInv` of its module: it holds at the start, every action keeps it
(one lemma per conjunct, one step per action), and it implies `P`. The
invariants were model-checked on the instances of the runs before they were
proved. The numbers in the runs (how many calls, delivers, callers, frames,
sessions) play no part in the proofs.

| Module | Assumptions on the constants | States for every instance |
|---|---|---|
| `CodexClientProofs` | `ReaderApart`, `NoneApart`, `ChatterKinds` | `TypeOK`, `NoChannelPanic`, `ReaderNeverBlocks`, `OwnAnswer`, `NoLostWaiter`, `NoPendingLeak`, `ClosedIsFinal`, `ImplementsRpc` |
| `CodexSendProofs` | the same, `SendCalls`, `SendCloser` | `StatusTellsTruth` |
| `CodexBackendProofs` | `NoneApart`, `ClosersApart` | `TypeOK`, `NoConnectionLeak`, `FailedNotCached`, `InitializedFirst`, `NoRedirect`, `HonestReceipt` |
| `UdsServerProofs` | `KindsKnown` | `TypeOK`, `AuthGate`, `LastIsLast`, `DeadlineUntilFirstLine`, `NoHandlerAfterServe` |
| `WsFrameProofs` | `CapInRange` | headers of every length, masking of every payload |
| `WsConnProofs` | `WritersApart`, `NoneApart`, `FrameBound`, `CapInRange` | `TypeOK`, `CallersSerialised`, `MessagesIntact`, `BrokenMessageRefused`, `FrameRoundTrip` |
| `ClaudeSendProofs` | `FrameSets` | `TypeOK`, `KeyWhole`, `StatusMeansAnswer`, `CleanUnlessCutShort` |
| `ClaudeDeliverProofs` | `SessionsKnown`, `PathsKnown`, `ProbeOrder`, `ClientsApart`, `NoneApart`, `CapsSensible` | `TypeOK`, `MisledOnlyByExit`, `StaleKeyRefused`, `FloorHolds`, `EnvelopeRoundTrip`; envelopes of every name and text |

### CodexClientProofs

The safety properties are not inductive by themselves. `IInv` adds

* `IdInv`: an id belongs to one call and is at most `nextID`. Without it two
  table entries could be about one call.
* `OwnerInv`: the channel of a call in flight is in one pair of hands, the
  table's, `readLoop`'s or that of the one running `fail`, and while it is,
  it is open and empty. This is the argument the code relies on for sending
  and closing outside the lock: whoever deletes the entry, under the lock,
  owns the channel.
* `MsgInv`: a response is about the call whose id it carries, from the wire
  to the channel. It rests on the daemon answering with the id it was asked
  under.
* `NoLostWaiter`: a call in flight is in the table or will be woken.

`KeepsThePromise` is the refinement of `RpcClient`. A step of the client maps
to a step of `RpcClient` or to none: `CallBegin` to `Begin`, a write that
reaches the daemon to `Ask`, the first `fail` to `GoDown`, a return to `End`.
That each `End` is one the abstract client may make needs two more invariants:
`AskInv`, a response anywhere between the wire and the caller belongs to a
call that was asked, while one whose write is still to come was not; and
`EndInv`, a call on its way out with `ctx.Err()` has seen its context end, and
a closed channel means a closed client. The abstract specification has no fairness, so this is all the
refinement asks for.

### CodexSendProofs

codex-send takes the client's own steps, except that its timeout ends both
contexts at once. `TimeoutKeeps` shows that the timeout disturbs nothing the
client's proofs rest on, so they carry over as they are. `RunInv` adds the
order of the two calls: the second has begun only if the first returned a
result.

### CodexBackendProofs

`NoConnectionLeak` is nearly inductive: whoever gives a connection away does
it in one step. The others need to know who may touch a connection. `Shared`:
whatever is cached or in use is initialized, and the `Deliver` that dialled it
is past `connect` and will not install it again; from this follows `Dropped`,
that a client taken out of the cache does not come back. `OneThread`: whoever
has read a thread has read the latched one, unless the backend has been
disabled since, and then no thread is latched again. `Sent` and `Echoed` tie
requests and responses to what the daemon holds.

### UdsServerProofs

The module also holds for either setting of `RequireAuth` and `AllowUnnamed`.
Beside the properties, `IInv` has `Dialled` (no handler without a peer) and
`Begun` (`first` and `Authed` say what the log of a connection says: `first`
holds until a line has been dispatched, and an authenticated connection began
with an auth frame). All the ways `readLine` can return go through `Turn`, so
one lemma about `Turn` serves four actions.

### WsFrameProofs and WsConnProofs

`HeaderReadsBack` says that `readFrame` reads back any header `writeFrame`
builds, for every length below 2^31, every opcode and every mask, and refuses
a length over `maxFrame`; `HeaderIsNeeded` that no shorter piece is taken for a
header; `MaskingUndone` that a payload of any length comes back. The run takes
the boundaries only.

For the writers, `Locked` and `Awaited` say that a header without its payload
is that of the caller who holds `writeMu` and is about to write it.

For the reader, `MessagesIntact` compares what was read with what was meant,
and the frames in between are still queued. An *account* is what either side
makes of the frames so far: complete messages, bytes of the one in progress,
pings. `Linked` says that there is a chain of accounts, one per queued frame,
that leads from the reader's account to the daemon's. Sending a frame extends
the chain at its end, reading one shortens it at its start, so the invariant
holds whatever the length of the queue, without an induction. As accounts only
grow along the chain, what has been read is a prefix of what was meant; with an
empty queue the two accounts are one, which is the rest of the property.
`Breaks` places the frame that breaks into a message on the same chain.

### ClaudeSendProofs

The proofs hold for any finite set of answers, any strangers among their
senders and any capacity of the replies channel, behind a symbolic link or
not, killed or not. `Counted` ties `await`'s counter to the answers it has read
and `Screened` says where these come from; `Settled` follows the status from
where it is decided to the exit. `Tidy` says, for each place in `run`, which
files there may be: those that a deferred call still to come will find, or that
the other `Close` is about to remove.

### ClaudeDeliverProofs

`MisledOnlyByExit` and `StaleKeyRefused` are about a state long after the test
that makes them true, so `IInv` carries the test's outcome along: `RunsLive` (a
pid belongs to a process that is not gone), `Homes` (a session that has bound is
the one with the pid of its path, and a socket file leads to the session that
bound it there), `GoneStays` (what was gone when an invocation began is gone for
good), `Places` (which of an invocation's variables are settled where) and
`Tested`: past Dial's test, a start time is not that of a process that had gone
before the invocation or the test, the process that has it still has the pid or
has gone, and the connection is to it or it has gone. Session steps leave
invocations alone and the other way round, which is a lemma each
(`ClientsStay`, `SessionsStay`).

`FloorForAll` is the arithmetic of the size limits for texts of any size and
mix of bytes and senders of any length that keep within `claudeOverhead`: each
byte grows at most sixfold, and the floor divides by `worstCaseEscape`, which
`CapsSensible` takes to be at least six. `FloorStands` applies it to the run's
deliveries; 530 bytes are what its longest sender takes.

The envelope comes first in the module, for any set `T` of tokens that holds
those `Wrap` writes:

* `EnvelopeSurvives`: `Unwrap` returns what `Wrap` was given, the text token by
  token, the address and the mode or none, and the name as `scrubName` left it,
  whatever text and name hold and however long they are; and an envelope with a
  token before or after it is none. A name may hold any token but the closing
  tag in one piece: the characters it is made of are tokens of their own, and
  `scrubName` removes them.
* `NameIsScrubbed`: a scrubbed name holds nothing that ends an attribute, a tag
  or a line, and no space at its ends. `CleanNameStays`: a name with nothing to
  remove stays as it is.
* `TrailerSurvives`: from its last opening bracket on, a composed text is the
  trailer of its own delivery, whatever trailers the body quotes.

`EnvelopeStands` applies the three to the run's deliveries. The tag grows
attribute by attribute (`Tag`, `TagGrows`) and nothing in it ends it (`Clean`), so
`TagEnd` finds the place where `Wrap` put ">". `Layout` says where each attribute
lies in the tag (`TagLayout`); every position belongs to one attribute
(`LayoutCovers`), so a match that is no attribute begins inside one, and by
`FoundAre` the attributes are what `FindAll` finds (`FoundFields`): a name that
quotes an attribute adds none. That the n-th kept token of a name exists
(`PickFrom`), that two sets of matches cannot first differ anywhere
(`FoundAre`), and that a set of positions has a first and a last one need the
natural numbers to be well founded. `Least` says it once, by the library's
theorem that a nonempty subset of a well-founded set has a minimal element; none
of the proofs needs induction beyond it.

### Only model-checked

* Liveness, and with it `ENABLED`, is out of the proof system's reach:
  `CallsReturnAfterLoss`, `ContextBoundsCall`, `CloseWakesCalls`, `Exits` of both
  commands, `IdleIsDropped`, `ServeDrains`.

Three theorems speak of the inputs that their run enumerates, and rest on ones
that speak of all: `FloorStands` on `FloorForAll`, `EnvelopeStands` on
`EnvelopeSurvives` and `TrailerSurvives`, `FramesReadBack` on `HeaderReadsBack`
and `MaskingUndone`.

## Not modelled

* JSON itself, and the contents of a registry entry, which nothing in the
  repository reads. A frame is its kind, its size or its tokens, as the
  property at hand needs.
* The HTTP upgrade in `wsHandshake`: a straight line before any concurrency,
  and a step of `Dial` that works or fails.
* The shapes of addresses and socket names (`addr.go`), `checkDir` and file
  ownership: regular expressions and system calls without state. The models
  have only directories that pass `checkDir` and names that carry a pid.
* Peer credentials: a system call whose outcome is a choice in `Accept` and
  `Accepted`. Identifiers: random bits.
* `Open`, which picks one backend or the other by an environment variable.

## Plan

1. *Done.* CodexClient with RpcClient and its proofs; CodexBackend; UdsServer
   and its proofs; ClaudeSend.
2. *Done.* CodexSend over the client; WsFrame and WsConn; ClaudeDeliver with
   Envelope, LineCap and its proofs.
3. *Done.* Proofs of CodexBackend, ClaudeSend, WsFrame, WsConn and CodexSend,
   of the refinement `ImplementsRpc` and of the size limits.
4. *Done.* The whole round trip of an envelope: names, attributes and trailer.
