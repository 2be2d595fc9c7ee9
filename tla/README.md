# Verification of exclave-core

exclave-core is a proxy: an inbound accepts a connection, the dispatcher routes
it to an outbound, and between the two run in-memory pipes, multiplexers and
transports with goroutines of their own. This directory holds TLA+ models of the
parts in which those goroutines meet, the TLC configurations that check them on
small instances, and proofs, checked by TLAPS, of what holds for every instance.
Every definition is written from the Go code; `PROJECT.json` gives the lines.

    tlc -workers 2 -config MCPipe.cfg MCPipe     # one run
    tlapm PipeProofs.tla                         # one set of proofs

## 1. The system

### Components and their state

| component | state | operations | hard part | what makes it correct |
|---|---|---|---|---|
| `transport/pipe` | buffer, state, two one-slot notifiers, done | Read(Timeout), Write, Close, Interrupt | critical sections and signals are separate | no data and no wake-up lost, truthful results, order |
| `transport/internet/kcp` transfer | sending and receiving windows, ack list, numbers | Push, Flush, Read, acks, pings | loss, duplication, reordering, wrap-around | a stream; nothing forgotten at either end |
| `transport/internet/kcp` connection | six-valued state, updaters, notifiers | Read, Write, Close, Input, flush, Terminate | unlocked read-then-set of the state, lost wake-ups, time limits | graceful Close, everything is torn down, calls return |
| `common/mux` client control | list of workers, sessions per worker, clean-up task | Dispatch, pick, Allocate, monitor, clean-up, Close | checks and actions in different critical sections | an accepted request is kept, limits, no panic |
| `common/mux` sessions | two session tables, copiers, one carrier reader per side | fetchInput/handle, fetchOutput/run, frame handlers | crossing frames, head-of-line waits, carrier failure | complete streams, sessions end at both ends, no deadlock |
| `common/signal` ActivityTimer, `common/task` Periodic | token, current task, mutex, Go timers | Update, SetTimeout, check, finish | ticks of replaced tasks | only the current task is left running, idle connections end |
| `app/dns` UDP nameserver, `common/signal/pubsub` | pending requests, cache, subscribers, raw channels | QueryIPWithTTL, QueryRaw, HandleResponse, Cleanup, Close | late answers, 16-bit numbers, Close in between | answers to their own question, a waiting query is woken, no panic |
| `app/stats` Channel | subscribers, closed signal | Subscribe, Publish, Start, Close | a goroutine per message | no send on a closed channel, delivery |
| `transport/internet/splithttp` server | upload queue (channel, heap, reader), sessions of the hub | ServeHTTP, Push, Read, Close, the reaper | any order, duplicates, gaps, a 30 s limit, two modes | bytes in order, nothing accepted is lost, requests and sessions end |
| `app/dispatcher`, `app/proxyman` outbound handler, `proxy/freedom`, `proxy/dokodemo`, `common/task` Run | links, cached reader, four copying tasks, two contexts and timers | Dispatch, sniff, route, Process, the ends of both sides | who ends which pipe when one side fails, finishes or falls silent | both directions are streams, success means complete, all goroutines end |
| `transport/internet/udp` dispatcher | one UDP entry | Dispatch, renew | a timeout against traffic | links end |
| `app/dns/fakedns`, `common/cache` | LRU map, next address | GetFakeIP, GetDomain | coming round while full | an address has one domain |
| core `Instance` | features, pending resolutions | AddFeature, RequireFeatures, Start, Close | failure half-way | callbacks once, all closed |
| `app/router`, `app/observatory` | rules, balancers, probe results | PickRoute, probes | stale results | first match |
| `app/proxyman` UDP worker | table of sessions, `inactive` flags, checker task | callback, getConnection, clean, removeConn, Close | flags set without a lock, a task that stops itself | one session per source, no entry without a session, idle sessions end |
| `app/proxyman` managers | handlers, workers | Add/RemoveHandler | removal against traffic | sessions end |
| `proxy/*`, other transports, `common/{buf,crypto,net,...}`, `infra/conf`, `main` | – | handshakes, framing, parsing | byte level | out of scope here |

### How they interact

* `app/dispatcher` makes two `Pipe`s for each connection; the inbound and the
  outbound each hold one reader and one writer. `common/mux` puts further pipes
  between its sessions and the carrier connection.
* Every proxy wraps its two copies in an `ActivityTimer`; each buffer copied is an
  `Update`, and the end of one direction is a `SetTimeout` to a shorter time.
* `ClientManager.Dispatch` → `IncrementalWorkerPicker` → `ClientWorker` → frames →
  `ServerWorker` → dispatcher. The picker's clean-up is a `task.Periodic`, as are
  those of the DNS nameservers and of pubsub.
* an mKCP `Connection` is a `net.Conn` to the proxies; its listener or dialer feeds
  `Input`, two `Updater`s flush.
* `tcpWorker.callback` → inbound `Process` → `DefaultDispatcher.Dispatch` → a goroutine
  that sniffs and routes → `Handler.Dispatch` → outbound `Process`: two tasks on each
  side, run by `task.Run`, copy through the two pipes. `Relay` composes them.
* `udpWorker` gives each source a `udpConn` and a goroutine of its own; its checker is
  a `task.Periodic` that stops when the table is empty.
* the splithttp listener turns HTTP requests of one session id into one connection,
  which the inbound reads like any other.

## 2. Modules

| module | models | remarks |
|---|---|---|
| `Stream` | what an ordered, reliable conduit promises | abstract; refined by `Pipe`, `KcpTransfer` and, twice, `Relay` |
| `Pipe` | `transport/pipe` | one step per critical section, signal and select |
| `KcpTransfer` | `sending.go`, `receiving.go` of one direction | numbers modulo `Mod`; which segments are due is free |
| `KcpConnection` | `connection.go`, `Listener.Close` | each reading of the state one step, each setting another |
| `MuxClient` | `client.go` without frames, `SessionManager` | the clean-up task in detail |
| `MuxLink` | `client.go`, `server.go`, `writer.go`, `session.go`: frames | both ends of one carrier |
| `ActivityTimer` | `timer.go`, `periodic.go` | first check in the caller with the mutex held |
| `Relay` | dispatcher, sniffer, outbound handler, freedom, dokodemo, `task.Run`, `tcpWorker` | one proxied connection from client to server, with both contexts and timers |
| `UdpWorker` | `udpWorker` of `app/proxyman/inbound/worker.go`, its `task.Periodic` | reads and settings of `inactive` are steps of their own |
| `Nameserver` | `nameserver_udp.go`, `pubsub.go`, records of `dnscommon.go` | both address families, raw queries, TCP retries, clean-up, Close |
| `SplitUpload` | `hub.go`, `upload_queue.go` | packet-up and stream-up, the GET, the reaper |
| `PipeProofs`, `KcpTransferProofs`, `KcpConnectionProofs`, `MuxProofs`, `RelayProofs`, `UdpWorkerProofs`, `NameserverProofs`, `SplitUploadProofs` | the theorems | each extends the module it is named after; `MuxProofs` extends `MuxClient` and `MuxLink`, `RelayProofs` extends `Relay` and `ActivityTimer`, so the names of `MuxLink` and `ActivityTimer` are kept apart by `Link` and `Timer` |
| `MCPipe`, `MCKcpTransfer`, `MCKcpConnection`, `MCMuxClient`, `MCMuxLink`, `MCActivityTimer`, `MCRelay`, `MCUdpWorker`, `MCNameserver`, `MCSplitUpload` | instances for TLC | |

Variables carry the names of the Go fields where there is one. A variable marked
"history" in its comment is not in the code: it records what the properties
speak of. Operators whose names contain an underscore (`Clear_inclusive`) are
slips: the definition after them with a plausible bug. No specification uses
them; each property is checked to fail when a slip replaces the code's
definition.

**Pipe.** `ReadMultiBuffer`, `WriteMultiBuffer` are calls; `WriterStep` and
`ReaderStep` are what a goroutine does next in its call: the critical section, the
signal after it, or the select. `WriterSignal` and `ReaderSignal` are
`Notifier.Signal`, a non-blocking send into one slot. A read with a timeout may
time out at any moment.

**KcpTransfer.** The sending end is `window`, `nextNumber`, `firstUnacknowledged`,
`remoteNextNumber`; the receiving end `cache`, `acklist`, `rcvNext`; `net` is a set
of segments. Receiving takes a segment out, `Duplicate` lets it stay, `Lose` drops
it, any order is possible. `processAck` runs over the numbers of an ack segment
one by one, as the code does with the lock held. Clocks, RTO and the congestion
window decide only which segments are due, which here is any subset.

**KcpConnection.** Threads are the two updaters, the goroutine that feeds `Input`
and the application's closer, reader and writer. `goal` is the state a thread is
about to set after having read another. `SetState` is two steps, as the code's stores of
the state and of its time are. `aged` and `silent` abstract the clock:
`Age` and `Silence` may happen whenever the code's clock could have passed a
limit. `flush` reads the clock once, at its beginning, and subtracts from it, unsigned,
times that others store: `late` has those stored since for each updater whose flush is
under way. Such a time may lie in a later millisecond, and then looks like one of long ago
(`Silent`, `Expired`); so may that of the previous state, between the two stores.

**MuxClient.** `pc` takes a dispatcher through `pick`, `start` (the clean-up is
started after the picker's lock is released), `check` (`IsFull`) and `allocate`.
`WorkerStep` ends a session, fails the carrier, or is a step of the monitor, whose
look at the size and `CloseIfNoSession` are separate steps. The tick that finds
the list empty is assumed not to fall between a dispatcher's adding of a worker
and its start of the task: ticks are 30 s apart and the dispatcher's step follows
at once. `Close` of the picker may come anywhere.

**MuxLink.** An end is a side and a session. `copier` is where `fetchInput` or
`handle` is, `reader` where `fetchOutput` or `run` is, with the frame in hand.
Pipes to applications are reduced to their states: `Pipe` is the subject of its
own module. The carrier is a FIFO of `Capacity` frames each way. `sessionsOf` and
`closedOf` are the fields of the `SessionManager` of each side.

**ActivityTimer.** `SetTimeout` replaces the task (with the mutex held) and starts
the new one, whose first `check` runs in the caller; `Fire`, `hasClosed`, `check`,
`Finish`, `Rearm` are the goroutine of a task's Go timer.

**Relay.** `in` is the inbound's side (dokodemo under `tcpWorker`), `out` the
outbound's (freedom under `Handler.Dispatch`). `fetch[s]` is the task that copies the
connection of side `s` to the pipe it writes, `deliver[s]` the one that copies the
other pipe to the connection; `pipe["in"]` is the uplink. `Cache` and `Sniffed` are
the sniffer, which reads the uplink before the outbound does; `cachedReader` gives
its data back first. `RunError` and `RunPasses` are the two results of `task.Run`
with what `Process` does next; `callback` and `HandlerEnds` are what their callers
do. Each task ends with the `SetTimeout` that it defers (`TaskSetTimeout`; `settled` has
the tasks whose call returned): `task.Run` and the closing of the pipe come after it.
It may block with the timer's mutex, as `timer_block` shows (`TaskSetTimeoutBlocks`,
`stuck`); then no other `SetTimeout` of the side returns, and its timer does not fire.
Pipes have the states of module `Pipe`; waits and wake-ups inside them are that
module's subject.

**UdpWorker.** The hub's goroutine calls `callback` for each packet (`getConnection`,
`Start` of the checker, `Spawn`). A session's goroutine goes through `process`,
`close`, `look` (reads `inactive`), `set` and `remove`; `Clean` is one pass of the
checker with the lock. `exec` holds where each firing of the checker's Go timer is,
so that a tick of the past can meet a restart. After Close the hub's goroutine still
serves the packets that its channel has. `selfEnding` says whether the proxy
ends sessions by itself, which some do and some leave to the worker.

**Nameserver.** A query looks into the cache, subscribes, sends one request for each
family it asks for and waits; `done` of its channel is closed once all are told, and
stays closed, so the loop looks again until it finds or its context ends. An answer
is handled in the steps of `HandleResponse`: raw channel or pending request, TCP
retry of a truncated one, `updateIP`, `Publish`. `ips`, `requests` and `channel` are
functions from keys. `now` counts in the unit of the TTLs, and so do `Deadline` (the 4 s of a query) and
`RequestLife` (the 8 s of a pending request), so that an answer may expire before the query
that asked for it; `till` is when those a query was told of do. An answer has addresses,
none (`"empty"`), an error code, or is truncated. `starting` are the handlers
that had stored an answer and not called `Start` of the clean-up when its timer was
set; the timer, a minute long, is assumed not to fire before they have, as otherwise the
answer could expire in between and `Start` would find nothing to do, which is a panic.
Time may pass by several units at once. The run has one handler; the proofs are for any
number of them.

**SplitUpload.** `request` is where each POST's handler is, `get` the GET's, `reaper`
the session's second goroutine, `app` the goroutine that reads the connection, with
`Read` cut at its selects. A packet is read in up to `Parts` pieces; its rest goes back
to the heap under the same number, as in the code. A packet may be sent twice, and
those outside `use.packets` never arrive. The 30 s limit, or the end of the listener, may
come before or after the GET (`Late`); with both cases of its select ready the reaper may
choose either. `another` is a second GET of the same session id, served with a session that
was reaped before: when it ends (`AnotherEnds`), its deferred Delete takes out whatever has
the id by then.

## 3. Runs

| run | instance | distinct question | result |
|---|---|---|---|
| `pipe` | 2 writers × 2 writes, 1 reader, limit 1 byte, without and with `DiscardOverflow` | lost wake-ups, results, refinement, liveness | holds |
| `kcp_transfer` | 2 buffers, windows 1 and 2, 1 fault, one segment of a kind under way | safety, refinement, delivery, quiet | holds |
| `conn` | four uses of a connection (writer and closer, closer, writer, reader on an accepted one with `Listener.Close`), 1 buffer, 1 segment of a kind chosen for each | graceful close, leaks, lost wake-ups, teardown, return of calls | holds |
| `mux_dispatch` | 2 dispatchers × 2 calls, 2 workers, 1 failure, limits 1 and 2, 4 tries | dispatch, pick, monitor, clean-up | holds |
| `link_sessions` | 1 session, 1 payload each way, room for 8 frames | streams and ends of sessions | holds |
| `link_stall` | 1 session, 2 payloads each way, room for 1 frame | the carrier's readers waiting for each other | violated, see 6 |
| `timer_cancel` | 2 callers, 4 tasks | ticks against SetTimeout | holds |
| `timer_block` | 1 caller, 2 tasks | SetTimeout blocks | violated, see 6 |
| `relay` | 2 chunks, at most 1 down, pipes that block on the second chunk, one `SetTimeout` that blocks | ends of a proxied connection, whoever begins | holds |
| `udp_worker` | 2 sources, 2 connections | the table against the checker | holds |
| `dns` | a query for both families and one for IPv4, a raw query, 1 domain, up to 3 answers, TTLs 0, 1 and 2, a deadline of 2, requests kept for 4, numbers modulo 3; three servers (answers with and without addresses that expire early or late; with TTL 0; errors and truncated ones without the cache) | late, repeated, lost and expiring answers, clean-up, Close | holds |
| `split_upload` | 3 packets, 2 parts each, a channel and a heap of 1; five uploads (complete, a gap with repeats, one repeat, two sessions with another GET, a stream with another GET) | order, limits, ends | holds |

### Why the bounds are enough to be interesting

* Pipe: two writers are needed for a lost token (one is woken, the other not) and
  one write beyond the limit for blocking; a second reader is needed for a token
  stolen by another reader. `PipeProofs` removes the bounds for safety.
* KcpTransfer: a window of one and a receiving window of two let a segment arrive
  ahead of its turn, be acknowledged and be retransmitted; one fault is a lost ack
  or a repeated segment.
* KcpConnection: one buffer, and a segment that acknowledges, one that closes and one that
  terminates, each at any moment and with the callers whose end it bears on: both updaters,
  the goroutine of `Input` and an application cross in every order. `KcpConnectionProofs`
  has any segments.
* MuxClient: with concurrency 1 and two workers, worker choice, full workers, the
  swap and an overshoot all happen; two connections per worker wear one out.
* MuxLink: a session at a time; sessions share only the carrier (whose order is
  that of the frames) and the reader. `Capacity` 8 is more than one session of one
  payload each way can fill, so `link_sessions` asks about frames that cross and
  `link_stall` about room.
* ActivityTimer: three replacements by two callers leave ticks of old tasks in
  every position.
* Relay: the second chunk of the uplink meets a full pipe while the outbound is
  still being dialled; every end (fin, reset, timer, failed route or dial, a `SetTimeout`
  that blocks) can come before and after every other. `Within` of `MCRelay` keeps the
  instance small: two chunks in all, and one when a connection is reset or a `SetTimeout`
  blocks, which it does on one side at most, as `AllEnd` claims nothing when it does on both.
* UdpWorker: two sources keep the checker running while one of them comes back; a
  `udpConn` may be used again, as a new object, once nothing holds it, so that any
  number of sessions follow each other.
* Nameserver: two queries share a domain and a family, so that one's answer is the
  other's cache hit; three answers suffice for one that is late and one that is
  repeated; `IdMod` 3 lets the numbers of a query for two families and a raw query
  meet. A TTL of 1 runs out before the deadline of 2 and a TTL of 2 does not. The servers
  differ in their bounds (`Within` of `MCNameserver`): the first has all moments, two
  answers and no raw query, the others have three answers, the raw query and one moment
  after the first, at which deadlines have passed, and for the third one the lives of
  pending requests too.
* SplitUpload: with three packets and a limit of one, a gap fills the heap, a repeat
  meets its original in the channel or in the heap, and a second session follows one
  that was reaped or that another GET's Delete has taken out.

Deadlock is checked where the system never has to stop by itself (`pipe`,
`kcp_transfer`, `timer_cancel`); it is off where all bounded calls may have been made
and every goroutine has ended.

### Fairness

* Pipe: weak fairness of each goroutine's next step (the Go scheduler) and of the
  next read of a loop that has seen no error (`buf.Copy`). Nobody owes a write, a
  Close or an Interrupt.
* KcpTransfer: flushes and the sender's ping are strongly fair, as they wait for
  mutexes, which Go hands on fairly, and here for room in `net`; a segment of
  which copies keep coming is received; the reader reads. The bound on faults
  stands for a network that does not lose everything for ever.
* KcpConnection: goroutines run and clocks advance (`Age`, `Silence`: strongly
  fair, because a segment resets them). Peers and applications owe nothing.
* MuxLink: goroutines run, the carrier moves frames. Applications read their
  output or stop to read; an application that does neither stops the carrier's
  reader and with it all sessions (no flow control per session), which is a
  hazard of the design and not a claim of a property.
* ActivityTimer: strong fairness of a task's goroutine, which contends for mutexes.
* Relay: goroutines run (one condition for each: the two `Process` calls, the four tasks),
  sniffing and dialling have deadlines, an idle timer fires unless a `SetTimeout` blocks.
  Peers owe nothing: they may stop to send, and stop to read while their connection
  is open (a write to an open connection need not return).
* UdpWorker: the hub's goroutine, those of the sessions and of the checker's timers
  run, and the timer fires.
* SplitUpload: handlers, the reaper and the reader run, and 30 s pass. The client owes
  no request, and no end of one.
* Nameserver has no liveness property: a query ends with its context.

## 4. Properties

Each property is stated in words above its definition. `WellFormed` is, in each module
that has it, the conjunction of the type invariant and of what the tables of that
component must satisfy; the parts are named. The main ones:

* `NoneStranded` (Pipe): signals are sent outside the mutex through one-slot channels,
  so a wake-up could be lost or taken by another goroutine; when one is missing,
  somebody who will make up for it is always on the way.
* `Truthful` (Pipe): results and the stream agree, with Close and Interrupt at any
  moment (`NothingLost`, `TruthfulWrite`, `EOFMeansDrained`).
* `NothingForgotten`, `NoAckForgotten` (KcpTransfer): the receiver does not answer
  a retransmission of what it has handed to the reader, so its ack list must
  outlive the sender's copy.
* `ImplementsStream` (Pipe, KcpTransfer), `ImplementsStreams` (Relay): the same
  abstract conduit four times.
* `GracefulClose`, `WellFormed` (`NoLeak`), `Flushed`, `AllEnd` (KcpConnection): a
  confirmed buffer is discarded only for one of four reasons, of which the fourth is a
  time that `flush` misjudges (see 6); that a connection is taken for silent because a
  segment arrives while `flush` runs is none of them, since `Close` waits for the window.
* `AcceptedIsKept`, `SecondTrySuffices`, `NoPanic`, `WellFormed` (MuxClient): limits can
  be overshot, since `IsFull` and `Allocate` do not share a lock, by at most one less
  than the number of dispatchers; no worker is lost or listed twice.
* `LinkWellFormed` (`Delivered`), `EndsTogether` (MuxLink).
* `OneTicker`, `Cancels` (ActivityTimer): a task that was replaced is not left running; a
  check of it that is under way may still end in `finish`.
* `PassedIsComplete`, `ResponseSurvives`, `AllEnd` (Relay): a `Process` that reports
  success has copied everything; once the request is over, nothing that happens to
  the outbound takes a complete response from the client; whatever the peers do, both
  calls return and all four tasks end, which `WellFormed` (`PipesEnd`) is the key to. A
  side whose `SetTimeout` blocks is excepted, and only that side: when it is the
  outbound's, both calls still return, as the end of the inbound cancels its context.
* `OneSession`, `StartSucceedsForPassive`, `IdleClosed`, `WellFormed` (`NoStaleEntry`,
  `CheckerRuns`) (UdpWorker): the unlocked `inactive` flag does not let a session's
  goroutine remove its successor's entry, as long as the proxy leaves the end of
  sessions to the worker; for other proxies the first two do not hold (see 6).
* `WellFormed` (`OwnAnswers`), `NoLostWakeup`, `WokenFinds`, `NoPanic` (Nameserver):
  until the 16-bit numbers come round no two questions are mixed; nobody who waits
  misses an answer; a query that is woken finds what it was woken for, until one of the
  answers expires.
* `InOrder`, `AcceptedIsKept`, `KeepsItsSession`, `EventuallyRead`, `AllEnd`,
  `WellFormed` (`BoundedReassembly`) (SplitUpload). `KeepsItsSession`: while a GET is served,
  its session is in the table, or its reaper has chosen the limit and closes its queue, so
  that no request is given another session while the queue of the GET stays open. A second
  GET of the same id that has ended is excepted (see 6).

## 5. What is proved

All for every value of the constants that satisfies the named assumptions.

* **PipeProofs** (`PipeAssumption`): `TypeCorrect`, `NothingIsLost`,
  `NobodyStranded` (readers and writers), `OvershootIsBounded`,
  `WritesAreTruthful`, `EOFIsEnd`, `ResultsAreTruthful`, `PipeIsStream`. The run has one
  reader; that several compete for one token is covered by the proof. The inductive invariant `IInv`
  adds to the properties `CallInv`, which says for each label of a call whether
  the argument is in the stream yet (without it a result could not be tied to the
  append that happened two steps earlier), and `StateInv`, which ties `done` to
  the state and keeps the data away from a reader that has seen EOF.
* **KcpTransferProofs** (`KcpAssumption` and `NoWrap`, at most 2^31 buffers):
  `TypeCorrect`, `SenderNeverForgets`, `ReceiverNeverForgets`,
  `WindowsAreBounded`, `KcpIsStream`. The
  invariant has a part for each end (`SenderInv`, `ReceiverInv`) and `NetInv`: what
  a segment under way claims (what was received, below what the sender is done) was
  true when it was sent and stays true as both ends only move forward. That is
  why late, repeated and reordered segments are harmless. With `Mod` 4 and five
  buffers TLC finds `NothingForgotten` violated, so `NoWrap` is needed.
* **KcpConnectionProofs** (`ConnectionAssumption`): `ConnectionIsSound`,
  `CloseIsGraceful`, for any way to use a connection, any window and any numbers of
  buffers and segments. The invariant `Inv` is `Types`, `Writing`, `Quiet`, `Kept` and
  `NoLeak`. The code reads the state and sets it later, so the property says nothing
  about a thread in between; `Quiet` does. Until the peer has closed, a limit has passed
  or was taken to have, or the Listener was closed, the only threads that are about to set
  the state, or its time, are the closer and updaters in a `Close` that was called in
  Active, and updaters that have seen nothing confirmed in the window (`Plan`).
* **MuxProofs**, the client's control (`MuxClientAssumption`), for any number of
  dispatchers, workers and limits. `AcceptedRequestsAreKept`, from `KeptInv`: `Listed` says that an open
  session table holds exactly the requests that have not ended, so that finding it empty
  means something; `DoneForAReason` is needed because a worker that is done closes
  its table whatever it holds. `ListAndTablesAreSound`, `PickerDoesNotPanic` and
  `TwoTriesSuffice` follow from `DispatchInv`: `RaceIsBounded` counts the dispatchers
  that have passed `IsFull` and not allocated yet against the limits; `CleanupRuns` says
  that whoever is about to start the task finds a worker in the list or the task running;
  `SecondIsFree` says that after a first attempt that failed the last worker of the
  list, which `pickInternal` looks at first, has room. What the loop of `cleanup` leaves
  in the list is shown by induction over its index, stated with sets
  (`NatInductive`, from the well-foundedness of `<`).
* **MuxProofs**, the sessions (`MuxLinkAssumption`: the carrier holds at least one
  frame), for any sessions, any number of payloads and any capacity:
  `LinkInvariance`, `SessionsDelivered`. `LinkInv` has for each end `Copying`, `Tables`,
  `Frames`, `NewSent`, `Flow`, `Continues`, `Ending` and `Whole`, and `Holding` for each
  reader. `Flow` says where each payload is: while an output is open, what was written
  to it, what its reader holds and what is on its way are, in this order and without a
  gap, what the other end has sent. That alone does not show that an end of the stream
  is truthful, as either side may write an End for several reasons: `Continues` says
  that an end whose application has ended nothing has told nobody to close, and `Ending`
  that an End on its way to it was written by the other copier after all its payloads,
  the first one telling what happened. `Tables` says that a session which has left its
  table has its output closed, so that a frame without a session is harmless. That
  sessions do not disturb each other is a lemma (`AsideHolds`): a step of one only shifts
  the positions of the others' frames.
* **RelayProofs** (`RelayAssumption`), for data of any length and any limit of the
  pipes: `TasksAreSound`, `PassedHasDelivered`, `ResponseIsNotCutOff`,
  `RelayImplementsStreams`. `RelayInv` is `Types`, `Control`, `PipesEnd`, `Silent`,
  `Excuses` and `Flow` for both sides. `Flow` says where each chunk is: what a peer has
  sent is what the other one has, followed by what is cached, in the pipe and in the hands
  of the two tasks, and by what has arrived; an end of the stream enters the pipe
  behind all of it, and a direction that is broken keeps a prefix. `Excuses` keeps
  the trace of each reason for which the inbound may fail. Both directions then implement
  `Stream` step by step.
  For the timer (`ActivityTimerAssumption`), any callers and tasks: `TimerTypeCorrect`,
  `OnlyCurrentTicks`. `Exclusive` is the strengthening: the caller between replacing and
  starting a task is alone, and its task is the current one.
* **UdpWorkerProofs** (`ConnsAssumption`: the `udpConn` objects are numbered from 1, as
  0 stands for none): `TableIsLookedAfter`, `PassiveSourcesHaveOneSession`,
  `PassiveStartSucceeds`, for any sources and any number of objects. `WorkerInv` is
  `TypeOK`, `Sessions`, `Entries`, `Passive` and `Checker`: an entry that is marked as
  inactive is one whose goroutine is about to remove it; with proxies that leave the
  end of their sessions to the worker only `clean` closes them, so that an old goroutine
  finds the mark and leaves the table alone; and until Close one goroutine at most is in
  `checkedExecute`.
* **NameserverProofs** (`NameserverAssumption`: a query asks for at least one family,
  there is at least one number, and the value for "none" is nothing else), for any
  queries, handlers, domains, TTLs and numbers: `NameserverCorrect`, `TablesWellFormed`,
  `WakeupsKept`, `NeverPanics`, `WokenQueriesFind`. `NameserverInv` is `Types`, `Shape`,
  `Numbers`, `Matching`, `Filed`, `CopiesFiled`, `RawFiled`, `Told`, `Zero`, `Fresh`, `Nil`
  and `Cleaning`. `OwnAnswers` speaks of results; `Numbers` says that until the numbers
  come round none has two questions, wherever it is (pending, on the wire, in the hands
  of a handler or of a query), `Matching` that a handler has the request its packet
  answers, and then everything is filed under its own question. `Fresh` keeps the
  answer, or one that lives longer, in the cache from the moment a query is told of it until
  it expires. `Cleaning` says that a
  handler about to call `Start` finds something in the cache or the task running; this
  is where the assumption on the timer (section 2) is used.
* **SplitUploadProofs** (`UploadAssumption`: numbers are natural, a packet has at least
  one part, sessions are numbered from 1, there is another GET or not): `QueueIsBounded`, `UploadIsInOrder`,
  `AcceptedPacketsAreKept`, `SessionIsKept`, for uploads of any length, any limit of the
  queue and any number of sessions. `UploadInv` is `Types`, `Attached`, `Table`, `OneMode`,
  `Unread`, `Bounds`, `Kept` and `Order`. `Order` is what makes `InOrder` inductive:
  the heap has at most one packet of each number that is not read yet (`Distinct`), only
  the one that is due may be read in part, and what was read ends where the rest of it
  begins (`Position`). `Table` ties the sessions that wait for their reaper to the entry
  of the table, so that a reaper removes no session but its own: that of the GET leaves the
  table only with its queue closed, or with its own reaper about to close it.

The inductive invariants were checked by TLC on the instances of the runs (`LinkInv` on
all 3,089,014 states of `link_sessions`), `WorkerInv` also with a third object, before they
were proved.

Only model-checked: what is to happen under fairness, which is outside what the prover
does (`WritesReturn`, `AllDelivered`, `EventuallyDelivered`, `AllEnd`, `Flushed`,
`EndsTogether`, `Cancels`, `IdleClosed`, `EventuallyRead`). Every invariant, every action
property and every refinement that a passing run checks is proved.
The type invariants of `Pipe`, `KcpTransfer` and `ActivityTimer` (`TimerTypeOK`),
`BoundedOvershoot` of `Pipe` and `BoundedWindows` are only proved: the runs need not repeat
them.

## 6. Where the code and what it says differ

* `link_stall`: the only goroutine that reads the carrier also writes to it ("Notify
  remote peer to close this session."). With both directions full, both readers wait.
* `timer_block`: a tick of the replaced task takes the token that `SetTimeout` has
  put for the first check of the new task; the check calls `finish`, which wants
  the mutex its own goroutine holds.

Seen while modelling, without a run of their own:

* KCP numbers: `SendingWindow.Clear` (`sending.go:60`) compares numbers without
  wrap-around. After 2^32 segments, with unread data from before the wrap, it drops
  segments that were never received (`MCKcpTransfer` with `Mod` 4 and `MaxPush` 5
  shows it: `NothingForgotten`).
* KCP Close: `Close` (`connection.go:465`, "Close closes the connection.") and the
  handling of the peer's Close both read `StateActive` and then set the state; the
  local Close can be overwritten, and the connection stays in `PeerClosed`, which has
  no time limit. `AllEnd` excepts that state.
* KCP clocks: `flush` (`connection.go:608`) reads the clock once and subtracts, unsigned,
  times that other goroutines store. A `lastIncomingTime` of a later millisecond makes the
  difference huge, and a connection that has just received a segment is closed as silent.
  A `stateBeginTime` of a later millisecond, or one that `SetState` has not stored yet after
  the state, makes a limit look passed: the connection goes to Terminating with confirmed
  buffers in its window. `GracefulClose` counts the latter as an excuse; without it TLC
  finds the buffer dropped.
* DNS: `config.proto:105` says "DisableCache disables DNS cache"; `QueryIPWithTTL` skips
  only its first look-up, and the loop's `findIPsForDomain` returns an older record
  as soon as the query is woken for any of its families.
* DNS: an answer with TTL 0 is taken by one query or dropped by `Cleanup`; other
  queries woken for it find nothing, and their loops, whose channel stays closed,
  spin until the deadline. `WokenFinds` excepts such domains. The same happens when the
  answer of one family expires before the deadline, while that of the other is under way,
  and the other turns out to be empty: `WokenFinds` ends with the first expiry.
* DNS: `Close` sets the maps to nil; an answer that is being handled, or a query that
  is about to send, then panics. `NoPanic` is about the time before.
* UDP worker: `common.Must(w.checker.Start())` (`worker.go:337`) can panic with a proxy
  that ends its sessions by itself: the goroutine of an ended session removes the entry
  of its successor, which is between `getConnection` and `Start`, and the checker finds
  the table empty (`StartSucceeds`, which the run checks for the other proxies only).
  `udpWorker.Close` stops the checker and leaves the sessions to their proxies.
* Relay: the response's end closes the outbound's connection after a timer even if the
  request is not delivered yet, and an uplink that fails while the client still sends
  cuts a response that is under way. Both are the choice of the code. Every task ends with
  a `SetTimeout`, which can block for ever (`timer_block`): then the task does not return,
  the timer of its side never fires, and `Process` stays if nothing else ends it. `AllEnd`
  excepts that side.
* splithttp: two copies of one packet in the heap, the first read in parts
  (`upload_queue.go:94`): the second is popped before the rest of the first and its
  bytes are read twice. `InOrder` excepts it. A reaper whose select
  finds both the 30 s limit and the GET ready may choose the limit (`hub.go:84`), although
  the GET came first: the GET is then served with a closed queue. The deferred Delete of a
  GET (`hub.go:295`) is of the id and not of its session: one whose session was reaped takes
  out the session of a later GET of the same id, whose packets then go to a third one. In the client, `break` in
  `dialer.go:510` leaves only the inner loop: a number is taken and never posted.
* pubsub: a `Subscribe` after `Service.Close` starts the clean-up task again.
* `connection.go:42` calls `StateTerminated` "Connection is destroyed."; a flush
  that has read an older state may set it back afterwards. Nothing is lost by it.
* `listener.go:147` says "Already Accepted connections are not closed."; `Close`
  starts `conn.Terminate()` for each of them.
* mux: the end of a session's input closes its output too, so that a half-closed
  session loses the other direction with a clean end; a failed carrier ends
  outputs cleanly and does not interrupt inputs. `Delivered` and `EndsTogether`
  name these cases.
* mux: the 16 attempts of `Dispatch` can all be used up by competing calls, and a
  picker that is closed, and whose list a tick empties, between the adding of a
  worker and the start of the clean-up makes `common.Must` panic (`NoPanic`
  excepts a closed picker).

## 7. Plan

Done: Pipe, KCP transfer and connection, mux control and sessions, timers, the relay
of a connection, the UDP worker, the UDP nameserver, splithttp uploads. Next, in this
order:

1. KCP with both ends: `KcpTransfer` and the states of two connections, for the
   read that returns EOF with data unread (`connection.go:269`).
2. `StatsChannel` (`app/stats/channel.go`): broadcasts against Close and restart.
3. `UdpDispatcher` (`transport/internet/udp`).
4. `FakeDns` (LRU and wrap-around), core `Instance` (resolution, partial failure).
5. Balancers and observatory as operators, the vmess session history.

Each of these wants its safety proved as well, as that of the present modules is.
Runs are kept one per question: instances that differ only in size are merged, and a
new component replaces a question that a proof has answered.

## 8. Not modelled, and why

Byte layouts, cryptography and parsing (`common/crypto`, `common/protocol`,
`proxy/*`) are sequential functions of bytes. TLS, HTTP, QUIC and WebSocket
transports are adapters around libraries that keep the state. The nameservers over
TCP, DoH and QUIC share the cache logic of the UDP one and differ in transport.
splithttp's stream-one is one request and has no queue. pubsub's own clean-up of
abandoned subscribers, port rotation of the inbounds and changes of the network
interface are left out. `common/buf` is
sequential; ownership of pooled memory is not visible in the models. Congestion
control and RTT estimation of KCP influence when segments are sent, which the
models leave free. Configuration, the command line and generated code carry no
protocol. `PROJECT.json` lists every part with its reason.
