# Formal models of the Vehicle Diagnostics Platform

TLA+ specifications of the concurrent core of the platform, the TLC
configurations that check them on small instances, and TLAPS proofs of what
should hold for every instance. Paths are given from the directory above the
repository root: `src/src/...` is the Python package `src`, `src/ui/...` the
desktop application, `src/services/...` and `src/diagnostics/...` the JavaScript
API service and its libraries, `src/docs/...` the documentation.

## 1. The system

The repository holds two products. The Python one is a desktop (and headless)
tester for vehicle ECUs. A diagnostic operation goes down a stack of objects,
each owned by the one above it:

    ui controllers, timers, runners            one thread per operation
      TransferManager, FlashRunner, TestRunner, TesterPresentScheduler
        UDSClient             lock, session and security state of the ECU
          TransportLayer      lock, P2 timers, rate limiter, no flush before a request
            CANProtocol       reader thread -> receive queue (4096 frames)
              IsoTpHandler    segmentation, flow control, reassembly
                VCI driver    virtual bus, or a vendor's library
                    |  frames
                IsoTpHandler <- ECUSimulator._serve thread (same class)
                  ECUSimulator  sessions, security access, download, ...

`ConnectionManager` builds and tears the stack down and watches it with a
periodic health check, `SessionManager` watches the session, everything reports
through an event bus.

The JavaScript product is an API service with a simulated vehicle behind each
diagnostic session. It has no threads but an event loop: what interleaves are
request handlers at their `await`s, timers, web sockets and frames.

    HTTP routes, web sockets                   handlers on one event loop
      JsonStore               sessions, flushed to a file some time later; or
      PostgresStore           the same arrays, flushed to tables
      DiagnosticRuntime       a simulator and a live data timer per session
        UdsSession            one call, its timeout
          IsotpTransport      one pending request, its timer
            IsoTpSender, IsoTpReceiver -> VirtualCanBus -> UdsServer

### Inventory

| Component | State | Operations | What is hard | What makes it correct |
|---|---|---|---|---|
| ISO-TP handler | negotiated block size; reassembly buffer, expected length and sequence number; the position of its thread | `send`, `receive`, `reset` | both ends wait for each other's frames; lost frames; timers against late frames; 4 bit sequence, 8 bit block size | what `receive` returns is one payload of the peer, whole, once, in order; calls return; nothing stale stays behind |
| CAN protocol, virtual bus | receive queues, reader thread | send, receive, flush, shut down | full queue; reader's end; drops | frames in order, only lost, never changed |
| ECU simulator | session, unlocked level, pending seed, attempts, delay, download, block counter, DIDs, DTCs | one handler per service | sequences of services; injected busy and pending answers | what is locked stays locked; counters within limits |
| UDS client | lock, `client.state`, statistics | `send_request`, `change_session`, `security_access`, ... | several threads; late, pending and busy answers; state applied after unlock | an answer belongs to its request; `client.state` describes the ECU; calls return |
| Connection manager | state, driver/protocol/transport, health timer, lock | `connect`, `disconnect`, `reconnect`, health check | three kinds of threads; join with the lock held; a step that fails | whole or gone; operations return; a loss is reported and recovered; down stays down |
| Session manager | session, its watchdog | apply change, touch, reset | a timer stopped from its own thread | a session that lapses does not go unnoticed |
| Tester present scheduler | timer, statistics | start, stop, tick | ticks behind the client's lock, stop during a tick | the ECU is never left unasked for long |
| Block transfer | block counter, attempts, cancel and pause events | start, cancel, pause, download | retries after lost answers; cancel and pause in the middle; a second run | what is reported as loaded is loaded, whole and in order; runs end |
| Flash runner and sequence | steps, cancel flag, what was staged | edit, run, cancel | order of steps after edits; a step that fails | what is reported as flashed is flashed |
| Test runner | cancel event, collector | run, run all, cancel | several threads on one runner | one result for each step |
| Message queue | heap, condition | put, get, clear | limit, several consumers | priority, then age; no item left behind |
| Rate limiter | tokens, last refill | acquire | senders that sleep and refill | no more frames than the rate allows |
| Event bus | subscriptions, publications under way | subscribe, unsubscribe, publish | publishing from several threads and from handlers | once means once; nobody is left out |
| J1939 | reassembly sessions, receive queue | announce, send, receive, request | nodes' packets mix, frames are lost, a reader and callers share a queue | as ISO-TP; no message is lost in the queue |
| DoIP, SOME/IP, K-Line, LIN, FlexRay | sockets, schedules | per protocol | shared sockets, bit timing | per protocol |
| API sessions | store, simulators, live data timers, sockets | create, delete, scan, subscribe, close, flush, restart | handlers between awaits; a restart; chunks with several messages | the status says what runs; a timer runs for somebody; DELETE deletes one's own |
| PostgreSQL store | arrays in memory, names of those touched, timer; tables with foreign keys | collection, scheduleFlush, flush | statements are awaited while the arrays change; constraints, cascades; a flush that is refused | what a flush rewrites is stored |
| JavaScript UDS console | one pending request, timers | request, cancel, timeouts | two handlers on one transport; timers that outlive their call | the transport is free again after every call |
| JavaScript ISO-TP | sender's and receiver's state | send, flow control, receive | timers and promises; a bus that rejects | what is received is one payload, whole |
| Logging | ring buffer, database buffer, open transaction, connection | log, flush, close | threads log while it is closed; writes the disk refuses part way | the table skips no entry; a closed database has what was logged before |
| Data processing, ODX, widgets, plugins, scripts, dashboard | files, tables, widgets | | mostly parsing, formatting, I/O | |

`PROJECT.json` lists every component with its status, and under `hazards` every
place in this code where a fault would be hard to test for, with the properties
that watch it or the reason none does yet.

## 2. Modules

| Module | Models | Composed from |
|---|---|---|
| `MessageChannel` | abstract: what a transport promises the layer above it | |
| `IsoTp` | two `IsoTpHandler`s and the bus between them | refines `MessageChannel` |
| `MCIsoTp` | constants for TLC, per station | `IsoTp` |
| `MCExchange` | the link or the client in one run, peers in time | `MCIsoTp`, `MCUdsExchange` |
| `IsoTpProofs` | proofs: types, sequence, intact delivery, the refinement | `IsoTp`, `MessageChannel` |
| `EcuSimulator` | the simulator's service handlers | |
| `EcuSimulatorProofs` | proofs: types, security lock | `EcuSimulator` |
| `UdsExchange` | `UDSClient` with its threads, against the simulator | `EcuSimulator` |
| `MCUdsExchange` | the two threads' choice of requests | `UdsExchange` |
| `UdsExchangeProofs` | proofs: types, whose the wire is, own answers, agreement | `UdsExchange`, `EcuSimulatorProofs` |
| `ConnectionManager` | `ConnectionManager`, `PeriodicTimer`, the panel | |
| `Transfer` | the download: controller, its threads, `TransferManager`, against the simulator | `EcuSimulator` |
| `Flash` | the flash panel: editor, `FlashSequence.validate`, `FlashRunner`, against the simulator | `EcuSimulator` |
| `TestRun` | developer mode: controller, its threads on the one `TestRunner` | |
| `KeepAlive` | `TesterPresentScheduler` on its timer, in counted time | |
| `SessionWatch` | `SessionManager` and its S3 watchdog's thread | |
| `RateLimiter` | the token bucket under several senders | |
| `PriorityBag` | abstract: what a bounded priority queue promises | |
| `PriorityQueue` | `PriorityMessageQueue`: the list and the heaps `heapq` may make of it, the condition variable | refines `PriorityBag` |
| `EventBus` | subscriptions, publications from threads and from handlers | |
| `LogStore` | the log's database: buffer, transaction, connection, shutdown | |
| `J1939` | nodes' packets, the reader's reassembly, `request_pgn` | |
| `ApiSessions` | the API service: sessions, live data, sockets, store, restart | |
| `PgStore`, `MCPgStore` | the API service on PostgreSQL: arrays, flush, tables | |
| `ApiUds` | the API service: handlers on one transport | |
| `JsIsoTp` | the JavaScript sender and receiver on their bus | |
| `SequenceLemmas` | lemmas: induction over numbers, and what appending, removing and editing do to a sequence | |
| `MCThreads`, `MCServices` | several components in one run, see section 3 | the components they name |
| `TransferProofs` | proofs: the block transfer | `Transfer`, `EcuSimulatorProofs` |
| `ServicesProofs` | proofs: the connection, the flash runner, the JavaScript ISO-TP, the watchdog; the types in `services` | `MCServices`, `TransferProofs` |
| `ThreadsProofs` | proofs: keep-alive, J1939, rate limiter, queue, bus, test runner | `KeepAlive`, `J1939`, `RateLimiter`, `PriorityQueue`, `EventBus`, `TestRun` |
| `MCThreadsProofs` | proofs: the API service, its PostgreSQL store, the log; that `threads` runs its components; the types in it | `MCThreads`, `ThreadsProofs`, `TransferProofs` |

### IsoTp

The two stations run the same class, so every action takes the station as its
parameter. `rx[s]` is the queue of raw frames of station `s` (driver queue,
reader thread and receive queue are one FIFO), `mode[s]` the place of its thread
in `send()` or `receive()`, `tx[s]` the locals of `_send_multi_frame`, `asm[s]`
the reassembly fields. One action is one turn of the loop the thread is in: one
frame taken or one frame sent, with everything the code does before it looks at
the queue again. `SendConsecutive` therefore ends at the test at the top of the
loop, and `ReceiveFirst` contains the flow control it answers with.

A payload is a sequence of chunks, one per frame; a chunk is `[id, pos]`, the
number of its payload and its place in it. Bytes, padding, STmin and address
extension are abstracted: no decision of the code depends on them. The first
frame's length counts chunks. `Lose` covers injected drops and full queues,
`SendError` a driver that refuses a frame, `ForeignFlow` the flow control
statuses this code never sends but handles (WAIT, OVERFLOW, reserved). A single,
first or flow control frame that the driver refuses (`isotp_handler.py:263`, `274`,
`474`) raises as well and is left out: `SendError` refuses consecutive ones.

Three specifications of the same system differ in what time may do:

- `Spec`: a timer may expire although the frame it waits for is on its way.
- `PromptSpec`: a timer expires only when nothing on the way could stop it. The
  default N_Bs and N_Cr are a second, the bus and the simulator take
  milliseconds.
- `FairSpec`, `ServeSpec`: `Spec`, `PromptSpec` with fairness, see section 4.

### EcuSimulator

One action per `_svc_...` handler, with the request and the answer as
parameters; `HandleRequest` is `handle_request` with the injected error first.
Seeds and keys are compared by what they were computed from, which is what the
code's comparison of bytes comes to. Malformed lengths are left out: they answer
negative and change nothing. Services that touch only DIDs or DTCs leave the
state alone.

### UdsExchange

`pc[t]` follows a thread through `send_request`: `locking` before the lock,
`waiting` inside `transport.request`/`receive` with the lock, `pausing` in the
sleep before a retry with the lock, `applying` after the lock was released and
before `client.state` was changed. The link is two FIFO queues of whole
payloads, which is what `IsoTp` shows it to be under `PromptSpec`. Requests and
answers carry the number of the call as a history; no guard looks at it. Its
specifications are called `ExchangeSpec`, `PromptExchangeSpec` (answers in time)
and `FairExchangeSpec`, so that the module and `IsoTp` can be extended together. A
failing `transport.send` (`SendFails`) raises out of the client; a reassembly
error on the way back is treated as the loss of that answer.

### ConnectionManager

A stack (driver, protocol, transport) is a number; `opened` says whose driver is
connected, `timer` and `driver` are the manager's fields. Threads are the
operator's calls, the application at shutdown, and one per health timer ever
started. The lock is taken by `Build`, `StopTimer` and given back by the step
that ends the method, so `reconnect()` is two critical sections as in the code.
A health thread that calls `disconnect()` on its own timer takes `JoinSelf`: the
`RuntimeError` of `Thread.join`, caught in `reconnect()`. The operator's buttons
are enabled as `ConnectionPanel.set_state` does, so the operator has one
operation at a time; `Shutdown` runs on the user interface's thread and can meet
only a `connect()` under way. `Open` and `FailToOpen` take the layers of a stack
as one. `MaxStacks` bounds the stacks that are built. An interval of 0, which
starts no health check at all, is not modelled.

### Transfer

A run is one press of Start: `thread[r]` is the worker with its locals in
`download()`, `manager[r]` its `TransferManager` with the cancel and pause
events. The steps before the download (session, DTC setting, communication,
programming session, seed and key) are `Prepare`; a segment is `BeginSegment`,
`RequestPermission`, then `CheckCancel`, `Hold`, `SendBlock` for each block, and
`Exit`. The client's lock makes an exchange one step, which `UdsExchange`
justifies; `late` holds answers that came after their exchange gave up, which
the next exchange reads first; that the client asks a busy ECU again within an
exchange (`uds_client.py:235`) is left to `UdsExchange`. `transferred` is what the simulator stored, as
the blocks it was made of. Cancel before the manager exists tells only the view,
which enables Start again, so two runs can share the ECU. `BeginSegment`
clears the events, as `download()` does. `start()` refuses an empty list of
files; files without any segment, which end a run at once, are left out.

### Flash

`script` is the sequence of steps, each a kind and whether it is enabled; the
editor's operations are actions (`MoveStep`, `AddStep`, ...), `Valid` is
`validate()`. `runner` is `FlashRunner` with its thread: `EnterRun` clears the
cancel flag, `NextStep` takes the next step or stops, and the handlers come
after that. The steps that are one request are one action, `AskingStep`; those
of several have a place in `runner.pc` for each. The transfer step asks for the
download a second time, as `TransferManager.download` does after the request
step. An exchange is one request here, answered or failed: late answers, the
client's busy retries and the download's own (`transfer_manager.py:330`) are in
`UdsExchange` and `Transfer`.

### TestRun, KeepAlive, SessionWatch

`TestRun`: every press starts a thread `test[t]`, all of them on one runner, so
`stop` (`_cancel`) and `results` (the collector) are shared. `KeepAlive` counts
time in steps; what is due is done before time passes, exchanges take up to
`Longest` steps, and `stop()` does not wait for a tick that waits for the lock.
A press of Run is one on a step, so there is one (`Steps > 0`).
The controller starts the scheduler from a signal that may come at any time after
the change, so `EnterSession` has no guard but that it is stopped, and an exchange
that raises (`Raises`, `AskRefused`) ends without touching the state. `quiet` is
the history the property speaks of: the time since the scheduler was started or
last asked, or an exchange ended.
`SessionWatch`: two callers' threads and the watchdogs'. Only the state is under
the manager's lock, so whoever starts or stops the watchdog does it in steps: is
one required (`RestartWatchdog`), is there one (`FindNone`, `StopWatchdog`), make
it (`CreateDog`), start or tell the one that is there by now (`StartDog`,
`TellDog`), wait for its end or for a second (`JoinDog`). The watchdog takes the
same steps when it finds the session expired; `TellSelf` includes the
`RuntimeError` of a thread that joins itself. `crossed` and `gaveUp` are
histories: calls overlapped; a join was given up.

### RateLimiter, PriorityQueue, EventBus

`RateLimiter` counts time and tokens in parts, so that refills are whole
numbers; a sender in `acquire()` takes its tokens, gives up, or sleeps.
`PriorityQueue` has the entries in a list that is a heap, since which entry a
full queue drops depends on the layout; `heapq` is the library's, so a push or a
pop leaves any heap of the right entries that differs from the one before on one
way between root and leaf (for a push the way from the new leaf up, for a pop the
one along the smaller children), which is all its algorithm touches. `sleepers`
are the condition's waiters. A consumer whose time is up (`TimeUp`) stays among
them until it has the lock (`GiveUp`), as in `threading.Condition`, and a
notification may be spent on it (`Notify`, `wasted`). The module refines
`PriorityBag` with the set of the list's entries as the bag: `LooseSpec`, in which
a full queue may give up any entry but the next one, and not `Spec`, in which it
gives up one of the lowest priority, as documented (`queue_drop`).
`EventBus`: a subscription is known by its token; a predicate that raises
(`PredicateRaises`) ends its publication, as nothing in `publish_event()` catches
it;
`subscribed` is the set of those in the bus, and `Earlier` the order in which
`_matching` yields them. `frames[p]` is a stack of publications, each with the
rest of its snapshot; a thread inside a handler may publish again.

### LogStore

Whatever holds the database's lock is one step, a flush included; `Refused` is a
flush that fails part way, with the rows before the failing one in the open
transaction (`loose`) or rolled back. `log()` tests `self.database` and reads it
again, so `Log`, `Reread`, `Insert` are three steps, and so are the flush, the
closing and the forgetting of `close()`, which the shutdown calls twice.
`accepted` and `sealed` are histories: the entries as they came into the buffer,
and how many there were when the connection was closed. `insert_many()` and the
deletions (`clear`, `prune`, `vacuum`) have no caller in the running program and
are left out, as is the end of the bus loggers' subscriptions, which only makes
fewer threads log. A crash needs no action: it leaves `rows`, of which the
invariant speaks at every step.

### J1939

A node sends announcements and packets; `sessions` is the reader's table,
keyed by source address as in the code. `rx` is bounded, what does not fit is
dropped. `caller` is `request_pgn()`, which sets other messages aside and puts
them back, each with a `put()` that waits for room. `by` is the last frame of a
message: it tells one message from another with the same contents, as the
identity of the object does in the code, and no guard looks at it. A node sends to
one target: sessions of one node to several, which share a key in the code
(`j1939_transport.py:55`), aborts, and RTS and CTS are not modelled.

### ApiSessions, ApiUds, JsIsoTp

`ApiSessions`: a handler runs in one step unless it awaits something that
matters, which only a scan does. A session's object outlives its place in the
store, because handlers hold it. `Mine` is `mine(req)`, as the places its entries
have in the store; `findIndex` in it is the number of those up to the one that is
deleted. `disk` is the last flush; `Restart` starts from
it with no simulators and no scans. `CloseAndSubscribe` is a chunk with a
subscription and a close frame: the close is handled while the chunk is decoded;
one message after it is enough.
`ApiUds`: a call is one `_once()` of the session; `pending`, `timers`, `finish`
are the transport's. `JsIsoTp`: sends, the loops of consecutive frames, which
await each frame and so may run twice at a time, and the receiver, which answers
a first frame and no later one with flow control; `strict` is whether the
owner's `sendFrame` rejects when the bus does, which the client's does and the
server's does not.

### PgStore

One action per `await` of `flush()`: after BEGIN, after each DELETE, after each
INSERT, the COMMIT. `tables` is what the transaction sees, `committed` what is
left after a ROLLBACK. `Emptied` and `Admitted` are the schema: a DELETE takes
along the rows that reference its own ON DELETE CASCADE and unlinks those ON
DELETE SET NULL, an INSERT needs every parent in its table. Between two
statements the routes go on: `Touched` is `collection()`, with the lookup of the
user that every authenticated request makes; `UpdateHeld` changes a row that was
found before an `await`. The model starts on empty tables. What `open()` makes
of rows is left out: it reads them by position (`r[i]`,
`src/services/api/lib/db-postgres.js:102`) where the `pg` library hands out
objects with the columns' names, which is that library's behaviour and not this
repository's. So are `close()`, which drops the timer and with it the last
changes, and two flushes at a time.

## 3. Runs

| Run | Question | Bounds |
|---|---|---|
| `exchange_prompt` | With peers that keep their times: is every payload handed out whole, at most once, in order, and is the channel the diagnostic layer relies on implemented; and is `client.state` right at rest, an answer the call's own? | link: 2 payloads each way of 1 or 5 frames, block size 1 one way and 3 the other (blocks end within, and at the end of, a message), sequence modulo 2 (it wraps in each message), 2 faults. Client: 4 operations out of 7 (session changes, quiet ones, reset, seed, right and wrong key) and one keep-alive, a pending answer per request, busy at any time, 1 fault |
| `isotp_async` | Without that assumption, is what is handed out in sequence, do calls return? | 2 and 1 payloads of 1 or 3 frames, 1 loss, 1 foreign flow control, one WAIT allowed |
| `isotp_mixed` | Is what is handed out whole without the assumption? **No** | 2 payloads of 2 frames |
| `uds_late` | Are late answers accounted for, do calls return? | 2 operations (session change, seed) and a keep-alive or a wrong key of another thread, which reaches the attempt limit of 1, 1 fault, windows that close at any time |
| `uds_threads` | Is `client.state` right with two threads that change it? **No** | one session change each |
| `threads` | Eleven components with several threads or callers: what must hold at any interleaving of them | below |
| `services` | Seven components that owe an end: is what was started finished, reported or given up, and rightly? | below |
| `conn_recovers` | Is a lost connection reconnected? **No** | 1 connect, 1 loss |
| `conn_down` | Does `disconnect()` last? **No** | 2 operations, 1 loss |
| `api_delete` | Does DELETE remove the caller's session? **No** | 2 users, 2 sessions |
| `pg_cascade` | Is in its table what a flush has rewritten? **No** | a user, a vehicle, a session |
| `queue_drop` | Does a full queue drop an entry of the lowest priority? **No** | limit 3, 4 puts of 2 priorities |

`exchange_prompt` has the two layers, which share no state in it, side by side as
the following runs have their components; `layer` picks one at the start.

`threads` and `services` check components that share no state with one another
side by side: `which` picks one at the start, the others rest in their initial
state, so the states are those of the components one after the other and every
property is checked on its own component's specification. In `services` the
fairness is each component's own. A component that rests has no fair step
enabled in its initial state, so none is asked of it; the ISO-TP link's server is
the exception, which `LinkFairness` names.

Bounds of `threads`:

- `Transfer`: 2 runs that may share the ECU, segments of 2 and 1 blocks, 2 attempts
  per block, counter modulo 2, 1 disturbed exchange or request of another panel.
- `TestRun`: 2 steps, 2 presses, 1 cancel, stop on failure.
- `EventBus`: 2 publishing threads, 2 events of either type, a subscription of each scope, one of
  them "once", one weak with a filter.
- `RateLimiter`: 2 senders, 2 parts a step, 3 a frame, a burst of 4 (no multiple
  of either), patience 2, 5 steps.
- `PriorityQueue`: limit 4 (the heap has three levels), 5 puts of 2 priorities, 2
  consumers.
- `J1939`: a node with two messages of two packets and one with one, a queue of
  2, 1 request, 1 lost frame.
- `ApiSessions`: 2 users, 2 sessions, 1 socket, 1 restart. `ApiUds`: 3 calls (the
  third is rejected by a timer of the first).
- `LogStore`: 2 threads, 4 entries, a buffer of 2, 2 refused writes, 2 calls of
  `close()`: a buffer is full before, between and after the steps of closing.
- `PgStore`: a user, a vehicle and a session for it, each in 2 versions, 1 outage.
- `KeepAlive`: interval 4, exchanges of up to 3, 2 timers.

Bounds of `services`:

- `ConnectionManager`: 2 operations, shutdown, 1 loss, 1 failing start.
- `EcuSimulator`: two levels and an unknown one, 3 sessions, 3 attempts, counter
  modulo 3: the whole state space.
- `Transfer`: 1 run, 2 disturbed exchanges, so that the attempts are used up.
- `Flash`: a sequence with every handler of more than one request, 2 blocks, 1
  edit of any kind at any place, 1 run, 1 failed exchange.
- the ISO-TP link: 3 payloads of 1, 4 or 5 frames, block size 2, no loss.
- `JsIsoTp`: payloads of 3, 2 and 0 chunks with blocks of 2 (more than a block,
  a block, a single frame), 1 rejected frame.
- `SessionWatch`: 2 callers, 3 changes, each of which may make a watchdog.

The bounds are chosen so that each mechanism meets itself: at least two messages
follow each other on a link (leftovers of the first meet the second), a block
ends inside and exactly at the end of a message, sequence numbers wrap inside a
message, the last allowed retry and pending answer are reached and exceeded, the
attempt limit is reached. `SequenceMod`, `CounterMod` and `SnMod` are small
instead of 16 and 256 because only the wrap matters; the proofs hold for any
value. Two stations, and two threads on a client, are what the program has at
least; a third thread adds waiting on the same lock, no new kind of step.

The connection's bound hides something, and it is named here: with a lost
channel and three operations, or with two losses, two reconnections race, one
leaves the other's stack open, and the leaked health check, which nobody stops,
later finds the driver "not connected" whenever another thread is between
`_build_driver` and `driver.connect` or between `driver.disconnect` and the end
of `_teardown`, and reconnects again. The number of stacks then has no bound but
`MaxStacks`, at which `Build` waits. `WholeOrGone` therefore speaks of behaviours
without a loss, and the runs allow one loss and two operations, which build fewer
stacks than `MaxStacks`: were one build to wait for it, `OperationsReturn` would
fail.

Deadlock is checked in `exchange_prompt` and the `isotp_*` and `uds_*` runs
(`UdsExchange` has an explicit `Rest` step once all callers are done). It is not in the others: there
the program may really stop, after the shutdown, the operator's last operation,
the last publication or the last frame.

### What the violations show

- `isotp_mixed`: N_Bs expires; the receiver's flow control arrives late and
  opens the next message; the receiver, still collecting the first one, drops
  the new first frame and completes the old buffer with the new message's
  consecutive frames.
- `uds_threads`: the lock of `UDSClient` covers the exchange and not what
  `change_session` does with its result.
- `conn_recovers`: the health check stops the timer it runs on; joining itself
  raises, the reconnection is given up and the timer is dead.
- `conn_down`: `reconnect()` has two critical sections; a `disconnect()` that
  comes before the second one is undone.
- `api_delete`: the index found among the caller's own sessions is used on the
  store of everybody's.
- `pg_cascade`: children are inserted before their parents' table is emptied, and
  the DELETE cascades over them. The user of every authenticated request counts
  as touched, so a flush that follows one keeps the users and nothing of theirs
  that it rewrote.
- `queue_drop`: a full queue drops the last element of the heap's list, a leaf
  and no more. With the priorities 0, 1, 0 in this order it gives up the second
  0 and keeps the 1.

Two more sentences of the repository are contradicted by behaviours of the models
without a run of their own:

- "one faulty subscriber cannot break others" (`src/src/core/event_bus.py:287`):
  a predicate is asked outside the `try` (309), so one that raises ends the
  publication and the rest is not told. `OnlyPredicatesBreakOff` is the part of
  the sentence the code keeps: nothing else breaks one off.
- "`None` on timeout" (`src/src/communication/message_queue.py:82`): a consumer that
  was woken for an item another thread took returns `None` at once (86), its
  time not over, or without a timeout at all (`Awake`).

## 4. Properties, fairness

`DeliveredIntact` is the strong property and holds for prompt stations;
`DeliveredInSequence` is what remains when timers race: the announced length,
each chunk sent with the sequence number of its place. `NoStaleFlow` is why:
flow control is queued only for a sender that waits for it. `ImplementsChannel`
is the refinement to `MessageChannel`: the abstract `submitted` is the number of
payloads given to `send()`, `received` the numbers of those handed out, 0 (which
no abstract step allows) for a payload that is not whole.

- `CompletedIsWhole` (`Transfer`): a segment reported as completed is in the ECU
  whole, in order, every block once, whatever was lost, late or retried, unless
  somebody else touched the ECU meanwhile (`alone`, a history). `RunEnds`: a run
  ends unless it is left paused and not cancelled, so a cancel ends a paused one.
- `CompletedMeansFlashed`, `TransferPrepared`, `RunReported` (`Flash`): what is shown as
  finished has put the file into the ECU; no edit that `validate()` lets through
  brings a transfer before its upload and request; a run is reported.
- `EveryStepReported` (`TestRun`): one result per step, in order, with what was
  left out at the end and for one reason.
- `QuietBounded` (`KeepAlive`): while the scheduler runs, an interval and a half
  never passes without a request of its own or an exchange that ended, whenever it
  was started, whatever raises. `state.last_activity` itself has no such bound: a
  scheduler that is started on an old state asks after an interval, and a request
  that raises does not touch it.
- `FirstExpiryFallsBack`, `NoStrayDog` (`SessionWatch`): the first expiry takes the
  session back; and no timer runs on that the manager has forgotten, though a timer
  stops itself from its own thread and no lock holds the steps of a change
  together. Both are of callers that do not overlap (`crossed`), and `NoStrayDog`
  of joins that are not given up (`gaveUp`): what happens else is below.
- `RateKept`; `ServesByPriority` (the refinement to `PriorityBag`);
  `NoLostWakeUp`: beside a sleeping consumer there are no more entries than
  consumers on their way to them and notifications spent on consumers whose time
  was up; `OnceIsDropped`, `OnlyPredicatesBreakOff`.
- `NothingSkipped`, `ClosedIsStored` (`LogStore`): rows may be written twice, but
  none before an entry that was logged earlier, so a crash leaves the log up to
  some moment; what came into the buffer before the connection was closed is
  stored.
- `AssembledIsWhole`, `NothingForgotten` (`J1939`).
- `ScanningIsRunning`, `TicksForSubscribers`, `ReadyAgain`, `ReceivedWhole`,
  `BlockArrives` (the JavaScript service).
- `KeepsUp` (`PgStore`): what PostgreSQL keeps of a row never goes back to an
  earlier version, though rows change while a flush is under way and outages
  break it off; a row may be gone, as `pg_cascade` shows, but never a user's.

Some behaviours of the code are in the models and are not claimed away; a reader
should know them:

- A cancel that comes before `FlashRunner.run()` or `TestRunner.execute_all()`
  starts is lost; before the transfer's manager exists it reaches nobody.
- A cancelled download leaves the ECU in the transfer, across a session change too.
- The S3 watchdog works once: it stops itself from its own thread, and stays in
  its place, dead, until the next change to the default session.
- Two threads that change the session at a time may both find no watchdog
  (`session_manager.py:126`) and start one each; one of them is forgotten and never
  stopped. So is one that a caller creates after a join was given up, when the old
  timer's reset comes in between.
- `PriorityMessageQueue.get` may return `None` before its time is up; a consumer
  whose time is up may take a notification with it, and another one sleeps on
  beside the entry until the next `put()` or its own time.
- A predicate that raises breaks off its publication.
- A busy answer is retried `max_retries` - 1 times: `should_retry` compares the
  attempts made with what is documented as the number of retries
  (`src/src/diagnostics/nrc_handler.py:47`, `101`).
- A "once" handler may be told twice by two threads' publications.
- A flush that failed part way writes its rows a second time; an entry that
  comes into the buffer of a closed database stays there; a thread in `log()`
  may find `self.database` gone after it has tested it.
- The log's buffer is flushed by the next insert, not "every 100 ms"
  (`src/docs/architecture/system_architecture.md:67`): after the last entry of a
  burst nothing is written before there is another one, or `flush()`
  (`src/src/logging_system/log_database.py:93`).
- A J1939 message whose announcement was lost while the previous one was
  incomplete is put together from both (`bereft`).
- A JavaScript payload longer than one block stalls until its timers end it.
- In `ApiUds` an answer goes to whoever is pending, and a closed socket that
  subscribed in its last chunk keeps its session's timer alive.
- A session that was scanning when the API service stopped says so for ever.
- A flush to PostgreSQL that is refused has already taken what it rewrote off
  `dirty`; so has one that commits, if a row changed while its INSERT was under
  way. A change of a row held over an `await` marks nothing dirty. A new user and
  a new session in one flush are refused, the session coming first.

Fairness. `FairSpec` of `IsoTp` and `UdsExchange` is weak fairness on the steps
of a thread inside a call, timers included: the code blocks only in queue reads
with a timeout, so a thread always has an enabled step and the operating system
runs it. For threads that wait for the client's lock this asks more than a
single lock acquisition gives, but each caller makes finitely many calls.
`ServeSpec` adds that `ECUSimulator._serve` calls `receive()` again (it is a
loop), and strong fairness on taking a queued frame: `ListenTimeout` may come
between any two frames in the model, in the code the queue is read before the
deadline is looked at again. `ConnectionManager` has weak fairness on each
thread's operations and on the timers' ticks; nothing is assumed of the
operator, of losses or of failures. `TransferFairness` and `FlashFairness` are
weak fairness on the worker's steps and on the event loop that takes its signal;
neither the operator nor another panel owes a step, so `RunEnds` excepts a run
that is left paused and not cancelled. `JsFairness` is that promises, timers and frames of the
event loop are carried out, `WatchFairness` that the watchdogs' threads and a
caller inside a call go on. An ECU that answers for ever, traffic that never
ends and clock drift are outside.

## 5. Proofs

Every invariant, action property and refinement that a passing run checks is a
theorem for all values of the constants. TLC checks the small instance, TLAPS the
rest; where a theorem needs a condition the model does not have, the condition is
in its statement and named here with the code that meets it.

### The link

`IsoTpProofs`. `TypeCorrect` and `DeliveredInSequenceAlways` for every block
size, sequence modulus, set of lengths and number of faults, under
`StationAssumption`, `SizeAssumption` and `BoundAssumption`. `Spec` is used, so
late timers and foreign flow control are included. The property is not inductive
by itself: what is handed out was collected frame by frame. `SequenceInv` adds

- `FramesFaithful`: every queued frame carries what its sender's `send()` put in
  it, with the length of a payload that was submitted and a sequence number that
  is its position modulo `SequenceMod`;
- `SendersInSequence`: the sequence number a sender will use next is that of its
  position;
- `ReceiversInSequence`: a receiver's buffer is a prefix in sequence, shorter
  than announced, and the number it expects is that of its length.

It is initial (`SequenceInit`), every action keeps it (`SequenceStep`, one lemma
per group of actions), and it implies the property.

Of prompt stations (`PromptSpec`) three more things hold. `NoStaleFlowAlways`
needs `HandInv`, what the handshake leaves on the way: a first frame is the last
its sender has sent (`FirstLast`), a flow control frame is the only one and the
receiver has read all that was sent (`FlowFits`), sender and receiver agree
where the block ends (`SenderFits`, `InStep`), and what a sender that gave up
left behind makes the receiver ask for no further block unless that ends its
message (`LeftBehind`). `DeliveredIntactAlways` rests on it: while no stale flow
control lets a sender run ahead, all that a receiver collects is of one message,
the one in its first frame. `ImplementsChannelAlways` adds `FreshInv`, that the
numbers of the messages on the way rise, and maps each step to one of
`MessageChannel` or to a stutter. All three assume `BlocksFit`: a block size is
less than `BsMod`. The settings page offers 0 to 255 and starts with 8
(`src/ui/panels/settings_panel/settings_main_panel.py:181`), the simulator uses
8 (`src/src/communication/vci_drivers/virtual/ecu_simulator.py:218`); with a
size that does not fit its byte TLC finds `NoStaleFlow` violated, so the
condition is needed.

### The ECU and its client

`EcuSimulatorProofs`. `EcuTypeCorrect` and `LockedInDefault` (no level is
unlocked in the default session, which no run checks) hold for all
sessions, levels and limits that satisfy `EcuAssumption`. One step per handler;
the second theorem needs the type invariant only to know the session is one.

`UdsExchangeProofs`, for any number of threads. `UdsTypeCorrect` is the model's
`ExchangeTypeOK`. `WireOwnedAlways` holds under `ExchangeSpec`, with answers that come as late
as they like; its invariant adds `Numbered` (each call has its number, and what
is under way carries the number of a call that was made) and `OneFinal`: of one
exchange there is one final answer to come at most, which is why an exchange
that took its answer leaves nothing behind.

`OwnAnswerAlways` and `AgreementAlways` are about prompt answers (`PromptExchangeSpec`)
and assume `PendingCount <= MaxPending`: the ECU does not answer 0x78 more often
than the client follows. The simulator does it once
(`ecu_simulator.py:82`), the client follows twenty times
(`src/src/diagnostics/uds_client.py:63`); with two and one TLC finds `Agreement`
violated. `TurnInv` says that all that is under way is of the exchange that has
the lock, and nothing between exchanges. `Agreement` is stated for one operating
thread (`OneOperator`), since `uds_threads` shows that two diverge; `DebtInv` is
its invariant: the client describes the ECU but for the one answer that is on
its way, or waits to be applied, or was withheld from a quiet request.

### The services

`ServicesProofs`.

- `WholeOrGoneAlways` for any number of presses, failed starts and stacks, with
  and without `auto_reconnect`. `Lossless`: a timer is no older than its stack
  (`Counted`), health checks without anything to do (`Workers`), and the one
  operation that has the lock with what it has left or made of a stack so far
  (`Locked`, `Progress`).
- `CompletedMeansFlashedAlways`, `TransferPreparedAlways` for every script and
  file. `FlashInv`: everything before the runner's place in the script was done
  (`Underway`, `Done`), and a page that shows progress shows a valid script,
  which no edit reaches.
- `ReceivedWholeAlways` for all payloads, block sizes and dropped frames. While
  no `send()` overlaps another (`overlapped`, the history the property speaks
  of) one payload is on its way (`InTurn`), with one permit for frames at a time
  (`OnePermit`), its frames in the air in order (`InAir`) and the receiver's
  buffer a prefix of it (`AtReceiver`).
- `CompletedIsWholeAlways` (`TransferProofs`), the block transfer, for all files, runs, attempts and
  disturbed exchanges and every modulus of the block counter from 2. A refusal
  that comes late is taken for one of the block just sent, which is sent again
  although the ECU has it. `InStep` is why no harm comes of it: the ECU has the
  blocks before the current one and the counters agree; or it is one block
  ahead, and then it refuses the repetition as out of sequence, and only the
  late positive answer to the first sending, which names this very block, takes
  the thread on. It needs `LateInv`: one answer at most is late, to the last
  request the ECU answered, so a late positive answer to a block names the ECU's
  present counter. With modulus 1 a repetition could not be told from the next
  block (`EcuAssumption`; the code keeps the counter in a byte).
- `NoStrayDogAlways` for any number of callers, changes and timers. `WatchInv`: while
  calls do not overlap and no join is given up, one caller at most is inside, a timer
  that runs is the one in its place (so one that is made finds none), none is awake
  where a caller has told it to stop, and in the default session an awake one is
  about to stop itself unless a caller is on its way to do so.
- `ServicesTypeCorrect`: in the run `services` every component keeps its types.
  `TypeOK` of the connection needs that the thread that opens a stack opens the
  last one built, whose timer nobody has started yet (`ManagerInv`); the flash
  runner's needs `FlashInv`, as the place in the script is one because a running
  script is not edited, and that no more blocks are stored than the file has
  (`FlashBounded`); the JavaScript sender's follows step by step (`JsTyped`); the
  transfer's needs that the block counter has counted the blocks modulo its size
  (`TransferTyped`). The link's are the lemmas of `IsoTpProofs`, instantiated for
  this link (`Link`): `LinkConstants` shows that its constants are what those
  lemmas assume (`LinkAssumption`), `LinkSteps` that its prompt steps are theirs. The
  components are put together by `ServicesStep`: a step is one of one component, and for the others `UNCHANGED`; only the ECU's variable
  is shared, by the simulator, the transfer and the flash panel's requests.

### The threads

`ThreadsProofs`.

- `QuietBoundedAlways` for every interval and longest exchange: while the
  scheduler is in its session, its timer is not stopped, what time it has left fits
  what has passed since the last exchange, and a tick is left out only when one
  has ended less than half an interval ago (`AliveInv`).
- `AssembledIsWholeAlways`, `NothingForgottenAlways` for any nodes, messages and
  frames lost. `JInv`: what the reader has of a node that lost no announcement
  (`bereft`) is a prefix of the message the node is sending. `KeptInv`: the
  queue, what the caller set aside and its answer are disjoint and hold each
  message once; a new message is new because its last frame has not been sent
  before (`Heard`).
- `RateTypeCorrect`, `RateAlwaysKept` for every rate, price, capacity, patience
  and set of senders. `RateKept` compares with the present time and is not
  inductive; `Balance` compares with the time of the last refill. A step that
  refills moves both (`RefillBalance`), and what time adds in between is what
  the next refill may add.
- `NoLostWakeUpAlways`, `ServesByPriorityAlways` (the refinement to the
  `LooseSpec` of `PriorityBag`) for every limit, number of consumers and of puts, and for every
  heap the library may make (`QueueInv`).
- `OnceIsDroppedAlways`, `OnlyPredicatesBreakOffAlways` for any offers, publishers and
  nesting. `BusInv`: what a publication still owes is in the rest of its
  snapshot, and the handler it is in was the first of that.
- `EveryStepReportedAlways` for any number of steps, presses and cancels.
  `TestInv`: the collector of a run of all that has it for itself holds one
  result for each step so far, and once one is cancelled so are those after it.
- The types: `AliveTypeCorrect` and `RateTypeCorrect` follow from the invariants
  above. `QueueTypeCorrect` adds that the list has no more entries than were put
  in (`QueueBounded`), `BusTypeCorrect` that every publication of a thread but
  the innermost waits inside a handler (`BusTyped`), `TestTypeCorrect` that
  threads start in order and are at steps of the sequence (`TestTyped`),
  `JTypeCorrect` that an open session has fewer packets than were announced and
  that what is queued is made of the nodes' packets (`JTyped`).

### The API service, the log

`MCThreadsProofs`. `TicksForSubscribersAlways` and `ScanningIsRunningAlways`
for any number of users, sockets, sessions and restarts. The first is inductive
with the types of what is read; the second needs `ScanInv`: a session the
stopped service was scanning stays one on which no scan is started or ended.
What the store's order decides, which session a deletion hits, plays no part.
It does in `ApiTypeCorrect`: that the store lists no session twice needs that all
it lists were created (`Listed`), in memory and on disk, and that the position a
deletion takes from the user's own sessions is one of the store
(`PositionInStore`), the right one or not.
`UdsTypeCorrect` and `AlwaysReadyAgain` for any number of calls: whichever
failure, timer or answer ends a call, nobody is pending afterwards but a call
that waits.

`KeepsUpAlways` and `PgTypeCorrect` for any tables, references, requests and
outages. `PgInv`: neither what is committed nor what the open transaction sees is
later than memory, unless the row was removed; the transaction is not earlier
than what is committed but for rows it has deleted; and of those a user is one
only between the DELETE of their table and its INSERT, which comes last. It needs
that users refer to no other row (`SchemaAssumption`;
`src/database/migrations/0001_init.sql:7`), since otherwise emptying another table
could take one along.

`LogTypeCorrect`, `NothingSkippedAlways` and
`ClosedIsStoredAlways` for any number of threads, entries, refused writes and
calls of `close()`, and every size of the buffer. The invariant is `Whole`: the
accepted entries are those that are stored and then the buffer, and the rows,
like those of an open transaction, repeat them with none before its
predecessors. It is kept by the three things a flush can do (one lemma each);
`Single`, that no entry is accepted twice, is what lets a row tell its entry.

### The components together

`ThreadsImplementComponents`: a behaviour of `threads` is one of every component
in it, as whoever does not step leaves its variables alone. So each theorem above
about a component's own specification is one about the run; with them and the
types of `TransferProofs` `ThreadsTypeCorrect` is proved, `ThreadsSpec =>
[]ThreadsTypeOK`. (`Transfer`'s specification has fairness, which the run does not
ask for; of it the theorem takes the initial states and the steps.)

### What the proofs changed

Three types that held in the runs were wrong for other constants, and the proof
attempts showed it. `JTypeOK` said that an open J1939 session has packets of its
announcement only: when an announcement is lost while a longer session is open,
the next message's packets go into that one, with numbers of their own (the
behaviour named in section 4); it now says so for nodes outside `bereft`, and
that packets are missing for all. `TestTypeOK` was false with no step in the
sequence, where the screen has no Run button: the guard of `PressRun` was
missing. `ConnectionManager`'s said of a bound that it is not reached, which no
proof can show with a lost channel, as the stacks then have no bound; it is one
now. The bounds have the assumptions the types need (`OutboxAssumption`,
`OffersAssumption`, `TestAssumption`, `PayloadsAssumption`, `WatchAssumption`,
`ApiAssumption`): they are natural numbers, and the J1939 queue holds something.

### What only TLC checks

- Liveness: `CallReturns`, `RequestReturns`, `EveryPayloadArrives`, `OperationsReturn`,
  `LossReported`, `RunEnds`, `RunReported`, `BlockArrives`,
  `FirstExpiryFallsBack`. The provers have no rule for fairness and ENABLED.
- The seven violations: a counterexample is one on the instance.
- What depends on induction over data. The library's induction theorems take an
  operator as a parameter, which the provers cannot instantiate; `LeastNumber`
  (`SequenceLemmas`), that a set of numbers has a least one, is as good for
  numbers, and the proofs use it, but not for structures.

## 6. Plan

Done: the link, the simulator, the client, the connection; the download, the
flash runner, the test runner; session watch, tester present, rate limiter,
queue, bus, log store; J1939; the API service's sessions, PostgreSQL store,
console and ISO-TP. Next:

1. `DoIP`: the alive check and diagnostic calls on one socket.
2. `TransferManager.upload()`, beside the download it resembles.
3. `IsoTp` with the reader thread and `try_reconnect`, and a run at the block
   size that does not fit its byte.
4. `ParallelTestRunner` and the test scheduler, which the user interface does
   not use.
5. `PgStore` with two flushes at a time and their locks, and a restart.

### Not modelled

- Vendor drivers: bindings to foreign libraries, without state of their own.
- K-Line, LIN, FlexRay: half duplex and slots timed at bit level; what is
  concurrent in them is the line, not the code. SOME/IP: encoding.
- J1939 addressing and decoding, ODX, data processing, code generation: functions
  of their input, with no interleaving and no state that outlives a call.
- Widgets, themes, generated resources, dashboards: layout and wording, most of
  the repository's lines. What the user interface adds to the behaviour, its
  threads and which buttons are enabled when, is in `UdsExchange`,
  `ConnectionManager`, `Transfer`, `Flash` and `TestRun`.
- Of logging: the ring buffer, the file, the listeners, reading and export. The
  application's start-up, configuration, projects, licences, plugins, build
  scripts: sequential file handling. Its shutdown is in `ConnectionManager`,
  `EventBus` and `LogStore`.
- Of the API service: what the routes of users, vehicles, reports and
  authentication put into a record; they read and write one in one step, and
  `PgStore` has them as that.
