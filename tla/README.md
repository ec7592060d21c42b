# Verification of the reactor network library

TLA+ models of the library in `src/` (namespace `adachi`): a multi-reactor TCP
server with cross-thread task queues, a timing-wheel heartbeat, an
asynchronous logger and a key-value service on top. Each module is translated from the C++ source; TLC checks
it on small instances and TLAPS proves the main safety results for all values
of the constants. `PROJECT.json` maps every definition to the lines it models.

## 1. The system and its parts

| part | state | operations | uses / used by | hard because | correct when |
|---|---|---|---|---|---|
| `EventLoop` | `quit_`, eventfd, `missions_` (under `mtx_`), epoll set | `Loop`, `StopLoop`, `Submit`, `SubmitAndWait`, `WakeUp` | run by one thread, called by all | push/wakeup and drain/swap are separate steps; signals; saturated eventfd | no lost wakeup; missions once and in order; waiters return; a stop ends the loop |
| `EventLoopThread` | `loop_` (under `mtx_`), the thread | `Start`, `Join`, destructor | owns a loop on its thread's stack | publication races with stop | `Start` returns a live loop; join ends |
| `EventLoopThreadPool` | threads, `pos_`, `num_`, `running_` | `Start`, `GetOneThread`, `SetSize`, `Close` | used by `TcpServer` | loops that ended by themselves, second `Close` | round robin within range, no use of dead loops |
| `Epoll`, `Channel` | interest, `active_events_`, `owner_`, tie; raw pointers in epoll and in the loop's `active_list` | `Poll`, `AddChannel`, `UpdateChannel`, `DeleteChannel`, `SetActive`, `Handle`, `Tie`, `RemoveFromLoop` | between loop and connection | dispatch from stale events; the last `shared_ptr` may go on another thread during a dispatch | no callback on a dead or closed object; no dangling registration; closed objects are freed |
| `TcpConnection` | `status_`, `close_requested_`, two buffers, socket | `Activate`, `Read`, `Write`, `WriteFd`, `Close`, `SaveLifeMechanism` | channel callbacks, missions, other threads | partial writes, deferred close, calls from other threads, heartbeat expiry in mid-batch | stream intact; torn down once; no I/O after close; close completes |
| `Buffer` | vector, `readptr_`, `writeptr_` | `ReadFd`, `WriteFd`, `WriteBuffer`, `ReadBuffer` | `TcpConnection` | move, enlarge and scattered read in one call | FIFO of bytes, bounded growth |
| `Timer`, `HeartBeatObj` | wheel of shared pointers, `ptr_`, `last_insert_pos_` | `Insert`, `Tick`, timerfd callback, `~HeartBeatObj` | refreshed by `Read`, closes connections | wrap-around, duplicates, bursts of ticks | closed exactly N ticks after the last refresh |
| `AsyncLogging` | current/next buffer, queue, free list, `running_`, `wake_requested_` | `Append`, `BackendThreadFunc`, destructor | every thread logs | wakeup without the mutex, limits, shutdown | accepted messages reach the file in order; bounded; destructor ends |
| `TcpServer`, `Acceptor` | base loop, pool, `tcpst_` | `Start`, `Close`, new-connection task | composes all of the above | lifetimes, shutdown order across loops | no deadlock on close, set consistent |
| KV (`KVServer`, `KVService`, `ProtocolCodec`, `KVStore`) | one map under a mutex, the read buffer of each connection | message loop with `HeadCheck`, `ShouldGet`, `BodyCheck`, `ShouldEcho`; encode and decode; put, get, del | `onmessage_` of every connection, on all io threads | requests arrive in pieces or several at once; malformed ones in between; threads share the map | framing never lost; one atomic map; every request answered once, in order, under its id |
| `Socket`, `INetAddress`, `Logger` formatting, tests, scripts | none of protocol interest | | | | |

Threads meet in three places only: the mission queue of a loop, the unlocked
fields of a connection (`close_requested_`, `owner_`), and the logger.

## 2. Modules

| module | models | state / actions |
|---|---|---|
| `TaskQueue` | what `Submit` promises (abstract) | a FIFO queue, `Put`, `Take`, `RunNow`, `Close` |
| `EventLoop` | one loop, its thread, its clients | program counters `lpc` (loop thread) and `pc` (clients); one action per atomic step of the code: a critical section, a system call, an atomic store |
| `MCEventLoop` | instances | task bounds per thread |
| `TcpConnection` | a connection with its channel on its loop, callers, peer and kernel | the record `conn` holds the object and the socket; member functions that run on the loop thread are operators on it; a call from another thread is two or three actions |
| `Lifetime` | the references to the connections of one io loop, and the raw channel pointers | `refs[c]` is the set of `shared_ptr`s; the loop's batch is a list of channels; `Handle` is one step per callback, and the close at the end of a flush two (`FlushClose`, `FlushRemove`); the base loop and the users drop references in between |
| `Buffer` | the byte buffer | the record `b`; member functions are operators, each call an action |
| `IdleTimeout` | what the heartbeat promises (abstract) | a count of ticks per connection |
| `TimerWheel` | wheel, objects, timerfd | `wheel[s][c]` counts pointers; the ticks of one callback are single steps |
| `TcpServer` | server, acceptor, pool of io loops, owner thread, peers | each loop is the FIFO of `TaskQueue`; a connection is its stage (`cst`); a program counter per thread |
| `AsyncLogging` | logger | buffers as message sequences and counts; producers, backend, destructor with their own program counters |
| `KVCodec` | conversions between flow, packet, request and response | operators only |
| `KVMap` | what the KV service promises (abstract) | one map, a queue of packets and the answer that is due per connection; legal requests take effect, others are answered with some error; `Execute`, `Reply` or `Lose`, `Refuse`, `HangUp` |
| `KVServer` | message loop, service and store on the io threads of several connections | read buffer and wire per connection as sequences of units; an iteration of the loop is `Serve` then `Reply` |
| `MCKVServer` | instances | one packet of each kind the service tells apart |
| `EventLoopProofs`, `TcpConnectionProofs`, `LifetimeProofs`, `BufferProofs`, `TimerWheelProofs`, `TcpServerProofs`, `AsyncLoggingProofs`, `KVServerProofs` | theorems | |

Operators whose comment begins with "Mutant" are deliberate faults of the
definition that follows them; no specification uses them. They document, for
each property, a mistake it would catch.

Choices worth knowing:

* `EventLoop`: mission bodies are opaque. `PollReturn` also stands for the
  100 ms timeout and for events of other channels. `Submit` on the loop's own
  thread is called from a channel callback. Clients do not use a loop whose
  thread has ended. `executed` and `missed` are history variables.
* `TcpConnection`: a read delivers one of four chunks, as far as the default
  `onmessage_` tells them apart (part of a frame, a frame, an oversized length,
  a frame followed by one). Messages are sequences of tagged units and the
  kernel takes as many as it has room for. Writes to a reset socket fail with
  an error (the process ignores SIGPIPE). The object stays alive here
  (see `Lifetime`); `owner_` becoming null under a caller is a crash
  (`lpc = "crashed"`). `Disconnect` is the end of both teardown paths
  (`CloseInThread` and `WriteFd`), whose order of the last calls differs; nobody
  sees the difference in this module, it matters in `Lifetime`.
* `Lifetime`: which callbacks a `Handle` runs, and which of them close the
  connection or another one a user holds, is left open, so every protocol above
  is covered. There are two orders of teardown: `CloseInThread` takes the
  channel from the loop and then submits the erasure (`Close`, one step: the
  erasure can run only after it), `WriteFd` submits the erasure first
  (`tcpconnection.cpp:160`), so that the base thread may erase the connection
  while its channel is still registered; only the local `self`, a reference of
  its own in the model, then keeps it alive. A destroyed connection is one without references. The destructor
  changes nothing, because the channel has left the loop by then; that is
  `OutlivesRegistration`. `epoll_ctl` may fail when a channel is added: the code
  leaves `owner_` set then. A use of a destroyed channel ends the behaviour and
  is recorded in `uaf`: `"own"` if the channel died during its own `Handle`,
  `"stale"` if it was dead or closed before its turn in the batch.
* `KVServer`: every integer of the protocol is one unit, a header seven units;
  limits are small numbers. `checks` says which functions the service was built
  from: `"default"` are those of the source, `"supplied"` are functions given
  by the user that differ from them only in decoding the header by itself
  (these are not in the source; they exist because the defaults refuse every
  body, see below). The end of a connection by peer, reset or heartbeat is one
  event, `PeerGone`. A reply is one `Write`, whose delivery is `TcpConnection`'s
  business. Branches that no input reaches are folded into their neighbours:
  `BodyCheck` failing after `ShouldGet` has succeeded, and a reply that cannot
  be encoded. `KVMap` does not repeat the code's choice of an error status: an
  unsupported opcode must be named as such, a body that means nothing is
  `kBadRequest` or one of the statuses for what is too large, and a request
  whose own status is not zero, which the protocol document excludes, may get
  any error. What the code does there is listed among
  the limits below.
* `TcpServer`: the loops are used through what `EventLoop` establishes: missions
  in order, synchronous waits, and a loop told to quit may leave with missions
  queued. `IoClose` is the moment of teardown, which `TcpConnection` leads up
  to. Loops do not end by themselves and have entered `Loop()` before they are
  stopped. `Start` is called once. `GetOneThread` is two actions, because
  `SetSize` may change `num_` in between. A call on a loop whose thread has ended
  is undefined and ends the behaviour (`crashed`).
* `TimerWheel`: `closed` means that `Close()` has been called.
* `AsyncLogging`: queued buffers are their number and the concatenation of
  their contents. The file can be opened and written. `current_buffer_` is never
  null while the object lives, so the code's test for that has no action.

## 3. Runs

| run | bounds | shows |
|---|---|---|
| `EventLoop` | owner with one mission, a client with two, one by the loop to itself, `EvMax` 2, signals and poll errors | `TypeOK`, `NoLostWakeup` (missions and stops), `WaitIsSynchronous`, `ImplementsTaskQueue` (refinement), `MissionsExecuted`, `StopHonoured` |
| `TcpConnection` | two callers with two messages of two units between them, a send buffer of one unit, one message at setup, one chunk from the peer, resets | `TypeOK`, `StreamIntact` (content and each writer's order), `TornDownOnce`, `NoIOAfterClose`, `ClosingIsFinal`, `CloseCompletes`, `OutputFlushed` |
| `TcpConnectionArmed`, `TcpConnectionCallers` | as above with the case in question allowed | **violated**: `PendingWriteArmed`, `CallersSafe` |
| `Lifetime` | two connections on one loop, with and without heartbeats | `TypeOK`, `OutlivesRegistration`, `GuardedByTie`, `Reclaimed` |
| `KVServer` | two connections; one sends two packets of nine kinds, cut once within the first header, behind it or within the second; the other changes the map meanwhile; both kinds of checks | `TypeOK`, `InSync`, `ImplementsMap` (refinement), `Answered` |
| `KVServerDefault` | the same with the default checks | **violated**: `ClosedOnlyAtBadHeader` |
| `TimerWheel` | two connections, three slots, bursts of up to four ticks | `TypeOK`, `WheelBounded`, `ImplementsIdleTimeout` (refinement), `SilentReclaimed` |
| `AsyncLogging` | two producers with two messages of one or two units, buffers of two units, a queue of one | `TypeOK`, `LogsConserved`, `QueueBounded`, `FlushedWhenGone`, `LogsWritten`, `DestructorEnds` |
| `Buffer` | vector of three, spare array of two, messages up to four, twelve bytes in all | `TypeOK`, `FifoIntact`, `GrowsOnlyToPeak` |
| `TcpServer` | up to two io loops, resized at any time, three connections, heartbeat on and off, explicit and implicit close | `TypeOK`, `OpenAreRegistered`, `NoGhosts`, `HandedToLiveLoop` (and never refused), `Balanced`, `Served` |
| `TcpServerClose` | two connections, closed by the destructor only | **violated**: `LoopsOutliveCalls` |

The bounds are the smallest at which each interesting case occurs: an eventfd
that saturates (three writes, limit two); a message larger than the send
buffer, so that every write can be partial, and two writers behind it; a burst
longer than the wheel; a logger whose queue is full after two messages; a
vector that must be moved, enlarged, and both; more connections than loops, so
that the round robin wraps and a second task queues behind a waiting one; a
batch in which one channel's callback closes the other; a malformed request
in front of a good one, in one read or torn apart. `CHECK_DEADLOCK FALSE` is used
where the system ends (loop joined, connection closed, logger or server
destroyed, bound on bytes or requests reached).

### Fairness

* Loop thread, clients inside a call, producers, backend and destructor: weak
  fairness of their steps. The scheduler runs a thread that can run. Nobody is
  obliged to begin a call.
* `PollReturn`: strong fairness. `epoll_wait` has a timeout of 100 ms;
  signals may interrupt it, but not every time for ever.
* `AsyncLogging`'s `Timeout` is part of the backend's steps: `wait_for` ends
  after a second.
* `TcpServer`: weak fairness of each thread's steps; strong fairness of the
  base loop's missions, of its quit test and of a successful `accept4`: every
  iteration of `Loop()` runs the missions and tests `quit_` whatever the accept
  callback met, and `accept4` does not fail for ever.
* `KVServer`: weak fairness of each io thread while it has something to do.
  `Lifetime`: weak fairness of the io loop's own steps and of the base loop's
  erasures; the user is not obliged to close or to let go of anything.
* `PeerTakes`: the peer goes on reading while the connection lives. Without it
  a close with pending output never completes, by design of the code.
* `TimerExpires`, `TimerRead`, `Tick`: time passes and the loop reads its
  timerfd.

### Disagreements between code and documentation

1. `TcpServerClose`: `Close()` ends the base loop before the io loops, which
   still call it to register and erase connections: use of a destroyed loop, or
   a wait that never ends. The model has other ways into the same fault: a
   connection's teardown in that window, the destruction of a wheel with live
   connections (heartbeat on), of `tcpst_` with open connections (heartbeat
   off), and a second `Close()` by the destructor.
2. `TcpConnectionArmed`: `Activate` overwrites the `kWrite` registered by a
   `Write` in the new-connection callback.
3. `TcpConnectionCallers`: `Write`/`Close` from another thread can dereference
   a null `owner_`, although they are documented as safe to call.
4. `KVServerDefault`: the default `HeadCheck` decodes the header with a length
   that leaves no room for a body, and so closes the connection at every PUT,
   GET and DEL.

Limits of the code that show in the models without a run of their own:

* `Loop()` clears `quit_` after the loop was published (`eventloop.cpp:66`); a
  stop in between is lost. `StopHonoured` speaks of stops after that store.
* A reset with output pending leaves the connection closing for ever
  (`tcpconnection.cpp:271`). `CloseCompletes` excepts it, and only it: a reset
  without pending output must complete the close.
* A channel that is closed and erased while it waits in the current batch is
  used after its destruction (`eventloop.cpp:79`): the tie is read from the
  channel itself. Without heartbeats nothing is tied, and a channel may also
  die in its own `Handle`. In `Lifetime` both are `uaf`; `GuardedByTie` is about
  what the tie does protect.
* `AddChannel` leaves `owner_` set when `epoll_ctl` fails, so a caller that
  follows `channel.h:11` and looks at `GetOwner()` does not notice.
* A request whose status field is not zero is neither executed nor recognised as
  illegal but answered with that same status (`kvservice.cpp:95-100`), so that a
  client can be told `kNotFound` about a key the store holds. The protocol
  document fixes the field to 0 in requests (`kv协议.md:26`) and wants illegal
  packets treated as errors (`:179`). `ImplementsMap` shows what holds of them
  nevertheless: they never take effect and are never answered with success.
* The statuses the protocol document has for a body, key or value that is too
  large (`kv协议.md:85-87`) are never sent: such a request is answered with
  `kBadRequest`, or its connection is closed. `KVMap` allows either status.

## 4. Theorems

All are of the form `Spec => ...`, without fairness, from the named
assumptions on the constants only: sizes positive, the loop thread not among
the clients, the owner among them, a message no longer than a buffer; for the
KV service, packets whose header announces the length of their body or more than
the service accepts, and whose keys and values consist of bytes
(`ClientsAssumption`, `BytesAssumption`). Any opcode, request id, status, magic
number and any layout of a body is allowed. TLC evaluates all of them.

* `EventLoopProofs`: `TypeCorrect`, `WakeupNotLost`,
  `LoopImplementsTaskQueue`, `SubmitAndWaitIsSynchronous`.
  `NoLostWakeup` speaks of the moment before `epoll_wait`; `WakeInv` extends it
  to every point of the loop except between drain and swap, where the queue is
  about to be taken. The refinement maps the queue to the rest of the batch
  followed by `missions_` and needs `BatchInv` (the batch is empty outside the
  run of missions). `SyncInv` adds to `WaitIsSynchronous` that a client has at
  most one pending waiting mission and what `lpc = "notify"` means.
* `TimerWheelProofs`: `TypeCorrect`, `WheelIsBounded`,
  `WheelImplementsIdleTimeout`. `WheelInv` says that the newest pointer of a
  live object sits in the slot `last_insert_pos_` names and that all its other
  pointers are older; so the object dies exactly when that slot is cleared,
  and the abstract idle count is the age of that slot.
* `AsyncLoggingProofs`: `TypeCorrect`, `AcceptedLogsConserved`,
  `DestructorFlushes`, `QueueIsBounded`. `PathInv` adds that a count of zero
  means no contents (the backend's exit test looks at counts), that the backend
  holds messages only between collection and write, and that nothing is
  accepted once the destructor has begun.
* `TcpServerProofs`: `TypeCorrect`, `OpenConnectionsRegistered`,
  `SetHasNoGhosts`, `HandedToLiveLoops`, `RoundRobin`.
  `Inv` ties the stage of a connection to the place it is in: queued in its own
  loop and once (`QueuedInv`), held by the setup task of its loop (`SetupInv`),
  or named by a mission of the base loop (`MissionInv`). The part that matters
  is that a queued insertion always has its io loop waiting for it, so it
  cannot follow the erasure that the same loop submits later. `PickedInv` keeps
  the picked loop among the threads across a `SetSize` between the two halves
  of `GetOneThread`, and `PoolInv` and `JoinedInv` order the life of the pool
  around that of the base loop. `RoundRobin` (`Balanced`) needs more than that
  the loads are level up to one: `RoundInv` says which loops are one ahead, the
  ones before `pos_`, also between the two reads of `num_`.
* `LifetimeProofs`: `TypeCorrect`, `RegistrationsValid`, `TieProtects`, for any
  finite set of connections. `RefsInv` says who refers to a connection at each
  point of its life: an open one is in the set (and tied, with heartbeats on),
  an erasure is queued only for a closed one, and only an open one has an
  owner, or the one whose flush is closing it, which (`HandleInv`) `self` holds.
  `OutlivesRegistration` follows although it says nothing of the set.
  `HandleInv` adds that a `Handle` that began on an open connection holds a
  guard, which no closing and no erasure removes.

* `TcpConnectionProofs`: `TypeCorrect`, `StreamNeverTorn`, `ClosedOnce`,
  `DescriptorSafe`, and the action property `NoWayBack`, for any callers and any
  sizes. `Sound` is what every member function on the loop thread preserves,
  with one lemma per function; the callers' steps are outside of it. The order
  of each writer's messages holds only because of what waits in the mission
  queue: `Queued` says that a caller's queued messages are in order, newer than
  all of it in the stream and older than the one it is about to submit;
  `Written` and `Counts` bound what the loop thread itself may write.
* `BufferProofs`: `TypeCorrect`, `BytesInOrder`, `VectorBounded`, for any sizes.
  The bytes are numbered as they arrive; the invariant says that the part of the
  vector between the two positions shows exactly the numbers `out + 1 .. in`, and
  one lemma per member function says what moving, enlarging and the scattered
  read do to that part.
* `KVServerProofs`: `TypeCorrect`, `FramingKept`, `ServerImplementsMap`, for any
  connections, packets and cuts of the stream.
  `ConnInv` has, per connection, the types, `InSync`, and what the program
  counter says of the reply under way. `FramingKept` rests on the algebra of
  `Stream`, a recursive function: appending a packet extends it at the end,
  taking one removes its flow from the front (`StreamAppend`, `StreamDrop`), each
  by considering the least position at which it would fail (`Least`).
  `FrontHead` and `FrontPacket` turn it into what the parser sees: as soon as
  the buffer is long enough it decodes to the next packet sent.
  For the refinement, `KVMap` says what a body means through the encoder
  (the request it would be the encoding of), while the service parses it. The
  codec lemmas show that the two agree: a body decodes exactly if there is such
  a request, there is never more than one, and it is the one decoded
  (`MeaningDecodes`, `DecodedIsMeaning`, `OneMeaning`). With `AnswerRead` and
  `RoundTrip` for the way back, `ServiceIsMap` makes one `Serve` one step of the
  map: a legal request has the map's one result, any other leaves the map alone
  and gets one of the errors it may get; and `ImplStep` has
  one lemma for each action.

Only model-checked: the liveness properties (`MissionsExecuted`, `StopHonoured`,
`CloseCompletes`, `OutputFlushed`, `Reclaimed`, `Answered`, `SilentReclaimed`,
`LogsWritten`, `DestructorEnds`, `Served`): the prover does not handle fairness.
Every invariant, every action property and every refinement that a passing run
checks is also proved.

## 5. Not modelled

Message formatting, addresses and socket options: sequential code without
state of its own. Failing `fopen` and `fwrite` (the logger then
throws its buffers away, without a trace) and failing allocation. Data races beyond the unlocked reads described above. Byte order
and field widths of the KV protocol: each integer is converted once on the way
out and once on the way in, and the limits keep all sizes far below 2^32. The test
programs and scripts. See the components and hazards of `PROJECT.json`.

## 6. Plan

1. Done: event loop, connection, buffer, timing wheel, logger, server,
   lifetimes, KV service; the theorems above.
2. Left: the safety half of the liveness results where it is an invariant of
   its own, as `NoLostWakeup` is for `MissionsExecuted` (a closing connection with
   output pending stays registered for writing; a complete request never waits
   in the buffer of an idle io thread), and shorter proofs of the lemmas on sequences that `BufferProofs`,
   `TcpConnectionProofs` and `KVServerProofs` each prove for themselves.
