# netlib: a TLA+ model of the reactor library

netlib (`src/netlib`) is a C++11 network library for Linux: one event loop per
thread over epoll, TCP connections with buffers, timers over a timerfd, a
server and a client, thread primitives and an asynchronous logger.  This
project models its concurrent core, its server and client and its logger, checks
them with TLC on small instances and proves parts of them with TLAPS for
instances of every size.

## 1. The system

Paths are relative to `src/netlib`.  "Hard" names what a test hardly reaches.

| part | state | operations | interacts with | hard | what makes it correct |
|---|---|---|---|---|---|
| `net/EventLoop` | `_quit`, `_looping`, `_callPendingFunctors`, `_pendingFunctors` under `_mutex`, eventfd, active channels | `loop`, `quit`, `runInLoop`, `queueInLoop`, `wakeUp`, `handleRead`, `dpPendingFunctors` | every other part posts functors to it | posts between swap and sleep, eventfd at its limit, quit before loop | no sleep past a functor or a quit; functors in order, each once; the loop is not starved |
| `net/Chnnel` | interest, `_revevts`, flag, tie | enable/disable, `handleEvent`, `remove` | EventLoop, Epoller, its owner | an owner that dies during dispatch, stale events | handlers run only while the owner lives; removed once |
| `net/Epoller` | map from descriptor to channel, event array | `poll`, `updateChnnel`, `removeChnnel` | Chnnel, epoll | flags in step with the kernel | the map, the flags and epoll agree |
| `net/TcpConnection` | `_state`, `_reading`, channel, two buffers, callbacks | `send`, `shutdown`, `forceClose`, `forceCloseWithDelay`, `startRead`, `stopRead`, event handlers, `connectEstablished`, `conncetDestoryed` | loop, server or client, user code in any thread | partial writes, close by both sides, unlocked `_state`, lifetime | the byte stream is intact; FIN after the data; one tear-down |
| `net/Buffer` | vector, two indices | append, retrieve, prepend, shrink, `readFd` | TcpConnection | grow/move boundary, read past the writable area | it is a byte queue; header reserve; bounded memory |
| `net/TimerQueue`, `Timer`, `TimerId` | two sets of timers, timerfd, set of timers cancelled during callbacks | `addTimer`, `cancleTimer`, `handleRead`, `reset` | loop, user callbacks | cancel inside callbacks, stale ids with reused addresses | the sets agree; a cancelled timer stays cancelled; the timerfd is armed |
| `net/EventLoopThread` | `_loop` under `_mutex`, condition, thread | `startLoop`, `threadFunc`, destructor | EventLoop, Thread | unlocked read of `_loop`, quit before loop, loop that ends early | a live loop is returned; the destructor ends the thread |
| `base/Thread`, `CountDownLatch`, `Condition`, `Mutex` | thread id, latch count | `start`, `join`, `wait`, `countDown` | EventLoopThread, AsyncLogging | spurious wakeups, notify before wait | the started thread is known |
| `net/EventLoopThreadPool` | loops, `_next` | `start`, `getNextLoop`, `getLoopForHash` | TcpServer | index at the end of the vector | round robin over live loops |
| `net/TcpServer` | map of connections, `_started` | `start`, `newConnection`, `removeConnection`, destructor | Acceptor, pool, TcpConnection | removal across two loops, destruction with live connections | each connection established and destroyed once |
| `net/Acceptor` | listening channel, reserve descriptor | `listen`, `handleRead` | TcpServer | descriptor limit | a waiting client is accepted once a descriptor is free |
| `net/Connector` | `_connect`, `_state`, channel, retry delay | `start`, `stop`, `restart`, `retry`, handlers | TcpClient, timers | stop and start in one batch, late retry timer | one attempt at a time |
| `net/TcpClient` | connection under `_mutex`, `_connect`, `_retry` | `connect`, `disconnect`, `stop`, destructor | Connector, TcpConnection | destruction while connecting | the connection outlives its callbacks |
| `base/AsyncLogging` | two front buffers, full buffers, `_running` | `append`, `threadFunc`, `start`, `stop` | every logging thread, LogFile | stop with messages pending, overload | what is appended is written, in order |
| `base/LogFile`, `FileUtil` | file, count, times of roll and flush | `append`, `flush`, `rollFile` | AsyncLogging | two rolls in one second | the file rolls when it must |
| `base/Logging`, `LogStream` | line buffer, stamp cached per thread, global level, zone and output | `LOG_x`, `setTimeZone`, `setLogLevel`, `~Logger` | all | cached stamp, nearly full line buffer | each line shows its own instant and fits its buffer |
| `base/Date`, `Time`, `TimeZone` | values | calendar arithmetic, transitions | logging, timers | boundaries | agree with the calendar |
| `net/SockAddr`, `Socket`, `SockFunc` | a descriptor | system calls | all of net | `accept()` overwrites `errno` | |
| `base/CurrentThread`, `Exception`, `ProcessInfo`, `WeakCallBack` | thread-local caches, weak pointer | | | weak pointer to a dead object | the call is made only on a live object |

Two channels tie the parts together.  *Functors*: any thread hands work to the
loop thread, which runs it between two polls; this is the only way operations
of another thread reach a connection or a timer queue.  *Shared pointers*: a
connection lives as long as the server's map, a bound functor or a user holds
it, but several functors bind a raw `this`.

## 2. The modules

| module | models | kind |
|---|---|---|
| `FunctorQueue` | what `queueInLoop` promises: one FIFO queue run one element at a time | abstract specification |
| `EventLoop` | `EventLoop.cc`, with `poll` of `Epoller.cc` | state machine |
| `EventLoopThread` | `EventLoopThread.cc`, `Thread.cc`, `CountDownLatch.cc`; composes the actions of `EventLoop` | state machine |
| `EventLoopProofs` | | theorems on `EventLoop` and `EventLoopThread`, and that the second implements the first |
| `ConnectionLife` | what the library promises about a connection: made, open, closed, removed, destroyed, once each and in this order | abstract specification |
| `TcpConnection` | `TcpConnection.cc` with its channel, its registration and the removal by `TcpServer.cc` | state machine |
| `TcpConnectionProofs` | | theorems on `TcpConnection`, and that it implements `ConnectionLife` |
| `TimerQueue` | `TimerQueue.cc`, `Timer.cc`, `TimerId.h` | state machine |
| `TimerQueueProofs` | | theorems on `TimerQueue` |
| `Buffer` | `Buffer.cc`, `Buffer.h` | state machine over bytes |
| `BufferProofs` | | theorems on `Buffer` |
| `TcpClient` | `Connector.cc`, `TcpClient.cc`; the connection is reduced to open and closed | state machine |
| `TcpClientProofs` | | theorems on `TcpClient` |
| `TcpServer` | `TcpServer.cc`, `Acceptor.cc`, `EventLoopThreadPool.cc`; connections and loops are reduced to their life and their queues | state machine |
| `TcpServerProofs` | | theorems on `TcpServer`, and that it implements `ConnectionLife` |
| `AsyncLogging` | `AsyncLogging.cc`, `LogFile.cc`, `FileUtil.cc` | state machine |
| `AsyncLoggingProofs` | | theorems on `AsyncLogging` |
| `TimeZone` | `Date.cc`, `TimeZone.cc` | operators, no state |
| `Logger` | `Logging.cc`, `LogStream.cc`; uses `TimeZone` and a calendar that counts days | state machine |
| `LoggerProofs` | | theorems on `Logger` and the operators of `TimeZone` |
| `MCEventLoop`, `MCEventLoopThread`, `MCTcpConnection`, `MCTimerQueue`, `MCTcpClient`, `MCTcpServer`, `MCLogger` | | instances for TLC |

**Atomicity.**  A step is what another thread can see at once: a critical
section, an access to an atomic or unlocked shared variable, a system call.  In
`EventLoop` the push to the vector, the test after it and the write to the
eventfd are separate; `t \in todo` is a thread between them.  In
`TcpConnection` a handler of the loop thread is one step, but the operations of
other threads are split into the unlocked test of `_state` (`OffLoopTest`), the
store (`OffLoopMark`) and the post (`OffLoopPost`).  Between the return of
`epoll_wait` and the dispatch of a channel, callbacks of other channels may call
anything, so `revents` may be stale.  In `TimerQueue` a timer's callback is the
interval between `TimerStarts` and `TimerReturns`, in which user code adds and
cancels.  `TcpClient` runs the loop in passes (poll, handlers and timers, swap,
functors of the batch), because whether `resetChnnel()` has run when the next
attempt begins depends on it.  The timers that have expired are taken when
`TimerQueue::handleRead()` reads the clock (`TakeExpired`), not when the poll
returns, so that a retry set in this pass may be among them (`late`).  A call of
another thread is a change of flags and a post, in two steps.  `TcpServer` has one
queue per loop; other threads may take and give back descriptors between any two
steps.  In `AsyncLogging` a step is
a critical section of `_mutex`, a test of `_running` or one `LogFile::append()`.
In `Logger` the building of a `Logger` and its destruction are two steps.

**Failed assertions and freed objects.**  `TcpConnection` goes on past a failed
assertion as a build with `NDEBUG` does.  In `TcpClient` and `TcpServer` the
outcome is a variable: `fault` becomes `"assert"` when an assertion of the code
fails and `"freed"` when a functor, timer or callback reaches a deleted object,
and nothing happens after it.  `careless` is a history variable that says the
program has left the usage under which the code can be expected to work (section
3); the properties are about the others, and the careless behaviours stay in the
model.

**Abstractions.**  Functors are tokens in `EventLoop` and named operations in
`TcpConnection`.  Bytes of a connection are numbered in the order they were
sent, which makes loss, repetition and reordering visible; bytes of `Buffer` are
values, since the code copies them around.  A write may take any prefix.  Time
is one integer clock, except in `Logger`, where it is a calendar; the code computes with the wall clock and arms a
monotonic timerfd, and a step of the wall clock is not modelled.  Addresses of
timers are reused after `delete`, and a `TimerId` in a user's hands is recorded
with the timer it was returned for (`Handles`), since `addTimer()` may read the
sequence of another one into it.  The log messages of the net part are left out.
Messages of `AsyncLogging` are numbered; their length is one unit or more than a
buffer holds.  A write to the log file takes any prefix when the stream has an
error.  A line of `Logger` is the list of the operands that fitted and the room
they take; a stamp is the fields printed; integers and pointers are converted
digit by digit.  A zone file is its table and the section it breaks off in.

**Where names differ from the code.**  `pending`, `batch`, `callPending` are
`_pendingFunctors`, `vec`, `_callPendingFunctors`; `flag`, `events`, `revents`
are the channel's members; `timers`, `active`, `canceling`, `calling` are
`_timers`, `_activeTimers`, `_canllingTimers`, `_callingExpiredTimer`.
`PROJECT.json` maps each definition to its lines.

## 3. The runs

| run | instance | states | shows |
|---|---|---|---|
| `eventloop_wakeup` | 2 other threads, 3 functors, 1 user channel, eventfd full at 2 | 43 thousand | `NoLostWakeup`; `FunctorsFIFO` (refinement of `FunctorQueue`); `PostedFunctorStarts`, `QuitEndsLoop`, `FunctorsDoNotStarvePoll` |
| `thread_life` | owner and thread, 2 functors | 6 thousand | start through latch and condition variable with a live loop (`OwnerFindsLoop`), destruction at a good moment (`ThreadGoneAfterDestructor`, `StartLoopReturns`, `DestructorReturns`) |
| `thread_lostquit` | destruction at any moment | | *violation*: finding 1 |
| `conn_use` | a program of the loop thread alone and one of two sending threads | 53 thousand | stream, interest in writing, half close, tear-down, `ShutdownCompletes`, `PeerEndDestroys` |
| `conn_wild` | sends of the loop thread, every other operation from everywhere, server destroyed first | 515 thousand | `SentInOrder`: even where the assertions fail the kernel gets a prefix of what was sent |
| `conn_close` | the smallest instance | | *violation*: finding 2 |
| `timer_cancel` | 2 addresses, 2 timers, 2 ticks, adds and cancels from the loop and from another thread, fair loop | 151 thousand | sets agree, each timer owned once, timerfd armed, cancels stay and hit their timer, `TimerRuns` |
| `buffer_queue` | 2 byte values, initial size 2, reserve 2, extra area 2 | 42 thousand | byte queue, header reserve, memory bound |
| `client_use` | up to 2 calls of `connect`, every other call at any time, 2 connections | 239 thousand | `CarefulUseIsSafe`, `OneAttempt`, `StoppedStaysStopped`, `ClientConnects` |
| `server_life` | 3 clients, 3 descriptors, the base loop alone or 2 loops | 43 thousand | `ServerIsSafe`, `MapKnowsConnections`, `ClientsServed`, `ClosedIsFreed` |
| `log_stream` | 4 messages, buffers of 2 messages, 3 buffers for the 25, roll at 2, check every 2, 3 seconds in 2 periods | 94 thousand | `LogIntact`, `SparesSuffice`, `RollKeepsUp`, `LogProgress` |
| `log_lines` | each day of 13 years, 13 seconds of the day, 4 zones; 2 threads that log 2 lines in the hour that clocks repeat | 669 thousand | `CalendarAgrees`, `LinesAreTrue` |

**Why the bounds are enough.**  Two other threads let one of them post between
the push and the wakeup of the other; a limit of 2 on the eventfd lets the write
fail.  Three functors allow one running, one left in the batch and one pending.
Messages of two bytes have a proper partial write, and four bytes put a second
message behind a partly written one; the high-water mark of 2 is crossed.  Two
addresses, and timers that end and are added again, force the reuse of an address while an old `TimerId`
is around; the interval and the delay of one tick make a repeated timer expire
in the same and in a later batch.  In `Buffer` data of up to 3 bytes against
sizes of 2 hits each side of the comparison in `makeSpace` and each split of the
scatter read.  Two connections let `TcpClient` reconnect while the first is torn down, and the
retry delay reaches its limit.  Three clients on room for two connections bring
the descriptor limit about, at which clients wait, and two loops with the base loop the hop between
loops.  In `AsyncLogging` four messages fill more buffers than a batch may have,
one of them with a message that is dropped.  The years of `Logger` have every
case of the leap rule (1900, 1904, 2000, 2100, 2400), the turn of 1970 and the
ends of the range named in `Date.h`; the seconds are the ones around the changes
of the zones.  Years whose seconds do not fit 32 bits are checked for `Date`
only; `InstantsAlwaysAgree` proves the rest of them.  The invariants that section 4 proves do not depend on the bounds at all.

**Fairness.**  `EventLoop`: weak fairness of the loop thread's own steps, of each
thread's `wakeUp` once it has pushed, and of a poll with the wake channel ready.
The scheduler and level-triggered epoll justify them; nothing is assumed of the
poll timeout, so what is shown to happen happens by a wakeup and not within the
timeout.  User callbacks and functors return.  `EventLoopThread`: the same, and
weak fairness of the owner inside `startLoop` and the destructor; the decision
to destroy and spurious wakeups are not fair.  `TcpConnection`: weak fairness of
the dispatch, of the timer and of the server's and the other threads' steps;
strong fairness of the poll and of the functors, because callbacks of other
channels come in between and each pass of the loop polls and runs what is queued
(`PostedFunctorStarts`).  A peer that keeps its side open goes on reading: a poll
that asks for writing reports it again and again, and such writes take bytes.  `TimerQueue`: time passes, the timerfd fires, the loop
runs what it has; strong fairness of the start of `handleRead`, because the loop
does other work in between and each pass dispatches a timerfd that is ready.
`TcpClient`: the loop polls, swaps and runs its functors; a retry timer expires in
the end; strong fairness of an attempt made by a retry timer and of its success,
since a server that refuses for ever allows no connection.  `TcpServer`: weak
fairness of the accept with a descriptor free (level-triggered epoll reports the
listening socket again) and strong fairness of each loop's functors.  Nothing is
assumed of peers: that descriptors become free again and again is a premise of
`ClientsServed`, and so is that no other thread takes them.  `AsyncLogging`: weak fairness of the writer thread, whose
wait ends by the timeout, and of the owner's `join`; nothing is assumed of the
clock, of the threads that log or of `stop`.  `Logger` has no liveness.

**Usage the passing runs assume.**  `thread_life`: the object is destroyed while
`loop()` runs, or, when code of the loop quits it, after the thread has ended.
`conn_use`: no `startRead` and no `stopRead` at all (called after the close they
register the channel again, and the close callback can run twice; `conn_wild` has
them), no `shutdown` or `forceClose` from other threads, the server outlives its
connections.
`client_use`, as `careless` defines it: `connect` once and not after `stop`, no
`stop` of another thread between the test in `removeConnection` and its
`restart`, and the client deleted in the loop thread with a connection and with
nothing of the Connector queued.  `CarefulUseIsSafe` excepts one assertion: in a
pass of the loop that outlasts the delay of a retry set in it and runs that retry
too, `assert(!_chnnel)` of `connecting()` fails (`late`); no caller can prevent
this but by callbacks that return within the delay.  `timer_cancel`: a cancel of the
loop thread that overtakes the queued add of its timer is lost by the code, and does
not count as a cancel (`Cancelled`); a timer can be lost to another user's cancel
only through a `TimerId` that `addTimer()` has misread (`Mistaken`).  `server_life`: the server deleted when its
connections are gone.  `log_lines`, as the assumptions of `Logger` say: a zone has
a type and its changes in the order of time, more than an hour apart
(`ZoneTable`); what the changes do to the clocks is free, local mean time to
standard time included, and the local time shown is checked for all of them.  The
way back is asked of `fromLocalTime()` only for instants it can tell (`Tellable`):
those whose time the next change does not show again, or shows again because
clocks are put back by one hour from daylight saving to standard time, which is
the only repetition its 3600 corrects.  Years are later than -4713, so that Julian days are not
negative; nothing is logged in the first second of 1970, whose stamp is empty
because `t_lastSecond` starts as 0; integers have 64 bits and so at most 20
characters, pointers 16 digits (`IntegersHave64Bits`).
The violation runs and `conn_wild` drop the assumptions on connections and
threads; `client_use` and `server_life` contain the careless behaviours, about
which their safety properties say nothing.

**Mutants.**  Each property has a mutated definition, placed just before the
original and named after it (`...Mutant...`), that changes the code in one
plausible way and makes TLC report the property.

## 4. What is proved

`EventLoopProofs`, for all sets of threads, functors and channels and every
eventfd limit of at least 1, from the four assumptions of `EventLoop` (the loop
thread is a thread, `NoFunctor` is no functor, the wake channel is no user
channel, the limit is positive):

* `TypeCorrect`: `TypeOK` is invariant.
* `WakeupInvariant`: `WakeupInv` is.  `NoLostWakeup` alone is not inductive: it
  speaks of the sleep in `epoll_wait` only, and the step into the poll needs to
  know that functors posted during the last batch have announced themselves.
  `WakeupCovered` extends it to every place outside the stretch from the return
  of the poll to the swap, where the eventfd may have been read although the
  functor is still to be taken; `FlagFollowsLoop` ties `_callPendingFunctors` to
  the place of the loop, which makes the test in `queueInLoop` right;
  `LoopWakesItself`, `BatchOnlyInRun` and `RunningInFunctor` place the rest.
* `WakeupNotLost`, `QuitNotLost`: the two properties, from the invariant.
* `FunctorsRefineFIFO`: the two vectors implement `FunctorQueue` under
  `queue <- batch \o pending`.  The swap is a stutter because the batch is empty
  there, which is `BatchOnlyInRun`.

`BufferProofs`, for every set of bytes, initial size, reserve, extra area and
bound: `TypeCorrect`, `BufferIsQueue`, `HeaderRoomKept`, `MemoryStaysBounded`.
The four properties are inductive only together: that the indices stay inside the
vector needs the reserve, that the bytes are kept by a move needs the indices,
and the memory bound needs both.  The proof follows the code: a lemma for each
helper (`ResizeKeeps`, `MoveToFrontKeeps`, `EnsureMakesRoom`, `AppendToAppends`,
`ScatterAppends`), one for the calls that add bytes, one for those that take
them, and `InvInductive` with one step per action.

The second part of `EventLoopProofs`, on `EventLoopThread`, for any threads and
functors:

* `ThreadRunsAnEventLoop`: `ThreadSpec => Spec`.  The composed specification
  implements `EventLoop`'s, each step of thread and owner being a step of the loop
  or a stutter, so that `ThreadLosesNoWakeup` follows from the theorems above.
* `LifeInvariant`, `OwnerAlwaysFindsLoop`, `DestructorOutlivesThread`, under
  `OwnerSyncs` (the owner destroys the object at a good moment, section 3;
  without it finding 1 is a counterexample).  `LifeInv` says how far the thread is
  when the latch is open (`LatchIsOpen`), when `_loop` is set (`ThreadHasStored`),
  where owner and thread can be at the same time (`PlacesAgree`), and that a loop
  that has ended was ended by the owner or its end was awaited (`OwnerEndsLoop`,
  `QuitIsCareful`).

`AsyncLoggingProofs`, for every buffer size, number of buffers kept, roll size,
period and check interval:

* `SparesAlwaysSuffice`: `threadFunc()` never hands back a buffer it does not
  have.  `SparesInv` is the strengthening: when `_nextBuffer` is taken there is a
  full buffer for the writer to reuse, and when the writer has given both of its
  own away its batch has two at least, which dropping does not change.
* `FilesRollInTime`: the action property `RollKeepsUp`.
* `LogStaysIntact`: `LogIntact`, which says that the numbers of the messages
  increase along the file, the writer's batch, the full buffers and the current
  one, and that together with those known to be lost they are all that was sent.
  That the lost ones were sent makes it inductive.  Most of the proof is about how
  order and content pass through the concatenations of a swap, a drop, an append
  and a write.

`TimerQueueProofs`, for every set of addresses, intervals and bounds: `TimerInv`,
and from it `SetsAlwaysAgree`, `TimersAlwaysOwnedOnce`, `TimerFdAlwaysArmed`,
`CancelledNeverReturns`, `CancelIsExact`.  None of the properties is inductive.
`OwnInv` puts each allocated timer in one of three places (the sets, the batch of
`handleRead()`, an add that is queued); `SeqInv` says that no `TimerId` was returned
for a timer still to be made.  `NameInv` says that the `TimerId`s of timers that
exist name them: `addTimer()` of another thread reads the sequence after it has
posted the timer, and reads that of another one only when its own is gone.  With
the two the reuse of an address is harmless: what a cancel finds is the timer it was
asked for, or one whose sequence was misread.  `CancelInv` ties `_canllingTimers` to
the timers of the batch that were cancelled, by their sequences.  `CancelIsExact`
compares the sequence of the object that was deleted with those whose users called
`cancle()`.  The earliest timer exists because the times are naturals, by
well-foundedness.

`TcpServerProofs`, for every set of clients, pool, set of pool sizes and number of
descriptors: `ServerInvariant`, `ServerIsAlwaysSafe`, `MapAlwaysKnowsConnections`.
`ServerInv` says, while the server lives, that a connection has at most one
functor in all the queues together, and that the functor found says where its
connection is in its life (`Means`): `removeConnectionInLoop()` then finds its
connection in the map, and `connectEstablished()` one that is connecting.  After a
careful deletion only `conncetDestoryed()` in the base loop is left.  `RestFacts`
and `PostFacts` say what taking and adding a functor does, `LiveMove` what a step
that moves one connection along keeps.  Nothing is claimed of a careless
deletion.  The count of descriptors takes no part.  `ServerImplementsLife`: under
`Place`, which reads a connection's place off its state and the map, `TcpServer`
implements `ConnectionLife`.  Each step is a move of one connection that leaves
the others alone (`OneMoves`) or a stutter (`NoneMoves`); `ServerInv` supplies the
place a move starts from, which the functors themselves do not test.  In its own
loop a connection takes two moves at once (made and established, closed and
removed), which the abstract specification allows.  `EmptyInv`, that a deleted
server has no connections, is needed for the functors that outlive it.

`TcpConnectionProofs`, for any threads, message sizes and high-water mark:

* `TypeCorrect`, for every program.
* Under `OthersOnlySend` (other threads only send, reading is not switched, the
  server outlives the connection; section 3 says what happens otherwise), for any
  mix of calls on the loop thread: `LifeInvariant`, and from it
  `InterestFollowsOutput`, `FinFollowsOutput`, `ClosedBeforeDestroyed`,
  `ServerRemovesOnce`.  `LifeInv` gives a connection three ages.  Before
  `connectEstablished()` nothing but that functor exists (`FreshInv`).  An open one
  is in the map, in epoll with the interest in reading, and on no way out
  (`OpenInv`).  A closed one is at exactly one of three places: its removal
  waits in the server's loop, its `conncetDestoryed()` waits in its own, or epoll
  has forgotten it (`ClosedInv`).  That only a write event can be left of
  `_revevts` after the close keeps `handleClose()` from running again.
* `ConnectionImplementsLife`, under `OthersOnlySend` too: the detailed connection
  implements the same `ConnectionLife` as the server that reduces a connection to a
  few states.  The two refinements say in which sense that reduction is right: both
  walk the same path.  A step either keeps the place (`Stays`) or goes to the next
  one (`StepsOn`); that there is no other is `LifeInv`.
* Under `SendsInLoop` (only the loop thread sends; anybody may do anything else at
  any time, the server may die first): `StreamInOrder`.  `SentInOrder` needs
  `BytesInv`: until `write()` fails, which it does for good, the buffer goes on
  where the kernel stopped, and a *connected* connection has lost nothing.
* Under `OneSided` (one side uses the connection, the loop thread with all its
  calls or other threads that send): `NoByteLost`.  `WholeInv` adds to `LifeInv`
  that the messages in the queue are consecutive and rising (`Chain`), whence the
  head is the one that continues the stream; and that `shutdown()` cannot overtake
  them (`SideInv`).  `ChainAppend` and `ChainTail` are the queue's part of the
  proof, `StreamPush` and `StreamPull` that of `write()`.

`TcpClientProofs`, for any number of connections, calls of `connect()` and queued
functors and any retry delays with `0 < cInitRetryDelayMs <= cMaxRetryDelayMs`:

* `TypeCorrect`, for every program, careless or not: the retry delay stays within
  its bounds.
* `ClientInvariant`, and from it `CarefulSafe`, `AtMostOneAttempt` and
  `StopIsFinal`, which say nothing once the user was careless (section 3).
  `CareInv` has five parts.  `FlagsInv`: `_connect` of the Connector is what the
  user's calls say, and a stopped attempt waits only while `stopInLoop()` is on its
  way.  `FirstInv`: until the first `startInLoop()` has run the Connector is as
  new.  `OneInv`: connect(2), retry, restart and connection exclude each other.
  `OwnInv`: the connection that reports to the client is the one it has, and a
  client deleted with care leaves nothing that comes back.  `PassInv` is what the
  assertion `!_chnnel` of `connecting()` hangs on: a removed channel is reset in
  the very pass of the loop that removed it, before the next event or a retry set in
  an earlier pass could start another connect(2).  A retry set in the same pass can:
  `LateFault` is the state in which the program has then ended, and the invariant is
  `CareInv` or `LateFault`.  A Connector that was stopped is excepted; there the
  reset may come a pass late, and nothing starts.

`LoggerProofs`, for any threads, zones, messages, years and room of the line
buffer, from the two assumptions of `Logger`:

* `CalendarAlwaysAgrees` and `InstantsAlwaysAgree`.  The clock of the model is a
  date that goes on day by day and a count of the days; `ClockInv` says that the
  Julian number of the date is the count, which `TomorrowFacts` (tomorrow has the
  next number, in each case of the leap rule) makes inductive.  `DateInverse` shows
  that `getYearMonthDay()` undoes `getJulianDayNumber()` for every date, over the
  divisions of the two algorithms.  For zones, `FindFacts` says which change the
  search returns, and `RoundTrip` that `fromLocalTime()` brings the instant back,
  in the hour that clocks repeat as well, for the instants that are `Tellable`.
  `InstantsAlwaysAgree` is free of the years 1902 to 2037, to which TLC's 32-bit
  integers confine the run.
* `LinesAlwaysTrue`.  Besides `ClockInv`, `LineInv` says that a thread's cached second
  is not in the future, and that a stamp cached in the present second shows it in
  the present zone unless the zone was changed within the second (`CacheOk`; the
  history variable `switched`); that the stamp of a `Logger` not yet destroyed, and
  of the last line, is true (`HeldOk`, `LineOk`); and that no piece of a line was
  written past its buffer (`StreamOk`).
  `DigitsDef` and `DigitsRead` are about `convert()` and `convertHex()`: the digits
  read back as the number.

Facts about all numbers, such as the digits of an integer, are the induction over
data that the library's theorems do not give here.  They are proved by contradiction
from the least number that would break them, which exists because the naturals are
well-founded (`LeastNumber`), and the recursive function is unfolded at that number.

Every invariant and every action property of the passing runs that needs no fairness
is thus proved for all constants.  Only model-checked: what needs fairness (liveness is
out of the prover's reach), and the ranges of `free` and `taken` in `TcpServer`.
`ConnectionLife` is used by the two refinement theorems only.

## 5. Findings

1. `thread_lostquit`: `loop()` begins with `_quit = false` and so erases a
   `quit()` that came between the publication of the loop and `loop()`;
   `~EventLoopThread` then never returns from `join()`.
2. `conn_close`: `handleClose()` asserts `cDisconnecting || cDisconnected`, but
   the peer's close reaches it in `cConnected`.

Met while modelling, and not the subject of a run of their own:
`conncetDestoryed()` leaves the interest of a connection in `cDisconnecting` in
place, which `Chnnel::remove()` asserts away; `shutdown()` of another thread can
store `cDisconnecting` over the `cDisconnected` of `handleClose()`, which
`~TcpConnection` asserts; `stop()` of a log leaves what was appended since the
last swap unwritten; a zone file that cannot be read makes a zone that is
`vaild()` and empty (`TimeZone.cc:182`); the notice of dropped log buffers formats
a `std::string` as `%s` (`AsyncLogging.cc:105`).  `netlib::accept()` calls `fcntl()`
on the -1 of a failed accept (`SockFunc.cc:73`), which leaves `EBADF` in `errno`, so
that the test for `EMFILE` in `Acceptor.cc:66` never holds: the reserve descriptor
is never used, and at the limit the loop spins until a connection has closed.  A
retry that expires in the pass that set it meets the channel that `resetChnnel()`
has still to reset and fails `assert(!_chnnel)` (`Connector.cc:110`).
`addTimer()` of another thread reads `timer->sequence()` after it has posted the
timer (`TimerQueue.cc:100`); the timer may be gone by then, and the `TimerId` names
another user's.  A cancel of the loop thread that overtakes a queued add is lost
(`TimerQueue.cc:128`).  `fromLocalTime()` returns the later of two instants where a
change other than the end of daylight saving repeats a time (`TimeZone.cc:265`).  In the careless behaviours of
`TcpServer` and `TcpClient` TLC reaches both kinds of `fault`: a loop of the pool
that quits with tear-down functors left, a close callback into a deleted server,
functors of a deleted Connector, a second `connect()`.  The hazards of
`PROJECT.json` give the lines.

## 6. What is not modelled

* Functors that bind a raw `this` are run only while the connection lives; what
  they would do to freed memory has no defined meaning.  The same holds for
  `wakeUp()` of a `quit()` whose loop has been destroyed in between.
* `EventLoop::hasChnnel` calls `abortNotInLoopThread()` on every call
  (`EventLoop.cc:180`), so a channel destroyed in its own loop thread with
  assertions on logs a fatal error; the destruction of channels is modelled
  without it.
* The `Buffer` constructor ignores its argument and always takes `cInitialSize`
  (`Buffer.cc:13`); the model has the one size.  Searches in a buffer change
  nothing and are left out.
* `Epoller` and `Chnnel` with several channels: the flag of a channel and its
  registration are modelled for the channel of a connection; the map is one entry
  per descriptor of the same data, touched by the loop thread only.
* `setOutput` and `setFlush` exchange a function; the layout of text, doubles and
  `Time::toFormattedString` are formatting.
* Socket wrappers (`SockAddr`, `Socket`, `SockFunc`) keep no state but the
  descriptor; their outcomes are choices of the modules that call them.  What
  `accept()` does to `errno` is part of `HandleReadAtLimit` in `TcpServer`.  Stack
  traces and process data: no protocol.
* The results of `fflush()` and `fclose()`, which the code ignores: `Flush` of
  `AsyncLogging` is taken to succeed.  The writer's wait for `_cond` is not a state
  of its own, because its timeout lets it go on at any time: what is shown does not
  depend on a notify, and a notify that is lost costs no more than the wait.

## 7. Plan

Done, in this order: `EventLoop` with `FunctorQueue` and its proofs;
`EventLoopThread` on top of it; `TcpConnection`; `TimerQueue`; `Buffer` and its
proofs; `TcpClient` with `Connector`; `TcpServer` with `Acceptor` and the pool;
`AsyncLogging` with `LogFile`; `TimeZone` and `Logger`.  Then the
proofs of `EventLoopThread`, `AsyncLogging`, `TimerQueue`, `TcpServer`,
`TcpConnection`, `TcpClient` and `Logger`, and `ConnectionLife`, which `TcpServer`
and `TcpConnection` are proved to implement.  Next:

1. `TcpClient` as a third implementation of `ConnectionLife`; its connections leave
   their owner by being destroyed with it as well as by removal.
