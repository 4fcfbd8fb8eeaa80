# TAlib in TLA+

TAlib is a C++11 network library in the style of muduo: a reactor (`EventLoop`,
`Channel`, `Epoll`, `TimerQueue`), loops that run in threads of their own, a TCP
server on top of them, an HTTP server on top of that, and beside them an
asynchronous log, an LFU cache and pools of connections to Redis and MySQL. This
directory models its core, checks it with TLC and proves the central results with
TLAPS. Line numbers are those of `src/src/...`; `PROJECT.json` maps every
definition to the lines it models.

## 1. The system

| component | state | operations | hard part |
|---|---|---|---|
| `EventLoop` | `m_pendingFunctors` under a mutex, `m_quit`, `m_looping`, `m_callingPendingFunctors`, an eventfd | `loop`, `queueInLoop`, `runInLoop`, `wakeup`, `quit` | poll blocks without a timeout: a missed wakeup is a hang |
| `EventLoopThread` | `p_loop`, a mutex and a condition | `startLoop`, `threadFunc`, destructor | the loop lives on another thread's stack; reads of `p_loop` without the lock |
| `EventLoopThreadPool` | loops, a round-robin index | `start`, `getNextLoop` | |
| `Channel`, `Epoll` | interest per descriptor, the registered channels | `enableX`, `disableAll`, `remove`, `poll` | raw pointers to channels |
| `Acceptor`, `TcpServer` | the set of connections, `m_next` | `startListen`, `newConnetion`, `removeConnection` | closing takes two hops between loops |
| `TcpConnection` | `m_state`, both buffers, the channel | `send`, `shutdown`, `forceClose`, `handleRead`, `handleClose`, `connectDestroyed` | called from other threads; lifetime by `shared_ptr` and by raw `this` |
| `Buffer` | a vector and two indices | `append`, `retrieve*`, `readFd`, ... | index arithmetic at boundaries |
| `TimerQueue` | two sets of the same timers, a timerfd | `addTimer`, `cancel`, `handleRead`, `reset` | callbacks that add and cancel; two clocks |
| `AsyncLogging`, `LogFile` | current, next and full buffers; the writer's spares | `append`, `start`, `stop`, `threadRoutine` | buffers change owner under a lock that is released in between |
| `HttpServer`, `HttpContext` | parser state and request of a connection | `onMessage`, `parseRequest`, `onRequest` | messages end anywhere |
| `LFUCache` | a list of lists, two maps | `get`, `set` | a thread's miss and its set are two calls |
| `ResPool` | slots with use counts | `get`, `disable`, `clear`, `setX` | the creator runs between two critical sections |
| `RedisConnect`, `RedisCache` | a socket, a receive buffer, the code of the last command | `execute` and the commands, `close`, `reconnect`, `grasp` | a reply that comes after its command's timeout; the code is overwritten by the next command |
| MySQL `Pool` | an array of connections and flags, its size, two mutexes | `initPool`, `getConnection`, `executeQuery`, `releaseConnection`, `destroyPool` | created by whoever comes first, waited for by polling, resized and destroyed without a lock |

How they interact. A thread that wants something done by a loop queues a functor
and raises the eventfd. `TcpServer` runs in the base loop and assigns each
connection to a loop of the pool; a connection that closes tells the base loop by
a functor, and the base loop answers with another, `connectDestroyed`. A
connection's message callback is `HttpServer::onMessage`, which reads the
connection's `Buffer`. Timers are one more channel of the loop. Everything logs
through `AsyncLogging`. The pools stand beside all this: threads of the application
take a connection, use it alone and give it back, Redis connections by dropping the
last `shared_ptr`, MySQL connections by a call. The cache is used by the file server
example from all its loops at once.

Not modelled, and why:

* formatting: `LogStream`, `Logger`, `HttpResponse`, `Mimetype`, `TimeStamp`. They fill
  a buffer of the caller's and share nothing; a record or an answer is an input or an
  output of the models;
* wrappers of system calls (`Socket`, `SocketHelp`, `InetAddress`, `Thread`'s naming):
  their effects are in the steps that call them;
* the `Poll` variant, which `EventLoop` never creates;
* `Epoll`'s array of events: the models take `epoll_wait` by what it reports;
* the strings of a Redis reply and the rows of a MySQL result, of which no property
  speaks; what a caller of `Instance()` does with NULL;
* `webbench`, a vendored benchmark, and of the examples all but the handlers that are
  the clients of the cache and of the pools.

External parties (peers, the kernel's sockets and epoll, the clocks, users of the
library) are modelled from how the code uses them and marked external in the map.

## 2. Modules

Component modules declare their parameters with named assumptions; the `MC*`
modules and `.cfg` files give them small values. No module replaces a definition
of another. A definition whose comment begins "Mutant:" is not part of the model:
it is a plausible error, next to the definition it would spoil, used to show that
a property notices it.

**EventLoop** (implements **FunctorQueue**). A section under `m_mutex` is one step;
`queueInLoop` is two (the push, then the test and the `wakeup()`), and so is
`quit()`. `pc` says where the loop's thread is; `wakers` holds the threads that
stand between the two steps. Callbacks are the steps the loop's thread takes while
`pc` is `"handler"` or `"functor"`, and may queue, run and quit. `FunctorQueue` is
the promise: functors handed in before the loop is left are run once, in order.

**EventLoopThread** extends EventLoop with the owner of the thread: `startLoop`, the
wait on the condition, the destructor, and the thread's `p_loop = &loop` and
`p_loop = NULL`. Other threads, which have the loop's address from the owner, queue
functors and call `quit()` meanwhile. A failed assert and a use of the loop after its
stack frame has gone are states of their own (`owner` is `"aborted"` or `"undefined"`),
after which nothing is claimed. The loop is checked as the loop of such a thread, so
that all of EventLoop's actions run under the callers and the lifetime that the library
gives them.

**TcpServer** (implements **ConnLife**) composes acceptor, pool, connections, channels and epoll over loops
that each poll, dispatch and run functors (the rounds that EventLoop is shown to
make). Handlers are one step; in another thread, the test of `m_state` (`UserTests`),
its assignment (`UserSets`) and the queueing of the functor (`UserQueues`) are steps of
their own, and the thread may make further calls until it lets the connection go. `stale`
records that the loop closed the connection in one of these gaps. An `accept()` gives a
connection, is refused by means of the reserved descriptor, or fails and leaves the peer
in the backlog (`LeavesWaiting`: another errno, or the reserve taken by another thread);
`spent` counts these failures and the calls. A connection is deleted when neither the set, a user nor a queued
functor bound to a `shared_ptr` refers to it. `failed` names the assert that ended
the process, `"lifetime"` a raw `this` used too late, `"SIGPIPE"` the signal. `ConnLife`
is the promise: a connection is absent, connecting, up, removed from the set, destroyed
and deleted, in this order; no stage but `connecting` is skipped (the base loop
establishes at once) and none comes back. `LifeOf` maps a connection to its stage.

**AsyncLogging**: the front end's `append` is one step, the writer's loop six.
Records are numbered; a buffer knows its bytes and its records; `file` is what the
log file holds, `output` everything that was ever handed to it. A write may stop in the
middle (`FileAppend`; `torn` says that one has, since the file was begun), with the bytes
counted all the same, and the asserts on `remove()` and `fopen()` may end the process.

**TimerQueue**: heap addresses are reused, sequence numbers are not. Timers expire by
the wall clock, which may be set; the timerfd runs by the monotonic clock.

**HttpServer**: a line is two items, so that a message can end inside it; the parser
takes one line per step. `Expected` is the reference: what a parser that is given
whole lines answers.

**Buffer** (implements **ByteQueue**): the vector with its contents, and every
operation as an operator on the whole object, so that `readFd` is composed of
`append` as in the code.

**LFUCache**: the list of frequencies with their lists of keys, and both maps. Threads
behave as `staticRequest` of the file server example does: look up, and on a miss read
the file, if there is one, and set.

**ResPool**: looking for a slot and storing what was created are two critical
sections with the creator between them; `grasp` of `RedisConnect` checks what it is
lent and disables what has failed. What a user does with a resource is any change of
its error code.

**RedisConnect** extends ResPool with what users really do. One connection, any one, is
watched: `wire` is what the server has answered and nobody has read. A command appends
its reply to it, any of those that the public `execute()` can ask for, nested arrays and
nils included, and reads it token by token; `Parse` says what the parser makes of a token
in the state (`at`, `need`) it is in. The command ends when parse() says so, times out,
loses the connection or fills the buffer, and what it has not read stays on the wire for
whoever comes next. `Guesses` are the ways in which parse() takes an array for complete
that is not: misaligned after a nil or a status in it, or by looking behind the
terminating zero. `close()` and `reconnect()` start a new stream. History variables:
`wentOn`, a user went on after a lost reply; `strayed`, parse() took something else for
the elements of an array; `misread`, a command was given a reply that was not its own.

**MySQLPool**: the constructor runs under `initmutex` and takes its time, so it begins
and ends in two steps; other sections under a mutex are one. `destroyPool` holds no lock:
`dtor` counts through the connections that it closes one by one, the array, and the NULL
that it stores last, and other threads come in between. Addresses of connections
are reused after `delete`. The main thread may call `initPool` and `destroyPool` at any
time; `causes` records when the pool was there as it was initialised, when it was used or
asked for while it was being destroyed, and when a query was one that `executeQuery`
cannot take.

**EventLoopThreadProofs** (of the loop, too), **TcpServerProofs**, **TimerQueueProofs**,
**AsyncLoggingProofs**, **InputProofs** (of Buffer and of HttpServer), **LFUCacheProofs**,
**RedisConnectProofs** (of ResPool, too), **MySQLPoolProofs**: section 5.

## 3. Runs

| run | instance | what it shows |
|---|---|---|
| `loopthread` | owner, 2 other threads, the loop's thread, 3 functors, 1 channel | no lost wakeup, no lost, repeated or overtaken functor, FunctorQueue is implemented, `quit()` ends the loop; calls fail only before `loop()` is entered or after it was made to return; `startLoop` returns the loop; the destructor joins and returns |
| `tcp` | 1 connection, base loop and 0 or 1 pool loop, 2 calls by another thread, 1 failed `accept()` | a connection is established and destroyed at most once, leaves no channel pointer behind, is deleted when its peer has closed; ConnLife is implemented; the backlog is served with descriptors, without, and after a failure that left the peer there |
| `asynclog` | buffers of 4 bytes, records of 1 and 3, 6 records | no record lost or reordered, the writer's asserts hold, records are written unless the disk fails, `stop()` returns |
| `timers` | 2 addresses, 2 timers, times up to 3 | both sets agree, the timerfd is armed, a timer runs once per expiry, not early, and does run |
| `http` | 5 lines, cut anywhere | answers are those of the reference, and in turn |
| `buffer` | content up to 4 bytes, 2 initially | asserts, bounded growth, ByteQueue |
| `lfu` | 2 threads, 3 keys, capacity 2, 7 operations | structure of the cache, eviction order |
| `redis` | 2 threads, 1 or 2 slots, 2 connections, 1 clearing call, up to 2 tokens left over when a command is sent | exclusive use, stale index only after a clear, no command gets another user's reply |
| `mysql` | 3 threads, pool sizes 1 and 2, two `initPool`s and one `destroyPool`, cut into its steps, at any time | created once, lent to one, nothing gone is used unless the pool is resized, used while it is destroyed, or a query unsuitable; every waiting thread is served |

Three runs record disagreements between the code and what it or its documents say:

* `tcp_hangup`: `handleClose` disables events but epoll reports a hang-up without
  being asked; until `connectDestroyed` has removed the channel the next poll calls
  `handleClose` again and its assert on `m_state` (TcpConnection.cpp:204) fails.
* `tcp_output`: no write callback is ever set on a connection's channel
  (TcpConnection.cpp:21-22), so that `handleWrite` never runs and what a short write
  leaves in `m_outputBuffer` is never sent, against `设计特性.md:46` ("支持优雅关闭连接");
  `tempdoc/连接的维护.md:25` says the same of a peer that has sent its FIN.
* `http_pipelined`: `onMessage` answers one request per message; a second one in the
  same message waits for a third message, against `设计特性.md:45` ("支持管线化").

Why the bounds are enough. Three functors give one that runs, one in the batch and
one pushed meanwhile; two foreign threads give two between push and wakeup at once.
One connection meets both loops, the peer, a sending
callback and a thread of the application in every order, and two calls of that thread let
one come while the other is queued; what two connections share is the loops' queues and the
round-robin index. (The invariants hold with two connections, too, of which one is shared
and sends and is called once: 1 138 131 states.) Six records of up to three bytes fill enough buffers of four to use up the
spares and make the writer drop one. Two timers at two addresses make an address
used again and a callback cancel the other timer or its own. Five lines make a whole
request with headers and the beginning of another. A content of four in a vector of
three makes it move, grow, and be read in two parts. Three keys for a capacity of two
evict; two threads for one or two slots of the Redis pool are told the same free slot,
and two connections let one be disabled and the other take its place while the first
thread still has the index. Two leftover tokens are enough for a reply
to be taken for another, whole or not; replies have up to five, so that nested arrays are
cut in every place. Three threads and two MySQL connections let one wait, one use and one
come while the pool is destroyed and made again.

Deadlock is checked where the system cannot stop (`buffer`). Elsewhere it may:
a loop that nobody calls sleeps in poll, a process that aborted does nothing, and
bounded clients run out of things to do.

Symmetry is used in `redis` only, on threads, where no liveness is checked. The same run
goes no further (constraint `Open`) from a state in which a user went on after a lost reply
or a command was given another's: the first is what `OwnAnswer` excepts, both stay true for
ever, and the pool cannot tell such a state from one without.

## 4. Fairness

* Threads that can take a step of the library are scheduled (weak fairness), and
  callbacks return. Nobody is obliged to call `quit`, `stop`, `append`, `forceClose`
  or a destructor; once inside, they go on.
* `epoll_wait` returns when the eventfd is readable. Nothing is assumed of other
  descriptors or of signals, so that a loop that is owed a wakeup and does not get it
  sleeps for ever: `QuitEndsLoop` and `ImplementsFunctorQueue` would fail.
* The condition's wait in `AsyncLogging` is timed and ends.
* Time passes (`timers`), and functors queued are run although the timerfd may
  alarm again and again: each round of the loop ends with them, hence strong fairness
  of `RunPending` in a model that does not count rounds.
* A thread that waits for a MySQL connection looks again and again (weak fairness of its
  steps; a round that finds nothing changes nothing). Strong fairness is not assumed:
  each time somebody else may have taken the connection, but every thread asks a bounded
  number of times, which is what makes `EveryoneServed` true.
* Peers and the Redis server are under no obligation. `accept()` leaves a peer in the
  backlog a bounded number of times (`MaxFailures`): if it fails in this way for ever,
  nothing can be accepted, and `BacklogServed` claims nothing.

## 5. Theorems

Proved by TLAPS for all values of the constants that meet the assumptions declared
in the modules. Each invariant that is proved inductive was first checked by TLC on the
instance of its run.

**EventLoop** (`EventLoopThreadProofs`). `TypeCorrect` is inductive as it stands once the
flags are tied to `pc`. `WakeupSafe`, that a loop blocked in poll with work or quit
pending has its eventfd raised or is about to, needs `WakeupInv`: outside the dispatch
of a round, pending work means a raised eventfd or a thread that is still to test and
will raise it. During the dispatch nothing can be claimed, because the eventfd is read
away and callbacks push without waking; the swap that ends it takes all of that. That
is why `queueInLoop`'s condition mentions `m_callingPendingFunctors`. `QueueSafe` is
`queued = ran \o functors \o m_pendingFunctors`. `LoopImplementsQueue` maps every step
to a step of FunctorQueue or to none; it rests on the other three.

**EventLoopThread** (`EventLoopThreadProofs`). `ThreadRunsLoop` shows that every step of
the composition is a step of EventLoop or leaves it alone, so that all theorems about
the loop hold of the loop of an EventLoopThread; `NoLostWakeupInThread` is one of them.
`OwnerOutlives`, `FailuresOutsideLoop` and `StartLoopNeverNull` come from `ELTInv`. Its
core is `Quiet`: until `startLoop` has returned nobody knows the loop, so that it has
nothing to run and cannot have been told to quit, and the NULL that `threadFunc` stores
at its end cannot be what `startLoop` reads without the lock.

**TcpServer** (`TcpServerProofs`). `ChannelsDoNotDangle`, `ConnectionCalledOnce` and
`FailsByHangupOnly` rest on `TcpInv`. It does not speak of a loop's queue and batch but
of `Todo`, the functors that each loop has still to run, in their order, wherever its
round has put them; queueing appends to it, running takes its head, swapping leaves it
as it is. A connection's life is a chain of such functors, each queued when the one before
is run, and `Stage` says where in the chain it is: not accepted; handed to its loop
(`connectEstablished` is to be run, and nothing else of this connection); up, in
`m_connectionsSet` exactly until `connectDestroyed` is queued; destroyed. So there is at
most one of each, in one loop, which is `CalledOnce`; and a connection whose channel is
registered has a `shared_ptr` that keeps it, either in the set or in the functor that will
remove the channel, which is `NoDanglingChannel`. `Homes` says that a functor is in the
loop that has to run it and `Rounds` that events not yet handled are about registered
channels of the same loop: functors, and so `connectDestroyed`, run only when the events
of the round are handled. `OnlyHangupFails` needs `Fresh` as well, which holds as long as
no loop has closed a connection while another thread was between its test of `m_state`, its
assignment and its queueing: the connection is closed once, its channel disabled from then on, and what is bound to a raw
`this` is never queued behind `connectDestroyed`. After a failed assert nothing is claimed
but what the properties say. `ServerImplementsConnLife` is the refinement of `ConnLife`,
action by action: a step is about one connection (`OnlyConn`), whose stage stays or becomes
the next (`OneMoves`), or it drops pointers and adds none (`LetGo`), and what is deleted by
it has been destroyed, because as long as `connectDestroyed` is to be run its functor holds
the connection. It includes the steps at which an assert fails, and it needs no `Fresh`: a
thread that acts on an outdated `m_state` can fail an assert, never revive a connection.

**TimerQueue** (`TimerQueueProofs`). `TimersAgree`, `AssertsHold`, `AlarmIsSet`,
`RunOncePerInsertion` and `NoRestartOnceCancelled` rest on `TimerInv`. `Numbers`: a
sequence number is given to one timer only and no pair of an address and a number is about
a timer to come, so that an address used again is told apart. `Waiting`, `Taken` and
`Queued`: a timer is alive and in one place, in both sets, among the expired ones or on its
way to the loop in a functor. `RanThisRound`: one that has run and is still there is among
the expired ones until `reset`, which gives it back only after its callback. `Cancelled`:
what a callback cancels does not wait. `ArmedForZero` is the corner case of `TimerfdArmed`:
`reset` does not arm the timerfd when the earliest expiration is the invalid time 0, and
the timerfd is armed all the same, because the timer of that time was added by a callback
of the round, and adding it did. That the sizes the asserts compare are equal is
`SameSize`, by a bijection between the sets.

**AsyncLogging** (`AsyncLoggingProofs`). `LogTypeCorrect` contains that
`m_currentBuffer` is never NULL outside the lock, which `append` relies on.
`BufferAssertsHold` says that the writer's asserts and those of `ptr_vector` hold. Both
come from `PoolInv`: a spare is missing in front only if a full buffer was pushed since
the last swap; the writer has both its spares when it takes the lock; so after the swap
it lacks no more buffers than it has to write. `RecordsKept` is `NoRecordLost`, from
`LogInv`, which adds `Spares`: a buffer that waits for its turn is empty, so that a record
that does not fit the current buffer fits the next, and is not dropped by
`LogBuffer::append`. The file is a suffix of what it was handed as long as no write to it
has failed since it was begun (`FileWritten`, `FileWhole`). The property flattens a sequence of buffers, a recursive function;
`FlattenLast` and `FlattenFirst` say what one more buffer at either end adds, by induction
in the form of a least counterexample (`LeastOf`, from the well-foundedness of `<`), which
first shows that the function exists (`JoinsExist`).

**Buffer** (`InputProofs`). `IInv` is `TypeOK /\ SpaceBounded`. `MakeSpaceSound` and
`EnsureWritableSound` say what `makeSpace` does in each branch (the indices, the room,
the readable bytes unchanged); `AppendedSound`, `ReadInSound`, `RetrievedSound` and
`UnwrittenSound` lift that to the operations, `ReadInSound` for the read in two parts.
From these follow `IndicesInOrder`, `SpaceIsBounded`, `AppendAssertsHold` and
`BufferIsQueue`, the refinement of ByteQueue.

**HttpServer** (`InputProofs`, because it takes the input buffer for the queue that
`BufferIsQueue` shows it to be). `AnsweredAsParsed` is `AnswersMatch`, for any
number of lines. `HttpInv` follows the reference parser line by line (`Parses`): its answers
only grow, those of the server are a beginning of them, and while the connection is up there
is a number k of lines such that what is in the buffer and on its way encodes the lines after
the k-th (`Encodes`) and the `HttpContext` is in step with the reference after k (`InStep`).
`EncodesRest` and `NextLine` say that the line `findCRLF` finds is then the next one and that
`retrieveUntil` leaves the lines after it, wherever the message ended; a message that
arrives only moves items within that stream. `ExpectedIs` connects the recursive function
in `Expected` with the line-by-line reading, by a least counterexample. Once the connection
is being shut down nothing more is sent, and the answers alone are kept track of.

**LFUCache** (`LFUCacheProofs`). The list of lists is looked at as a function from
frequencies to lists of keys, its `View`, which determines it as long as frequencies ascend
and none is empty. `AddFreqOfNew`, `AddFreqOfOld` and `DelView` show that `addfreq` and
the eviction keep that form, through the insertion of a frequency and the removal of one
that has become empty, and come down to two operations on the view, `Put` and `Unlink`.
`Mapped`, that both maps lead to a node that is there, holds whatever is called. `Faithful`
holds as long as no key was set that was in the cache: there are no other nodes, a key is in
the list of the number of times it was used, and in each list the latest used is in front. A
hit is an `Unlink` and a `Put` one frequency higher. `IntegrityHolds` and `EvictionIsFair`
follow; the latter because the last key of the first list has the lowest frequency and, in
it, the oldest use.

**ResPool** (`RedisConnectProofs`). `PoolInv` adds three facts to the properties: a thread
that has been given a resource has one; what a thread is about to store is not in the
pool yet (`NotStoredYet`, without which two slots might get the same resource); and slots
do not go away unless the pool is cleared (`IndexInRange`). `PoolTypeCorrect`,
`LentExclusively` and `StrayNeedsClear` follow. Assumed are only positive lengths and that
NULL is no resource.

**RedisConnect** (`RedisConnectProofs`). `RedisUsesPool`: commands, `close()` and
`reconnect()` are steps that ResPool allows, hence `RedisExclusive`. `OwnAnswerHolds`
needs `OutOfStepIsKnown`: as long as nobody has gone on after a lost reply and parse() has
not strayed, a connection with something on its wire and no command under way has its
error code set, so that `grasp` does not lend it, and its present user knows. That a command which
starts on an empty wire either reads its whole reply or ends with such a code is `InStep`:
at every token, where the parser is and what is on the wire go together as in a reply that
has been read so far (`Rest`).

**MySQLPool** (`MySQLPoolProofs`). `LentToOneAlways` and `UndefinedOnlyIfMisused` rest on
`Sound`, which holds as long as `initPool` and `destroyPool` keep away from a pool in use:
`OneCreator` (who makes the pool has `initmutex`, and there is none meanwhile), `Borrowed`
(a thread has a connection from the scan to the release, one that is there, and alone),
`NoPool` (without a pool there are no connections and nobody is past the test of `pool_`),
`PoolWhole` (as many slots as the loops over them assume, each with a connection of its
own until `destroyPool` comes to it, marked exactly while a thread has it) and `Destroying`
(while `destroyPool` runs nobody is past the test of `pool_`). Addresses are reused after a pool is destroyed;
`NoPool` is why an old one cannot be mistaken for a new one. Nothing is claimed of `Sound`
once the pool was misused; `UndefinedOnlyIfMisused` then only says that it was.

Only model-checked: all liveness properties (`QuitEndsLoop`, the second half of
`StartLoopGivesLoop`, `DestructorReturns`, `ClosedIsDeleted`, `BacklogServed`,
`RecordsWritten`, `StopReturns`, `ExpiredIsRun`, `AnsweredInTurn`, `EveryoneServed`, and
the fairness half of `ImplementsFunctorQueue`), which are beyond the prover. Every safety
invariant and action property of a passing run is proved.

## 6. Hazards without a property

`PROJECT.json` lists the hazards with the properties that cover them. These have none:

* `Epoll`'s event array grows in capacity and not in size (Epoll.cpp:140): it is not
  modelled.
* An array reply of Redis that arrives in several reads is collected more than once,
  because `parse` clears the arguments instead of the results (RedisConnect.h:336): the
  strings of replies are not modelled.
* `grasp` takes a connection whose `auth` was refused for a good one, finds its error
  code, disables it and calls itself (RedisConnect.h:684), for as long as the server
  refuses: the steps are in the model, and nothing claims that it returns.

* A write to a socket that is shut raises SIGPIPE (TcpConnection.cpp:100): the models have
  it, `OnlyHangupFails` permits it.
* `cancelInLoop` fails its last assert for any timer that has not expired
  (TimerQueue.cpp:138), and `addTimer` may read a timer that is gone (line 110): the
  models show both, `TimerAsserts` and `SameTimers` end there.
* A bad request line is parsed again when another message comes before the connection is
  closed, and the assert of `setMethod` fails (HttpRequest.h:38): `AnswersMatch` and
  `AnsweredInTurn` permit the abort.
* Statements and results that `executeQuery` cannot take (pool.cpp:182): a cause that
  `FailsOnlyIfMisused` excepts.

Some properties are conditional: they say that nothing else goes wrong, and what they
leave out can happen in the models, and in the code.

* `FailsOnlyOutsideLoop`: a `quit()` before the thread has entered `loop()` fails the
  assert at EventLoop.cpp:160, one that races the loop's end writes to an eventfd that is
  gone.
* `OnlyHangupFails`: when the loop closes a connection between another thread's look at
  `m_state`, its assignment and its queueing (TcpConnection.cpp:137-140, 232-237), a
  functor bound to a raw `this` may find it deleted, and `m_state`, set back, fails other
  asserts. That the data which `sendInLoop` is given a pointer to is still there is not
  modelled at all.
* `ClosedIsDeleted` leaves out connections with waiting output, which `OutputIsSent` is
  about, and `BacklogServed` an `accept()` that fails for ever.
* `StopReturns` and `RecordsWritten`: a log stopped right after its start aborts
  (AsyncLogging.cpp:49), as does one whose file cannot be opened or removed;
  `NoRecordLost` leaves the content of a file open once a write to it has failed.
* `OwnAnswer`: a user who ignores a timeout and goes on reads the late reply as his next
  answer, and may then return a connection that is out of step with a code that says OK;
  so may one whose reply is an array with an array, a status or a nil before its end
  (RedisConnect.h:340, 364), or an array of strings cut between two of them just where an
  earlier reply has left a negative number in the buffer (357).
* `FailsOnlyIfMisused` and `LentToOne`: a MySQL pool that is resized, or used or asked for
  while it is destroyed, is undefined.
* `CacheIntegrity` and `EvictsLeastUsed` are conditional on no key being set twice: TLC
  shows that when two threads miss the same key and both set it, a node is orphaned, and
  later `kmap` can pass the capacity, after which `set` evicts no more.
* `AppendAsserts` and the rest about Buffer are about lengths that an `int` holds:
  `makeSpace` narrows the `size_t` that `append` passes, which matters for one append of
  2 GiB or more.

## 7. Plan

1. An abstract specification of a bounded lending pool, implemented by ResPool and by the
   MySQL pool.
2. Model: Epoll's event array and its limit; `EventLoopThreadPool` as a composition of
   `EventLoopThread`s.
