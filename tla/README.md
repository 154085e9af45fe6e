# dflockd-client-py in TLA+

`dflockd` is a TCP lock server; this repository is its Python client
(`src/src/dflockd_client/`, 2140 lines, no dependencies). These modules describe
what the client does with its threads, its connections and its leases, TLC
checks them on small instances, and TLAPS proves the main results for every
value of the constants. The server is not in the repository: it is modelled from
how the client uses it, and such definitions are called *external* below.

## 1. The system

| Component | State it keeps | Operations | Talks to |
|---|---|---|---|
| `_SyncBase` (`_sync.py` 335-697): `DistributedLock`, `DistributedSemaphore` | `_conn`, `token`, `lease`, `_renew_thread`, `_stop_event`, `_closed`; mutexes `_state_lock`, `_io_lock` | `acquire`, `enqueue`, `wait`, `release`, `close`, `__del__`; the renew thread's loop | its `SyncConn`, one daemon thread per attempt |
| `SyncConn` (59-102) | a socket, a read buffer, the mutex `_mu` | `command`, `close`, `shutdown_read` | the server, by frames of three lines and answers of one |
| Protocol (`_protocol.py`), low-level functions (`_sync.py` 170-316) | none | validators, encoders, decoders | called by every command |
| Renewal timing (`renew_interval`, `_renew_loop`) | the interval | sleep, renew, repeat | the lease at the server |
| `_AsyncBase`, `AsyncConn` (`_async.py`) | as the sync ones, with a task for the thread and `asyncio.Lock`s | the same, each `await` a cancellation point | the same |
| Sharding (`sharding.py`) | none | key to server index, and the check of a strategy's own | `_pick_server` |
| The application | the body of its `with` statements, the fences it sends | `__enter__`, `__exit__`, `fence_from_token` | a resource that checks fences (external) |
| Server (external) | per key: holder, FIFO of waiters, lease, fence counter | `l r n e w`, `sl sr sn se sw`, `auth`, `stats`; lease expiry; auto-release on disconnect | every client |

How they interact: a public call of a lock object holds `_state_lock` for its
whole length, so that calls are sequential. `acquire` and `enqueue` close what
is left of the last attempt, arm a new stop event, dial, ask for the grant and
start a renew thread. That thread wakes at intervals and renews on the same
connection under `_io_lock`; when a renewal fails it gives the lock up by
itself. `release` and `close` stop the thread (event, `join(timeout=5)`), wake
its read by shutting the socket down, and close the socket under `_io_lock`.
Closing is how the client makes the server free whatever it has.

What is hard here, and what makes each component correct:

- *Lock object.* Renew threads run concurrently with the calls, and may outlive
  them because `join` has a timeout. Correct means: a token is set only while
  its own thread renews it; a thread renews its own grant and no other; nothing
  that fails leaks a socket; no renewal follows a release; only genuine losses
  are reported; every call returns; a re-used object does not keep what an
  earlier attempt got.
- *Connection.* A command may fail half-way, with its answer still under way.
  Correct means: nobody ever gets another command's answer, and nothing runs
  after a failure.
- *Protocol.* Optional words are told apart by position, and a line may be cut
  short. Correct means: the server reads what was asked; a damaged answer never
  grants more than the server did.
- *Timing.* A renewal has to reach the server before the lease ends.
- *Async lock.* The same as the sync lock, with a cancellation possible at each
  `await`, also at those of the clean-up after a cancellation. Nothing happens
  between two awaits, and what is half done at one of them is what another task
  sees.
- *Async connection.* The same as the sync one; but closing a transport does not
  empty its reader, and a write to a closed one raises nothing.
- *Several clients.* One of them at a time is in its `with` body, whatever
  servers, leases and lines do, and a write that comes late is refused.

The hazards, each at its line and with the properties that cover it, are listed
in `PROJECT.json`.

## 2. The modules

| Module | What it is |
|---|---|
| `SyncLock` | one sync lock object, its callers, all its renew threads, its connections, and the server's side of them |
| `SyncLockProofs` | the inductive invariant of `SyncLock` and the proofs |
| `MCSyncLock` | `SyncLock` with the proofs' invariant, for TLC |
| `SyncInterrupt` | `SyncLock` with a `KeyboardInterrupt` in a public call |
| `SyncInterruptProofs` | what holds whatever is interrupted, and what the calls promise until then, proved |
| `AsyncLock` | one async lock object, its caller and the caller's cancellation, its renew tasks, its connections, and the server's side of them |
| `MCAsyncLock` | `AsyncLock` with a history variable, for TLC |
| `AsyncLockProofs` | the inductive invariant of `AsyncLock` and the proofs |
| `LockHandle` | what a lock object promises its application (abstract); `SyncLock`, `AsyncLock` and each client of `LockService` implement it |
| `LockService`, `MCLockService` | several clients of one key, its servers, and a resource that checks fences |
| `LockServiceProofs` | exclusion, fences and the promise to each client, proved |
| `RpcChannel` | what a connection promises to the threads or tasks that share it (abstract) |
| `AsyncConn` | `AsyncConn.command` by several tasks, over a transport with its buffers; implements `RpcChannel` over TCP |
| `AsyncConnProofs` | that it does, and why |
| `SyncConn` | `SyncConn.command` by several threads, with the bytes as frames and lines; implements `RpcChannel` |
| `SyncConnProofs` | the invariant of a shared connection and the refinement of `RpcChannel`, proved |
| `Requests` | validators, encoders, and the server that reads the frame |
| `Responses` | decoders, applied to whole, cut, misdelivered and arbitrary lines |
| `MCProtocol` | `Requests` and `Responses` side by side, for TLC |
| `ProtocolProofs` | what the decoders make of any line, and the server of any request, proved |
| `RenewTiming` | one held lock against the clock |
| `RenewTimingProofs` | a long enough lease never lapses, and the belief in an expired one ends, proved |

### SyncLock

An *attempt* is one `acquire()` or `enqueue()`. Its number names its connection,
its token, its thread and its stop event; there is at most one of each per
attempt (`OpenSucceeds` dials once, `MakeThread` makes one thread). `lease`
holds the number of the grant whose TTL it shows: what matters is whose lease it
is, not how long.

- *Caller.* `pc` follows the public call through the code, one value per place
  where another thread can step in between. `Call` takes `_state_lock`; it is
  not a variable, because the calls are one process.
  `_stop_renew` is `StopRenew`/`JoinStopped`; `_release_unlocked` is
  `NothingToRelease`/`SendRelease`/`ReleaseReturns`; `_close_unlocked` is
  `CloseAgain` (its early return) or `BeginClose`, `ShutNothing`/`ShutConn`,
  `CloseConn`, `JoinAndClear`; `_reset_for_new_attempt` ends with `Rearm`.
  `_start_renew` is `MakeThread`, which stores the thread, and `StartRenew` or
  `StartFails`: `Thread.start()` raises when the system has no thread left. No
  handler is around it, so that the call ends with its token, its connection and a
  thread that never ran (`NeverStarted`), which a later `join` refuses
  (`JoinRaises`).
- *Worker r.* `wpc[r]` follows `_renew_loop`. `TickLoads` is the test of
  `_closed` and the stop event with the loads of `_conn` and `token`. The failure
  path is split at its check and its log (`CheckFailure`, `LogFailure`: `close()`
  may set `_closed` in between) and at each store (`CompareConn`, `LoseConn`, `LoseToken`,
  `LoseLease`), `_update_lease` at its check (`UpdateChecked`) and its store
  (`UpdateLease`), because other threads read and write the same fields there.
- *Connections.* `sock` is the client's end: `shut` after `shutdown_read`,
  `closed` after `close`. `net` is the one frame or line under way; `_mu` is
  `MuFree`. `grant` is what the server has for the connection.

Steps that stand for several statements: `BeginClose` sets `_closed` and the
event (any reader tests both with `or`, or tests only the event and then ends
the same way); `JoinAndClear` joins and clears, and `LoseLease` clears the lease,
closes the socket and leaves `_io_lock` (nobody reads in between, or whoever does
waits for the lock); `MakeThread` stores the lease, which came with the token, and
the thread (the caller is inside `_state_lock`, and no worker of the attempt runs
yet).
Seconds are left out of this module: a timeout is a choice to stop waiting.

`CompareConn` has both outcomes of `if self._conn is conn`. The proof shows that
under `_io_lock` the comparison always succeeds (`LockInv`): the guard is a
second line of defence, and the lock is what carries the property.

### SyncInterrupt

Python raises `KeyboardInterrupt` in the main thread between two of its steps or
out of a wait. It is an action at each `pc` of a call: within `command()`, the
dial or the request it is one more failure (`except BaseException`), elsewhere
nothing catches it and the call just ends (`InterruptEnds`), except that `with`
gives `_io_lock` back (`LeftIoLock`). An interrupt of `_reset_for_new_attempt`
after `_closed = False` leaves the old stop event (`InterruptRearm`). Between the
token and the thread, `acquire()` and `wait()` may still be in their `try`, or just
past it (`InterruptGranted`); between the thread and its start, the thread stays
unstarted (`InterruptEnds`); after that it runs (`InterruptStart`).

`interrupted` is history. `InterruptedStopsOwnWorker`,
`LaterCallsReturn` and `LaterWorkersExit` hold whatever was interrupted; those named `...TillInterrupted`
are what the calls promise when they are left to finish, and
`KeepsPromiseTillInterrupted` only until `Thread.start()` has raised, if ever. An interrupted `close()`
does leave something: `_closed` is set, so that the next `close()` or `release()`
returns early (`_sync.py` line 527), and the connection stays open until the object
is armed again or collected. The async twin tests `_conn` and `_renew_task` as well
(`_async.py` line 484), and `ClosedIsClean` holds of it.

### AsyncLock

The names are those of `SyncLock`; the steps are longer. A step goes from one
await to the next, and workers run only while the caller is at one
(`CallerAwaits`). `_cancel_and_wait` is `CancelRenew` (forget the handle, cancel
the task) and `WorkerAwaited`; `_close_unlocked` is `CloseUnlocked` (detach the
handles, close the transport, cancel the task), `CloseStopped`, and `Closed` or
`Rearm`. `_start_renew` is part of `CommandGranted`: there is no await between
the answer and the task.

`CancelPoints` names the awaits at which a call may be cancelled: `reset`
(`_cancel_renew` of a re-acquire), `stopping` and `closing` (`_close_unlocked`),
`open`, `await` (the command), `iolock`, `relstop`, `relwait` (`release`). At the
first three the call ends; a cancelled dial or command closes its connection; a
cancelled `release` goes on to its `finally`, where it may be cancelled again.
A worker that `cancel()` was called on takes `CancelledWorker` as its next step,
and leaves `_io_lock` and its connection as the `async with` and `command()` do.
A caller that waits for `_io_lock` gets it before a worker that comes later
(`MayLockIo`): `asyncio.Lock` is a queue.

### LockHandle

The object has nothing, a connection, or a grant; a call is in progress or none
is. It comes to have more only in a call that asks for it (`Asking`, or `wait`),
one attempt after the other; `release` and `close` leave nothing; a failed call
(`giveup`) leaves nothing; `acquire` leaves nothing or a grant of its own attempt.
A grant can be lost at any time and does not come back.

### LockService

Each client runs `with lock:` on the same key: `Enter` is `__enter__` up to the
reset, `Open` the choice of the server with the dial and the request, `Granted`
and `NotGranted` the ends of `acquire()`, `Exit` and `Exited` the two halves of
`release()`, `Lose` the failure of a renewal, after which the body runs on. Each
client is shown to be a `LockHandle`, which is why one step here may stand for
many of `SyncLock`. A token is a sequence of digits, the counter's and then random
ones, and `FenceFromToken` reads the first half. A client in `Custom` has a
strategy of its own, whose index is validated; `servers[i]` is Python's, which
takes a negative index from the end. The servers keep a FIFO queue, at most
`Limit` holders, and a counter that outlives a restart. A write may arrive at any
later time. `order` and `last` are history: who was granted when, and whose write
was accepted last.

### SyncConn, AsyncConn and RpcChannel

A call is a pair of thread and number; frames and lines carry the call they
belong to. `ReadCutLine` is `readline()` at the end of the stream: `_read_line`
takes a last line without its newline. `CloseAndRaise` is the `except
BaseException` clause, still under `_mu`. `Status` maps the state to
`RpcChannel`; a line that answers another call would map to `mispaired`, which
no step of `RpcChannel` reaches.

`AsyncConn` has the same calls, made by tasks that queue for `_mu` in order
(`waiters`). `Write` fills the transport's buffer (`backlog`), `Flush` sends it,
`Feed` puts what arrived into the `StreamReader` (`inbox`), and the task that
waits for a line reads it in a later iteration, before which it may be cancelled
or time out (`CommandFails`). `Withdraw` is a cancellation while it waits for
`_mu`. After `close_nowait()` a TCP transport reads nothing more, and a TLS
transport (`Tls`) goes on until the peer has closed; both may still flush what
was written, so that a call after the failure may take effect (`LateEffects` of
`RpcChannel`).

### Requests and Responses

Texts are lines of words: blanks and newlines are the boundaries they are on the
wire. `Requests` sends each operation with the boundary values of each argument
(and a Boolean for a number, an unknown prefix, an empty, blank, broken or too
long text), and the external server reads the three lines back by position.
`sem_*` functions are the same with prefix `s`. `Responses` takes a line from the
server and gives it to a decoder whole, cut at any place, to the wrong command's
decoder, or replaces it by any line of up to four words.

### RenewTiming

Time passes in ticks. `RenewInterval` is `renew_interval` with its fallback and
its floor of one second; a failed or unanswered renewal ends the worker, there is
no second try. A message travels for `MaxDelay` ticks at most unless it is lost
(`msg` then stays `lost`), and a thread is late by `MaxLate` at most: the code
bounds neither, so every property names them. `renew_interval` keeps to the
documented `lease * renew_ratio` only where that is a second or more, which is the
first condition of `LongEnough`.

## 3. What TLC checks

| Run | Instance | Shows |
|---|---|---|
| `lock_lingering` | 2 attempts, joins may time out | `TypeOK`, `IInv`; a held lock is renewed, unless its thread could not be started (`HeldIsRenewed`), each worker keeps to its own grant (`WorkerOwnGrant`), no socket leaks (`NoLeakedConn`), release comes last (`ReleaseIsLast`), a failed renewal is logged if nobody gives the lock up, and not if `close()` broke it (`LossIsReported`), a stale worker never takes the connection (`StaleWorkerKeepsConn`) |
| `lock_interrupted` | 2 attempts, joins see the thread end, an interrupt in any call, fair | the only worker nobody stopped is the one later calls reach (`InterruptedStopsOwnWorker`), calls return (`LaterCallsReturn`) and stopped workers end (`LaterWorkersExit`); until an interrupt, no grant is forgotten (`NoForgottenGrantTillInterrupted`), the lease shown is the token's (`LeaseBelongsToTokenTillInterrupted`), re-use frees what was left (`ReusedGrantIsFreedTillInterrupted`), `LockHandle` is implemented (`KeepsPromiseTillInterrupted`) |
| `lock_stale` | 2 attempts, joins may time out | **violation**: a stale worker does write the re-used object |
| `lock_dropped` | 1 attempt, fair | **violation**: a dropped held lock is never collected |
| `async_cancel` | 2 attempts, cancelled at any await, fair | `WorkerOwnGrant`, `NoLeakedConn` as above; no grant is forgotten (`NoForgottenGrant`); an object that is closed has nothing (`ClosedIsClean`); a cancelled renewal is not logged as a loss (`LossIsGenuine`); calls return (`CallReturns`), re-use frees what was left (`ReusedGrantIsFreed`); but for a token kept by a cancellation at `reset`, a held lock is renewed (`HeldIsRenewedUnlessCut`) and `LockHandle` is implemented (`KeepsPromiseUnlessCut`) |
| `async_reset` | cancelled at `reset` only | **violation**: held, and no longer renewed |
| `async_conn_tcp` | 2 tasks, 2 commands each, TCP, fair | `RpcChannel` is implemented (`KeepsPromise`); only a command that wrote, or the owner, closes the connection (`LossHasCause`); every command returns (`CommandReturns`) |
| `async_conn_tls` | 2 tasks, 1 command each, TLS | **violation**: a command gets another one's answer (`OwnAnswer`) |
| `service_lock` | 3 clients, 3 entries in all, 2 servers, one client with index -1 | one client is in its body (`BodiesExclude`), no stale write is accepted (`NoStaleWrite`), every client is a `LockHandle` (`ClientsKeepPromise`) |
| `conn_shared` | 3 threads, 2 commands each | one frame or line under way, the caller's own (`OneInFlight`); `RpcChannel` is implemented (`KeepsPromise`) |
| `protocol` | boundary values of every argument; every answer and every line of four words | what is sent is read as asked (`ReadAsAsked`); what is refused would be misread (`RefusesOnlyMisread`); `DecodesWhatWasSent`, `CutNeverOverstates`, `NoConfusion`, `LeaseInRange` |
| `renew_hold` | TTLs 1 to 15 s, delays to 1 s, any message lost | a long enough lease never lapses while nothing is lost (`NeverLapses`); the belief in an expired lease is bounded (`OverrunBounded`) |

The four disagreements with the repository's own words that a run shows:

1. `CHANGELOG.md` line 30: "stale renewal workers cannot update a reused lock or
   semaphore after shutdown". They can, after a `join(timeout=5)` that returned
   before the thread ended: `_update_lease` stores after an unlocked check, and
   `_handle_renew_failure` clears `token` after `_conn`. With joins that see the
   thread end the object keeps every promise of a `LockHandle`
   (`lock_interrupted`), and even with lingering threads the connection is safe
   (`StaleWorkerKeepsConn`).
2. `docs/guide/architecture.md` line 131 has garbage collection followed by the
   server's auto-release free the slot. The target of a renew thread is a bound
   method, so that a held lock cannot be collected, and its thread renews it for
   as long as the process lives.
3. The docstring of `AsyncConn` (`_async.py` line 47) has its mutex keep requests
   and responses apart, and `CHANGELOG.md` line 44 says that stale responses
   cannot corrupt the next command after a failed one. Over TLS they can:
   `close_nowait()` does not empty the reader, and the transport stays up until
   the peer has closed. A command cancelled when its answer has just arrived
   leaves the line there; the next one that waited for `_mu` returns it.
   `async_conn_tcp` shows that over TCP this does not happen. A lock object does
   not meet it: it makes one command at a time under `_io_lock` or `_state_lock`,
   and gives the connection up after a failure.
4. `docs/client/async.md` line 79: "Once a lock is held, an `asyncio.Task` sends
   `renew` requests". `acquire()` or `enqueue()` on a held lock, cancelled at its
   first await, ends with `token` set, the connection open and no task.
   `async_cancel` shows that this await is the only one.

Two more can be read off the modules and have no run of their own:

- `docs/guide/architecture.md` line 84 has `acquire()` close its connection on error.
  `_start_renew` is called after the `try` (`_sync.py` lines 445, 468, 489), and
  `StartFails` ends the call with `token` set, the connection open and no worker.
  `_renew_thread` then names a thread that cannot be joined (`JoinRaises`), so that
  `release()`, `acquire()` and the first `close()` raise from then on. `HeldIsRenewed`
  has this one exception, and `LockHandle` is implemented until it happens.
- `docs/client/sync.md` line 104 has a renewal every `lease * renew_ratio` seconds. The
  floor of one second (`RenewInterval`) renews a lease of one second when it has run
  out, however fast messages are, which is why `NeverLapses` has a condition.

*Bounds.* Two attempts are the least in which a worker of one meets the next
attempt; with three a worker may be two attempts behind. `lock_lingering` also
passes with three attempts (8.4 million states, two minutes), and its properties
are proved for any number. Three threads are the least in which, of two that
wait for `_mu` while the third fails, each may come first; two commands let a
thread come back after a failure. In `protocol`, MaxSeconds = 105 has numerals
of three digits, so that a cut can take one or two; MaxLine = 5 has room for the three
words of a semaphore's `acquire` and for a token that fits with a lease exactly; four words are one more than any
decoder takes. In `renew_hold` the longer TTLs are long enough for the delays, and
the shorter ones show that `NeverLapses` needs its condition.

The safety properties of `async_cancel` also hold with three attempts (3.2 million
states). Three entries
of three clients have each client enter once, or one twice with another in
between, so that its old connection meets the new one at the server. Two slots and
three clients are the least in which a semaphore is full and someone waits. Tokens
have three binary digits, enough for three grants, and two random halves, one below
and one above all counters. With one server, two slots and three clients that are
alike `BodiesExclude` holds as well. `async_conn_tcp` has two tasks, of which one
waits for `_mu` while the other fails, or is withdrawn; it also passes with three
tasks (1.3 million states, two minutes), of which two wait. In `lock_interrupted`
an interrupt may come in each of two attempts, and again in the calls after it.

*Fairness* (`SyncLock!FairSpec`). `WF` of the caller's steps inside a call: each
wait there has a timeout (`join(timeout=5)`, the socket's deadline) or waits for
`_io_lock`, whose holder's read has a deadline too. `WF` of each worker: a
started thread is scheduled. `WF` of the server noticing a closed socket. Nothing
is assumed of the server's answers, of the application making another call, or
of leases expiring.

`AsyncLock!FairSpec` is the same with tasks for threads: the event loop runs each
task that can go on, and each await of a call has a timeout or waits for a task
that was cancelled or for `_io_lock`. `AsyncConn!FairSpec` has `WF` of each task in
`command()`, which its read timeout lets go on whatever the server does.
`SyncInterrupt` has the fairness of `SyncLock`, and interrupts are never fair.
`LockService` has safety properties only: every wait in it ends by a timeout of
its own.

Deadlock is checked in every run; a program that is over stutters by an action
of its own (`Over`, `Lost`).

## 4. What is proved

TLAPS checks all proofs, for every value of the constants that the named assumptions
allow (numbers are numbers, sets are not empty, and so on). Where a theorem has a
hypothesis of its own, the text below names it and says why it is needed. The safety
properties that the passing runs check are theorems, and so are the five refinements.

A proof of an invariant has three parts: it holds initially, each action keeps it
(one step per action, and under it one per part that the action can disturb), and it
implies the property. None of the properties is inductive by itself. What is
interesting is what had to be added: it is what the code relies on and nowhere states.

### The sync lock (`SyncLockProofs`)

For any number of attempts, and with or without lingering threads:

| Theorem | Says |
|---|---|
| `Invariance` | `Spec => []IInv` |
| `TypeCorrect`, `HeldStaysRenewed`, `WorkersKeepToTheirGrant`, `NoConnLeaks` | the state properties of `lock_lingering` |
| `ReleaseComesLast`, `LossesAreReported`, `StaleWorkersKeepConn` | its action properties |

`IInv` adds:

- `ArmingInv`: stop event, attempt and worker have the same number, and all
  workers of earlier attempts have a set event. So a lingering worker can only
  finish the step it is in.
- `HandleInv`: `_conn`, `token` and `_renew_thread` are the current attempt's or
  `None`, and a closed object has given them up before it can be armed again. One
  whose thread was never started (`Unstarted`) is never armed again: its joins raise.
- `LockInv`: who is where under `_io_lock`; a worker that uses a connection under
  it uses its own, and that is still `self._conn`. This is why `close()` must take
  the lock before it forgets the connection.
- `GrantInv`: a request for a grant belongs to an attempt without a worker, so
  that a late answer cannot start a second one.
- `StopInv`: a worker that may still go on is the one `_renew_thread` names, so
  that `release` and `close` stop the right one; and nobody has told it to stop
  while the object rests with a connection, so that what fails then is a loss.
- `HeldInv`, `SockInv`: the properties, extended to the places in the middle of a
  call and of the failure path.

### Interrupted calls (`SyncInterruptProofs`)

`StopReachesWorkers` holds whatever is interrupted and with lingering threads too. An
interrupt breaks most of `IInv`; its invariant, `InterruptInv`, keeps the types,
`ArmingInv`, `ReachInv` (an object is armed again only after the old event was set, so
that the one worker nobody told to stop is still the one `_renew_thread` names) and
`RequestInv` (which call can be where).

`NoGrantForgotten`, `LeasesBelongToTokens` and `PromiseKept` (the object is a
`LockHandle`) hold until a call is interrupted, the last only until `Thread.start()`
raises as well. Their hypothesis is `~ JoinMayTimeOut`: a
join sees the thread end. It is needed; `lock_stale` shows what a lingering thread does
to a re-used object. The invariant is `CalmInv`: `IInv`, and `OneWorker` (one thread at
a time, the current attempt's, which has the token until it gives it up), `LeaseInv` (a
lease is shown with its token, except between two stores of the failure path) and
`AskInv` (a grant at the server is known, on its way, or about to be closed).

### The async lock (`AsyncLockProofs`)

For any number of attempts and cancellations, `IInv` is

- `CallerInv`: which call can be at which await;
- `HandleInv`: `_conn`, `token` and `_renew_task` are the current attempt's, and a closed
  object has none of them. There is no moment, as in the sync twin, where a closed
  object still has some: `_close_unlocked` detaches all handles before its first await;
- `WorkerInv`: a task that was not cancelled is the one `_renew_task` names, and one that
  is renewing has `_io_lock` and uses its own connection;
- `ChannelInv`: an open transport is the object's.

`WorkersKeepToTheirGrant`, `ClosedLeavesNothing`, `NoConnLeaks`, `NoGrantForgotten` and
`LossesAreGenuine` follow, wherever a call was cancelled. `RenewsSomething` is a result of
its own: the early returns of `_renew_tick` and `_safe_renew_once` (`_async.py` lines
573-580) are never taken, because whoever clears what they test has cancelled the task
in the same step.
`HeldStaysRenewed` and `PromiseKept` (the object is a `LockHandle`) hold until a cancellation
cuts the reset of a held object short, as `async_reset` has it; `CutInv` is the
strengthening.

### Shared connections (`SyncConnProofs`, `AsyncConnProofs`)

`SyncConn` keeps `OneInFlight` (`OneUnderWay`) and implements `RpcChannel`
(`PromiseKept`), for any number of threads and commands. `LineInv` says whose frame or
line is under way, the holder's of `_mu` or that of the command that failed;
`BrokenInv`, that after a failure the socket is closed; `CallInv`, which of a thread's
calls are over.

Of `AsyncConn`, `TypeCorrect` (with it, that the queue for `_mu` has each waiting task
once) and `LossesHaveCauses` hold over TCP and TLS, `AnswersAreOwn` and `PromiseKept` with
the hypothesis `~ Tls`, without which the run `async_conn_tls` refutes them. What saves
plain TCP is `ReadInv`: a transport that still flushes after `close_nowait()` had
not yet sent its last frame, so that the reader is empty, and it reads nothing more.
`OpenInv` has the three places where the one frame or line may be while the transport
is open, and `WireInv` that frames on the wire have not run and lines have.

### Several clients (`LockServiceProofs`)

`AtMostLimit` says that at most `Limit` clients are in their body with a grant that
is neither expired nor broken, `StaleWritesStop` that the resource lets no write of an
earlier grant pass after one of a later, `PromisesKept` that each client is a
`LockHandle`, for any number of clients, servers, slots and attempts. The first two
have hypotheses:

- `Agreed`: clients whose strategy's index is not refused name the same server. That is
  what `docs/guide/sharding.md` line 5 says of a strategy ("the same key always lands
  on the same server"); with two that do not agree there are two locks.
- `CountersFit`: no grant counter outgrows its half of the token (64 bits in the code).

That a fence is the number of its grant is `FencesReadBack`: `fence_from_token` reads the
counter back out of every token it fits in, for every base, width and random half. This
is an induction over the digits. The library's induction theorems take an operator as a
parameter, which the provers cannot instantiate, so it goes by the least number for which
a claim fails: the claim is a set, `<` on `Nat` is well-founded (`NatLessThanWellFounded`,
`WFMin`), hence `LeastMember`, hence `Upwards`, which lifts membership from 0 to each number
after the one before. The same argument shows that the recursive function `Power` and
the function inside the fold exist (`PowerExists`, `FoldExists`), so that their equations may
be used (`Powers`, `Horner`). `QuotientTwice` relates the digits at two places.

`ClientInv` says what a client has at each point of a call, `ServerInv` that a server's
queue and slots name connections that were opened to it, and `FenceInv` that tokens,
fences and the resource's memory are numbers of grants in the order of the grants.

### The protocol (`ProtocolProofs`)

For every `MAX_PROTOCOL_SECONDS` and lines of any length: `WholeAnswersMeanTheSame`,
`CutAnswersSayNoMore`, `OthersAnswersAreNotBelieved` and `LeasesAreInRange` state the
four properties of `Responses`. The state part is small (`AnswerInv`: the decoder of the
command that waits is applied to a line of the kind its fate says). The work is in
lemmas about the decoders: the forms an answer has (`AnswersHaveForms`), what is left
of each when it is cut, a number by however many digits (`StatusCut`, `LeftCut`, `GrantCut`), and which decoder takes which
form for a success (`StatusDecoded`, `LeftDecoded`, `GrantDecoded`, `StumpFails`,
`LeaselessFails`).

The other way, for every `MAX_LINE_BYTES` and `MAX_AUTH_TOKEN_BYTES` too:
`RequestsAreReadAsAsked` (`ReadAsAsked`) and `OnlyMisreadIsRefused`
(`RefusesOnlyMisread`). They are two halves of one fact per operation: its validators
let a call through exactly if the server reads the frame back as that call
(`AcquireAccepts` to `StatsAccepts`), which `RequestInv` keeps while the frame is under
way. The optional words are told apart because a prefix decides how many there may be
(`OptionalsAreRead`), and a token that fits with a lease behind it fits alone
(`TokenFits`), for which the fold that `Bytes` is had to be unrolled for lines of one
and two words. Both rest on `NamesAssumption`: no two commands have one name when
prefix and operation are put together (`cmd_name`). The provers do not evaluate `\o` on
strings; TLC evaluates the assumption in every run of `protocol`.

### Timing (`RenewTimingProofs`)

`LeaseNeverLapses`: for every TTL, ratio, delay bound and grain of the clock, if no
message is lost and the lease is longer than its interval plus one late wake-up and
two messages, the lock stays held and leased. The invariant (`Round`) says at each point
of a round what the worker's own clock implies about the lease at the server;
`Courier` says that nothing is under way, or lost, while the worker sleeps, so that a loss
ends its last round.

`OverrunIsBounded`: whatever is lost and however short the lease is, the client believes
in an expired one for no longer than its own interval and read timeout, their
lateness and one delivery, less the TTL. `Unrenewed` is the time since the server last
set the lease, and `Overrun` bounds it by the clock of whatever the worker waits for.

### Only model-checked

- Liveness, which is out of the prover's reach as `ENABLED` is: `CallReturns`,
  `ReusedGrantIsFreed`, `CommandReturns`, `LaterCallsReturn`, `LaterWorkersExit`,
  `ReusedGrantIsFreedTillInterrupted`.
- `NamesAssumption`, as said above.

## 5. What is not modelled, and the plan

The modules of the plan are written, and what it had left to prove is proved.

Left out for good:

- TLS handshakes and name resolution (I/O), log texts and `token_for_log`, the JSON
  shape of `stats`, `__init__.py` (re-exports), tests, docs and examples, which were
  read for what they promise.
- The checks of a configuration at start-up (`__post_init__`, `_validate_servers`,
  `validate_connect_timeout_s`): each is one condition on one argument and keeps no
  state. Those whose result reaches the wire are in `Requests`, and that of a
  strategy's index, which runs with every attempt, is in `LockService`.
- The `_mu` of a connection in `AsyncLock`, and its `_state_lock`: under `_io_lock` or
  within one call there is one command at a time. `AsyncConn` has the general case.
- Direct use of `SyncConn` or `AsyncConn` on the connection of a lock object, and
  calls on a lock object from its own renew thread or from signal handlers.
