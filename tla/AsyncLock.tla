------------------------------ MODULE AsyncLock ------------------------------
(***************************************************************************)
(* One async DistributedLock (or DistributedSemaphore: the same _AsyncBase)*)
(* object of src/src/dflockd_client/_async.py, the renew tasks it starts,  *)
(* its connections, and the part of the dflockd server that answers them.  *)
(*                                                                         *)
(* All run in one event loop: a step goes from one await to the next, and  *)
(* nothing else happens within it.  The public calls run one at a time,    *)
(* because each holds _state_lock: they are one sequential process, the    *)
(* CALLER.  It may be cancelled at the awaits in CancelPoints.  Every renew*)
(* task is a WORKER.  As in SyncLock, the number of an ATTEMPT names its   *)
(* connection, its grant token and its worker, and `lease' holds the       *)
(* number of the grant whose TTL it shows.                                 *)
(***************************************************************************)
EXTENDS Integers

CONSTANTS
    MaxAttempts,   \* bound: how many acquire()/enqueue() calls a run makes
    CancelPoints   \* the awaits at which a public call may be cancelled

Awaits == {"reset", "stopping", "closing", "open", "await", "iolock", "relstop", "relwait"}

ASSUME MaxAttemptsAssumption == MaxAttempts \in Nat \ {0}
ASSUME CancelPointsAssumption == CancelPoints \subseteq Awaits

None == 0
Caller == -1
Attempts == 1 .. MaxAttempts

VARIABLES
    pc,         \* where the caller is
    op,         \* the public call it is in
    cur,        \* the connection it uses or closes
    awaited,    \* the renew task it waits for in _cancel_and_wait
    closed,     \* self._closed
    conn,       \* self._conn
    token,      \* self.token
    lease,      \* self.lease
    renewTask,  \* self._renew_task
    attempt,    \* the current attempt
    ioLock,     \* the holder of self._io_lock
    wpc,        \* where each worker is
    wcancel,    \* the workers that cancel() was called on
    rconn,      \* a worker's local `conn' in _safe_renew_once
    rtok,       \* its local `token'
    lost,       \* the workers that logged their lock as lost
    sock,       \* the client's end of each connection
    net,        \* the one request or response in flight on each connection
    grant       \* what the server has for each connection

caller == <<pc, op, cur, awaited>>
held == <<conn, token, lease>>
tasks == <<renewTask, wcancel>>
object == <<closed, held, attempt, ioLock, tasks>>
locals == <<rconn, rtok, lost>>
worker == <<wpc, locals>>
channel == <<sock, net, grant>>
vars == <<caller, object, worker, channel>>

Responses == {"granted", "queued", "timeout", "renewed", "ok", "error"}
Requests == {"acquire", "enqueue", "wait", "renew", "release"}

Init ==
    /\ pc = "idle" /\ op = "none" /\ cur = None /\ awaited = None
    /\ closed = FALSE /\ attempt = 0 /\ ioLock = None
    /\ conn = None /\ token = None /\ lease = None
    /\ renewTask = None /\ wcancel = {} /\ lost = {}
    /\ wpc = [r \in Attempts |-> "none"]
    /\ rconn = [r \in Attempts |-> None] /\ rtok = [r \in Attempts |-> None]
    /\ sock = [c \in Attempts |-> "none"]
    /\ net = [c \in Attempts |-> "quiet"]
    /\ grant = [c \in Attempts |-> "none"]

Live(r) == r # None /\ wpc[r] \notin {"none", "dead"}

Return == pc' = "idle" /\ op' = "none" /\ cur' = None /\ awaited' = None

(* A frame written to a transport that is closed goes nowhere.             *)
Send(c, request) == net' = IF sock[c] = "open" THEN [net EXCEPT ![c] = request] ELSE net

Shut(c) == [d \in Attempts |-> IF d = c /\ sock[d] = "open" THEN "closed" ELSE sock[d]]

-----------------------------------------------------------------------------
(* The caller: public calls, each to its return before the next.           *)

Entry(o) ==
    CASE o \in {"acquire", "enqueue"} -> "begin"
      [] o = "wait" -> "wait"
      [] o = "release" -> "iolock"
      [] o = "close" -> "close"

Call(o) ==
    /\ pc = "idle"
    /\ o \in {"acquire", "enqueue"} => attempt < MaxAttempts
    /\ op' = o
    /\ pc' = Entry(o)
    /\ UNCHANGED <<cur, awaited, object, worker, channel>>

(* _cancel_renew up to its await: the handle is gone before the task is.   *)
WithoutCancel == UNCHANGED wcancel   \* mutant: the task is awaited, not cancelled

CancelTask == wcancel' = wcancel \cup ({renewTask} \ {None})

CancelRenew(there, next) ==
    /\ renewTask' = None
    /\ CancelTask
    /\ IF Live(renewTask)
       THEN pc' = there /\ awaited' = renewTask
       ELSE pc' = next /\ UNCHANGED awaited

(* _reset_for_new_attempt, its first line.                                 *)
BeginReset ==
    /\ pc = "begin"
    /\ CancelRenew("reset", "close")
    /\ UNCHANGED <<op, cur, closed, held, attempt, ioLock, worker, channel>>

(* _cancel_and_wait returns when the task has ended, however it did.       *)
WorkerAwaited(there, next) ==
    /\ pc = there
    /\ ~ Live(awaited)
    /\ pc' = next
    /\ UNCHANGED <<op, cur, awaited, object, worker, channel>>

ResetStopped == WorkerAwaited("reset", "close")

(* _close_unlocked up to its first await.  Its early return is the same    *)
(* with nothing left to detach or to cancel.                               *)
KeptOpen == sock   \* mutant: no close_nowait() before the await

DetachedSock == Shut(conn)

KeptHandles == UNCHANGED held   \* mutant: cleared only once the awaits are done

DetachConn == conn' = None /\ token' = None /\ lease' = None

CloseUnlocked ==
    /\ pc = "close"
    /\ closed' = TRUE
    /\ DetachConn
    /\ sock' = DetachedSock
    /\ cur' = conn
    /\ CancelRenew("stopping", "closing")
    /\ UNCHANGED <<op, attempt, ioLock, worker, net, grant>>

CloseStopped == WorkerAwaited("stopping", "closing")

(* `await conn.close()', five seconds at most; nothing to wait for without *)
(* a connection.  Then _reset_for_new_attempt goes on, or the call returns.*)
Closed ==
    /\ pc = "closing"
    /\ op \notin {"acquire", "enqueue"}
    /\ sock' = Shut(cur)
    /\ Return
    /\ UNCHANGED <<object, worker, net, grant>>

Rearm ==
    /\ pc = "closing"
    /\ op \in {"acquire", "enqueue"}
    /\ closed' = FALSE
    /\ attempt' = attempt + 1
    /\ pc' = "open"
    /\ cur' = None
    /\ sock' = Shut(cur)
    /\ UNCHANGED <<op, awaited, held, ioLock, tasks, worker, net, grant>>

(* The dial fails, or `auth' does and _maybe_authenticate closes.          *)
OpenFails ==
    /\ pc = "open"
    /\ \E s \in {"none", "closed"} : sock' = [sock EXCEPT ![attempt] = s]
    /\ Return
    /\ UNCHANGED <<object, worker, net, grant>>

(* _open_and_authenticate returns, and the request is written.             *)
OpenSucceeds ==
    /\ pc = "open"
    /\ sock' = [sock EXCEPT ![attempt] = "open"]
    /\ conn' = attempt
    /\ cur' = attempt
    /\ net' = [net EXCEPT ![attempt] = op]
    /\ pc' = "await"
    /\ UNCHANGED <<op, awaited, closed, token, lease, attempt, ioLock, tasks, worker, grant>>

(* wait(): already held; or never enqueued (raises); or write `w'.         *)
WaitReturns ==
    /\ pc = "wait"
    /\ token = None => conn = None
    /\ Return
    /\ UNCHANGED <<object, worker, channel>>

WaitOnConn ==
    /\ pc = "wait"
    /\ token = None /\ conn # None
    /\ cur' = conn
    /\ Send(conn, "wait")
    /\ pc' = "await"
    /\ UNCHANGED <<op, awaited, object, worker, sock, grant>>

GiveUp == pc' = "close" /\ op' = "giveup" /\ UNCHANGED <<cur, awaited>>

Answered(responses) ==
    /\ pc = "await"
    /\ net[cur] \in responses
    /\ net' = [net EXCEPT ![cur] = "quiet"]

(* A timeout, an error status, or a line the decoder refuses.              *)
CommandRefused ==
    /\ Answered(Responses)
    /\ GiveUp
    /\ UNCHANGED <<object, worker, sock, grant>>

(* EOF, a reset, the read timeout: command() has closed the transport.     *)
CommandBroken ==
    /\ pc = "await"
    /\ sock' = Shut(cur)
    /\ GiveUp
    /\ UNCHANGED <<object, worker, net, grant>>

CommandQueued ==
    /\ Answered({"queued"})
    /\ Return
    /\ UNCHANGED <<object, worker, sock, grant>>

(* The token is stored and its renew task created in one step.             *)
ForgottenToken == IF op = "enqueue" THEN token ELSE cur   \* mutant: the fast path

GrantedToken == cur

CommandGranted ==
    /\ Answered({"granted"})
    /\ token' = GrantedToken
    /\ lease' = cur
    /\ renewTask' = attempt
    /\ wpc' = [wpc EXCEPT ![attempt] = "sleep"]
    /\ Return
    /\ UNCHANGED <<closed, conn, attempt, ioLock, wcancel, locals, sock, grant>>

-----------------------------------------------------------------------------
(* The caller: _release_unlocked.                                          *)

(* `async with self._io_lock', and _cancel_renew_locked under it.          *)
ReleaseLocks ==
    /\ pc = "iolock"
    /\ ioLock = None
    /\ ioLock' = Caller
    /\ CancelRenew("relstop", "relsend")
    /\ UNCHANGED <<op, cur, closed, held, attempt, worker, channel>>

ReleaseStopped == WorkerAwaited("relstop", "relsend")

NothingToRelease ==
    /\ pc = "relsend"
    /\ None \in {conn, token}
    /\ ioLock' = None
    /\ pc' = "close"
    /\ UNCHANGED <<op, cur, awaited, closed, held, attempt, tasks, worker, channel>>

SendRelease ==
    /\ pc = "relsend"
    /\ None \notin {conn, token}
    /\ cur' = conn
    /\ Send(conn, "release")
    /\ pc' = "relwait"
    /\ UNCHANGED <<op, awaited, object, worker, sock, grant>>

(* _safe_release swallows every Exception.                                 *)
ReleaseReturns ==
    /\ pc = "relwait"
    /\ \/ /\ net[cur] \in {"ok", "error"}
          /\ net' = [net EXCEPT ![cur] = "quiet"]
          /\ UNCHANGED sock
       \/ sock' = Shut(cur) /\ UNCHANGED net
    /\ ioLock' = None
    /\ pc' = "close"
    /\ UNCHANGED <<op, cur, awaited, closed, held, attempt, tasks, worker, grant>>

-----------------------------------------------------------------------------
(* The caller is cancelled.  CancelledError is raised at the await.        *)

(* With no handler around the await the call just ends.                    *)
CancelEnds ==
    /\ pc \in CancelPoints \cap {"reset", "stopping", "closing"}
    /\ pc = "closing" => cur # None
    /\ Return
    /\ UNCHANGED <<object, worker, channel>>

CancelOpen == pc \in CancelPoints /\ OpenFails

CancelCommand == pc \in CancelPoints /\ CommandBroken

(* `finally: await self._close_unlocked()', out of `async with _io_lock'.  *)
HeldLock == ioLock   \* mutant: `_io_lock' released only on the way through

LeftLock == IF ioLock = Caller THEN None ELSE ioLock

CancelRelease ==
    /\ pc \in CancelPoints \cap {"iolock", "relstop", "relwait"}
    /\ sock' = IF pc = "relwait" THEN Shut(cur) ELSE sock
    /\ ioLock' = LeftLock
    /\ pc' = "close"
    /\ UNCHANGED <<op, cur, awaited, closed, held, attempt, tasks, worker, net, grant>>

-----------------------------------------------------------------------------
(* The last reference is dropped.  A scheduled task refers to the object;  *)
(* without one __del__ closes the transport.                               *)

Drop ==
    /\ pc = "idle"
    /\ pc' = "dropped"
    /\ UNCHANGED <<op, cur, awaited, object, worker, channel>>

Collect ==
    /\ pc = "dropped"
    /\ \A r \in Attempts : ~ Live(r)
    /\ sock' = Shut(conn)
    /\ pc' = "gone"
    /\ UNCHANGED <<op, cur, awaited, object, worker, net, grant>>

-----------------------------------------------------------------------------
(* Worker r.  It runs while the caller is at an await.  Once cancel() was  *)
(* called, its next step is CancelledError.                                *)

CallerAwaits ==
    /\ pc \notin {"begin", "close", "wait", "relsend"}
    /\ pc = "closing" => cur # None

Runs(r, there) == CallerAwaits /\ wpc[r] \in there /\ r \notin wcancel

(* asyncio.Lock is first come first served: a caller that waits goes first.*)
BargingIo == ioLock = None   \* mutant: a lock without a queue

MayLockIo == ioLock = None /\ pc # "iolock"

Goto(r, there) == wpc' = [wpc EXCEPT ![r] = there]

(* sleep(interval) is over, and somebody else has _io_lock.                *)
WaitForIo(r) ==
    /\ Runs(r, {"sleep"})
    /\ ~ MayLockIo
    /\ Goto(r, "tick")
    /\ UNCHANGED <<caller, object, locals, channel>>

NothingToRenew == closed \/ None \in {conn, token}

TickEnds(r) ==
    /\ Runs(r, {"sleep", "tick"})
    /\ MayLockIo
    /\ NothingToRenew
    /\ Goto(r, "dead")
    /\ UNCHANGED <<caller, object, locals, channel>>

TickSends(r) ==
    /\ Runs(r, {"sleep", "tick"})
    /\ MayLockIo
    /\ ~ NothingToRenew
    /\ ioLock' = r
    /\ rconn' = [rconn EXCEPT ![r] = conn]
    /\ rtok' = [rtok EXCEPT ![r] = token]
    /\ Send(conn, "renew")
    /\ Goto(r, "renewing")
    /\ UNCHANGED <<caller, closed, held, attempt, tasks, lost, sock, grant>>

(* Back in the loop, _update_lease stores unless no seconds remain.        *)
Renewed(r) ==
    /\ Runs(r, {"renewing"})
    /\ net[rconn[r]] = "renewed"
    /\ net' = [net EXCEPT ![rconn[r]] = "quiet"]
    /\ ioLock' = None
    /\ lease' \in {lease} \cup IF token # None /\ ~ closed THEN {rtok[r]} ELSE {}
    /\ Goto(r, "sleep")
    /\ UNCHANGED <<caller, closed, conn, token, attempt, tasks, locals, sock, grant>>

(* An error status or line, or command() raised and closed the transport:  *)
(* _handle_renew_failure logs the loss and gives up what is still its own. *)
KeptAfterLoss(r) == UNCHANGED held   \* mutant: the handler clears nothing

GiveUpHeld(r) ==
    IF conn = rconn[r]
    THEN conn' = None /\ token' = None /\ lease' = None
    ELSE UNCHANGED held

RenewFails(r) ==
    /\ Runs(r, {"renewing"})
    /\ \/ /\ net[rconn[r]] \in Responses
          /\ net' = [net EXCEPT ![rconn[r]] = "quiet"]
       \/ UNCHANGED net
    /\ IF closed
       THEN UNCHANGED <<held, lost>>
       ELSE lost' = lost \cup {r} /\ GiveUpHeld(r)
    /\ sock' = Shut(rconn[r])
    /\ ioLock' = None
    /\ Goto(r, "dead")
    /\ UNCHANGED <<caller, closed, attempt, tasks, rconn, rtok, grant>>

(* CancelledError at the sleep, at _io_lock, or in command(), which closes *)
(* the transport; `except Exception' lets it pass, _renew_loop returns.    *)
CaughtAsFailure(r) ==   \* mutant: _safe_renew_once catches BaseException
    IF wpc[r] = "renewing" THEN lost \cup {r} ELSE lost

LossOfCancelled(r) == lost

CancelledWorker(r) ==
    /\ CallerAwaits /\ Live(r) /\ r \in wcancel
    /\ sock' = IF wpc[r] = "renewing" THEN Shut(rconn[r]) ELSE sock
    /\ ioLock' = IF ioLock = r THEN None ELSE ioLock
    /\ lost' = LossOfCancelled(r)
    /\ Goto(r, "dead")
    /\ UNCHANGED <<caller, closed, held, attempt, tasks, rconn, rtok, net, grant>>

-----------------------------------------------------------------------------
(* The server (external): one request at a time per connection.            *)

(* Its answers to a request on a connection for which it has g, and what   *)
(* it has after.                                                           *)
Outcomes(g) ==
    {<<"acquire", "granted", "held">>, <<"acquire", "timeout", "gone">>,
     <<"enqueue", "granted", "held">>, <<"enqueue", "queued", "queued">>}
    \cup {<<"wait", "timeout", "gone">>}
    \cup {<<"wait", "granted", "held">> : x \in {g} \cap {"queued"}}
    \cup {<<"renew", "renewed", "held">> : x \in {g} \cap {"held"}}
    \cup {<<"release", "ok", "gone">> : x \in {g} \cap {"held"}}
    \cup {<<q, "error", g>> : q \in Requests}

SrvAnswers(c) ==
    /\ \E answer \in Outcomes(grant[c]) :
          /\ net[c] = answer[1]
          /\ net' = [net EXCEPT ![c] = answer[2]]
          /\ grant' = [grant EXCEPT ![c] = answer[3]]
    /\ UNCHANGED <<caller, object, worker, sock>>

SrvExpires(c) ==
    /\ grant[c] = "held"
    /\ grant' = [grant EXCEPT ![c] = "gone"]
    /\ UNCHANGED <<caller, object, worker, sock, net>>

SrvDisconnects(c) ==
    /\ sock[c] = "closed"
    /\ grant[c] # "gone"
    /\ grant' = [grant EXCEPT ![c] = "gone"]
    /\ net' = [net EXCEPT ![c] = "quiet"]
    /\ UNCHANGED <<caller, object, worker, sock>>

-----------------------------------------------------------------------------
CallerStep ==
    \/ BeginReset \/ ResetStopped \/ CloseUnlocked \/ CloseStopped \/ Closed \/ Rearm
    \/ OpenFails \/ OpenSucceeds \/ WaitReturns \/ WaitOnConn
    \/ CommandRefused \/ CommandBroken \/ CommandQueued \/ CommandGranted
    \/ ReleaseLocks \/ ReleaseStopped \/ NothingToRelease \/ SendRelease
    \/ ReleaseReturns \/ Collect

Cancel == CancelEnds \/ CancelOpen \/ CancelCommand \/ CancelRelease

WorkerStep(r) ==
    \/ WaitForIo(r) \/ TickEnds(r) \/ TickSends(r)
    \/ Renewed(r) \/ RenewFails(r) \/ CancelledWorker(r)

ServerStep(c) == SrvAnswers(c) \/ SrvExpires(c) \/ SrvDisconnects(c)

(* The program is over; so that a deadlock anywhere else is an error.      *)
Over == pc = "gone" /\ UNCHANGED vars

Next ==
    \/ \E o \in {"acquire", "enqueue", "wait", "release", "close"} : Call(o)
    \/ CallerStep \/ Cancel \/ Drop \/ Over
    \/ \E a \in Attempts : WorkerStep(a) \/ ServerStep(a)

Spec == Init /\ [][Next]_vars

(* The event loop runs every task that is ready, each of the package's     *)
(* waits for the network has a timeout, and the server notices a closed    *)
(* socket.  Nobody has to cancel, to answer or to call again.              *)
Fairness ==
    /\ WF_vars(CallerStep)
    /\ \A a \in Attempts : WF_vars(WorkerStep(a)) /\ WF_vars(SrvDisconnects(a))

FairSpec == Spec /\ Fairness

-----------------------------------------------------------------------------
Handle == Attempts \cup {None}

(* Types, and that no command is ever sent on a connection that has one    *)
(* under way: AsyncConn._mu is free whenever the lock object needs it.     *)
TypeOK ==
    /\ pc \in Awaits \cup {"idle", "begin", "close", "wait", "relsend", "dropped", "gone"}
    /\ op \in {"none", "acquire", "enqueue", "wait", "release", "close", "giveup"}
    /\ {cur, awaited, conn, token, lease, renewTask} \subseteq Handle
    /\ closed \in BOOLEAN /\ attempt \in Handle
    /\ ioLock \in Handle \cup {Caller}
    /\ wpc \in [Attempts -> {"none", "sleep", "tick", "renewing", "dead"}]
    /\ wcancel \subseteq Attempts /\ lost \subseteq Attempts
    /\ rconn \in [Attempts -> Handle] /\ rtok \in [Attempts -> Handle]
    /\ sock \in [Attempts -> {"none", "open", "closed"}]
    /\ net \in [Attempts -> {"quiet"} \cup Requests \cup Responses]
    /\ grant \in [Attempts -> {"none", "queued", "held", "gone"}]
    /\ \A r \in Attempts : wpc[r] = "renewing" => rconn[r] # None /\ rtok[r] # None
    /\ pc \in {"await", "relwait"} =>
          \A r \in Attempts : wpc[r] = "renewing" => rconn[r] # cur

-----------------------------------------------------------------------------
(* Safety.                                                                 *)

(* Between calls a held lock is being renewed: the token is set only if    *)
(* the renew task of that very grant runs and nobody has cancelled it.     *)
(* ("Once a lock is held, an asyncio.Task sends renew requests".)          *)
HeldIsRenewed ==
    pc = "idle" /\ token # None =>
        renewTask = token /\ Live(token) /\ token \notin wcancel

(* Each worker renews the grant it was started for, on its own connection, *)
(* and no two that have not been cancelled are alive (_cancel_renew).      *)
WorkerOwnGrant ==
    \A r \in Attempts : Live(r) /\ r \notin wcancel =>
        /\ r = renewTask
        /\ wpc[r] = "renewing" => rconn[r] = r /\ rtok[r] = r

(* release() and aclose(), and an acquire() that failed, leave nothing     *)
(* behind however they ended, even cancelled once or twice: no handle, no  *)
(* task that was not told to end, no open transport (_close_unlocked       *)
(* detaches and closes before it awaits anything).                         *)
ClosedIsClean ==
    pc \in {"idle", "dropped", "gone"} /\ closed =>
        /\ conn = None /\ token = None /\ lease = None /\ renewTask = None
        /\ \A r \in Attempts : Live(r) => r \in wcancel
        /\ \A c \in Attempts : sock[c] # "open"

(* Between calls the only open transport is the object's current one, and  *)
(* none is left open when the object is collected.                         *)
NoLeakedConn ==
    \A c \in Attempts : sock[c] = "open" =>
        /\ pc = "idle" => c = conn
        /\ pc # "gone"

(* Between calls, on a transport that is open, a grant the server still    *)
(* holds is one the object knows of.                                       *)
NoForgottenGrant ==
    pc = "idle" /\ conn # None =>
        (sock[conn] = "open" /\ grant[conn] = "held" => token = conn)

-----------------------------------------------------------------------------
(* What no step may do.                                                    *)

(* A lock is logged as lost only if it was: the object still had it, and   *)
(* nobody was stopping its worker (`except Exception' lets a cancellation  *)
(* pass).                                                                  *)
LossIsGenuine ==
    [][ \A r \in lost' \ lost :
            token = r /\ conn = r /\ r \notin wcancel /\ ~ closed ]_vars

(* The object keeps the promise of LockHandle: it has a grant only from    *)
(* the attempt it says, and none is left by a call that gave it up.        *)
Promise ==
    INSTANCE LockHandle WITH
        busy <- op, number <- attempt,
        status <- IF token # None THEN "held"
                  ELSE IF conn # None THEN "connected" ELSE "free",
        fresh <- op \in {"acquire", "enqueue"} /\ pc \in {"open", "await"}

KeepsPromise == Promise!HSpec

-----------------------------------------------------------------------------
(* Liveness.                                                               *)

(* Every call returns: release() holds _io_lock while it waits for a       *)
(* worker that may itself be waiting for that lock, and the worker ends    *)
(* because it was cancelled (_cancel_renew_locked).                        *)
CallReturns == pc \notin {"idle", "dropped"} ~> pc \in {"idle", "gone"}

(* What an earlier attempt got from the server does not outlive it, even   *)
(* if its calls were cancelled with the answer on the way.                 *)
ReusedGrantIsFreed ==
    \A c \in Attempts :
        c < attempt /\ grant[c] \in {"queued", "held"} ~> grant[c] = "gone"
=============================================================================
