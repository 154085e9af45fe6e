------------------------------ MODULE SyncLock ------------------------------
(***************************************************************************)
(* One sync DistributedLock (or DistributedSemaphore: the same _SyncBase)  *)
(* object of src/src/dflockd_client/_sync.py, the renew threads it starts, *)
(* its TCP connections, and the part of the dflockd server that answers    *)
(* them.                                                                   *)
(*                                                                         *)
(* The public calls run one at a time, because each holds _state_lock for  *)
(* its whole length: they are one sequential process, the CALLER.  Every   *)
(* renew thread is a WORKER, and runs concurrently with the caller and     *)
(* with workers of earlier attempts that outlived a timed-out join.        *)
(*                                                                         *)
(* acquire() and enqueue() begin an ATTEMPT: a fresh stop event, one dial, *)
(* at most one grant, at most one worker.  The attempt's number therefore  *)
(* names its connection, its grant token, its worker and its stop event.   *)
(* `lease' holds the number of the grant whose TTL it describes.  Seconds  *)
(* are left out: a timeout is a choice to stop waiting.                    *)
(***************************************************************************)
EXTENDS Integers

CONSTANTS
    MaxAttempts,     \* bound: how many acquire()/enqueue() calls a run makes
    JoinMayTimeOut   \* may Thread.join(timeout=5) return before the thread ends?

ASSUME MaxAttemptsAssumption == MaxAttempts \in Nat \ {0}
ASSUME JoinAssumption == JoinMayTimeOut \in BOOLEAN

None == 0
Caller == -1
Attempts == 1 .. MaxAttempts
StopEvents == 0 .. MaxAttempts   \* 0: the event of the dataclass field default

VARIABLES
    pc,          \* where the caller is
    op,          \* the public call it is in
    cur,         \* its local `conn'
    closed,      \* self._closed
    conn,        \* self._conn
    token,       \* self.token
    lease,       \* self.lease
    renewThread, \* self._renew_thread
    stopEvent,   \* self._stop_event
    stopSet,     \* the stop events that are set
    attempt,     \* the current attempt
    ioLock,      \* the holder of self._io_lock
    wpc,         \* where each worker is
    wstop,       \* its stop_event argument
    rconn,       \* its local `conn' in _safe_renew_once
    rtok,        \* its local `token'
    sock,        \* the client's end of each connection
    net,         \* the one request or response in flight on each connection
    grant        \* what the server has for each connection

caller == <<pc, op, cur>>
arming == <<closed, stopEvent, stopSet, attempt>>
held == <<conn, token, lease>>
object == <<arming, held, renewThread, ioLock>>
locals == <<rconn, rtok>>
worker == <<wpc, wstop, locals>>
channel == <<sock, net, grant>>
vars == <<caller, object, worker, channel>>

CallerPcs == {"idle", "stop", "join", "rel", "relwait", "close", "shut", "lockclose",
              "join2", "rearm", "open", "send", "await", "start", "launch", "wait",
              "dropped", "gone"}
Ops == {"none", "acquire", "enqueue", "wait", "release", "close", "giveup"}
WorkerPcs == {"none", "sleep", "tick", "send", "renewing", "failed", "log", "lost",
              "quiet", "unconn", "untoken", "unlease", "ticked", "store", "dead"}
Requests == {"acquire", "enqueue", "wait", "renew", "release"}
Responses == {"granted", "queued", "timeout", "renewed", "ok", "error"}
Socks == {"none", "open", "shut", "closed"}
Grants == {"none", "queued", "held", "gone"}

Init ==
    /\ pc = "idle" /\ op = "none" /\ cur = None
    /\ closed = FALSE /\ stopEvent = 0 /\ stopSet = {} /\ attempt = 0
    /\ conn = None /\ token = None /\ lease = None
    /\ renewThread = None /\ ioLock = None
    /\ wpc = [r \in Attempts |-> "none"] /\ wstop = [r \in Attempts |-> 0]
    /\ rconn = [r \in Attempts |-> None] /\ rtok = [r \in Attempts |-> None]
    /\ sock = [c \in Attempts |-> "none"]
    /\ net = [c \in Attempts |-> "quiet"]
    /\ grant = [c \in Attempts |-> "none"]

Live(r) == wpc[r] \notin {"none", "dead"}

(* self._renew_thread is a Thread whose start() has not returned: none runs.*)
NeverStarted == renewThread # None /\ wpc[renewThread] = "none"

StopIgnored(r) == FALSE   \* mutant: the worker never looks at its stop event

Stopped(r) == wstop[r] \in stopSet

(* SyncConn._mu of connection c is free: nobody is inside command() on it. *)
MuFree(c) ==
    /\ ~ (pc \in {"await", "relwait"} /\ cur = c)
    /\ \A r \in Attempts : ~ (wpc[r] = "renewing" /\ rconn[r] = c)

Return == pc' = "idle" /\ op' = "none" /\ cur' = None

-----------------------------------------------------------------------------
(* The caller: public calls.  Each runs to its return before the next.     *)

Call(o) ==
    /\ pc = "idle"
    /\ o \in {"acquire", "enqueue"} => attempt < MaxAttempts
    /\ op' = o
    /\ pc' = IF o \in {"wait", "close"} THEN o ELSE "stop"
    /\ UNCHANGED <<cur, object, worker, channel>>

(* _stop_renew: nothing without a thread; else set the event, then join.   *)
AfterStop == IF op = "release" THEN "rel" ELSE "close"

TakenStopRenew ==   \* mutant: takes the thread out first, as the async twin does
    /\ pc = "stop"
    /\ renewThread' = None
    /\ pc' = IF renewThread = None THEN AfterStop ELSE "join"
    /\ UNCHANGED <<op, cur, arming, held, ioLock, worker, channel>>

StopRenew ==
    /\ pc = "stop"
    /\ IF renewThread = None
       THEN pc' = AfterStop /\ UNCHANGED stopSet
       ELSE pc' = "join" /\ stopSet' = stopSet \cup {stopEvent}
    /\ UNCHANGED <<op, cur, closed, stopEvent, attempt, held, renewThread, ioLock,
                   worker, channel>>

SkippedJoinReturns == TRUE   \* mutant: the thread is dropped without join()

JoinReturns ==
    \/ renewThread = None
    \/ renewThread # None /\ ~ NeverStarted /\ (~ Live(renewThread) \/ JoinMayTimeOut)

JoinStopped ==
    /\ pc = "join"
    /\ JoinReturns
    /\ renewThread' = None
    /\ pc' = AfterStop
    /\ UNCHANGED <<op, cur, arming, held, ioLock, worker, channel>>

(* join() of a thread that was never started raises, out of the call:      *)
(* neither _renew_thread nor anything after it is touched.                 *)
JoinRaises ==
    /\ pc \in {"join", "join2"}
    /\ NeverStarted
    /\ Return
    /\ UNCHANGED <<object, worker, channel>>

(* _release_unlocked: `with self._io_lock' around _send_release_quietly.   *)
ReleaseIgnoresIoLock == TRUE   \* mutant: `with self._io_lock' dropped

ReleaseMayLock == ioLock = None

NothingToRelease ==
    /\ pc = "rel"
    /\ ReleaseMayLock
    /\ None \in {conn, token}
    /\ pc' = "close"
    /\ UNCHANGED <<op, cur, object, worker, channel>>

SendRelease ==
    /\ pc = "rel"
    /\ ReleaseMayLock
    /\ None \notin {conn, token}
    /\ ioLock' = Caller
    /\ cur' = conn
    /\ net' = [net EXCEPT ![conn] = "release"]
    /\ pc' = "relwait"
    /\ UNCHANGED <<op, arming, held, renewThread, worker, sock, grant>>

(* _safe_release swallows every Exception: the answer, or a read that      *)
(* failed (which closes the socket in command()), both lead to close.      *)
ReleaseReturns ==
    /\ pc = "relwait"
    /\ \/ /\ net[cur] \in {"ok", "error"}
          /\ net' = [net EXCEPT ![cur] = "quiet"]
          /\ UNCHANGED sock
       \/ /\ sock' = [sock EXCEPT ![cur] = "closed"]
          /\ UNCHANGED net
    /\ ioLock' = None
    /\ cur' = None
    /\ pc' = "close"
    /\ UNCHANGED <<op, arming, held, renewThread, worker, grant>>

-----------------------------------------------------------------------------
(* The caller: _close_unlocked and _reset_for_new_attempt.                 *)

AfterClose ==
    IF op \in {"acquire", "enqueue"}
    THEN pc' = "rearm" /\ UNCHANGED <<op, cur>>
    ELSE Return

CloseAgain ==
    /\ pc = "close"
    /\ closed
    /\ AfterClose
    /\ UNCHANGED <<object, worker, channel>>

BeginClose ==
    /\ pc = "close"
    /\ ~ closed
    /\ closed' = TRUE
    /\ stopSet' = stopSet \cup {stopEvent}
    /\ pc' = "shut"
    /\ UNCHANGED <<op, cur, stopEvent, attempt, held, renewThread, ioLock, worker, channel>>

(* _shutdown_and_close_conn reads _conn once, before it takes the lock.    *)
ShutNothing ==
    /\ pc = "shut"
    /\ conn = None
    /\ pc' = "join2"
    /\ UNCHANGED <<op, cur, object, worker, channel>>

ShutConn ==
    /\ pc = "shut"
    /\ conn # None
    /\ cur' = conn
    /\ sock' = [sock EXCEPT ![conn] = IF @ = "open" THEN "shut" ELSE @]
    /\ pc' = "lockclose"
    /\ UNCHANGED <<op, object, worker, net, grant>>

CloseIgnoresIoLock == TRUE   \* mutant: conn.close() outside `with self._io_lock'

CloseMayLock == ioLock = None

CloseConn ==
    /\ pc = "lockclose"
    /\ CloseMayLock
    /\ sock' = [sock EXCEPT ![cur] = "closed"]
    /\ conn' = None
    /\ cur' = None
    /\ pc' = "join2"
    /\ UNCHANGED <<op, arming, token, lease, renewThread, ioLock, worker, net, grant>>

KeptLease == lease   \* mutant: _clear_held_state forgets `self.lease = 0'

ClearedLease == None

(* _join_renew_thread, then _clear_held_state.                             *)
JoinAndClear ==
    /\ pc = "join2"
    /\ JoinReturns
    /\ renewThread' = None
    /\ token' = None
    /\ lease' = ClearedLease
    /\ AfterClose
    /\ UNCHANGED <<arming, conn, ioLock, worker, channel>>

(* A fresh Event per attempt: a worker still holding the old one sees it   *)
(* set for ever.                                                           *)
ClearedStopEvent ==   \* mutant: self._stop_event.clear() re-used the old event
    /\ stopSet' = stopSet \ {stopEvent}
    /\ UNCHANGED stopEvent

FreshStopEvent ==
    /\ stopEvent' = attempt + 1
    /\ UNCHANGED stopSet

NotRearmed == closed   \* mutant: _reset_for_new_attempt forgets `_closed = False'

Rearmed == FALSE

Rearm ==
    /\ pc = "rearm"
    /\ attempt' = attempt + 1
    /\ closed' = Rearmed
    /\ FreshStopEvent
    /\ pc' = "open"
    /\ UNCHANGED <<op, cur, held, renewThread, ioLock, worker, channel>>

-----------------------------------------------------------------------------
(* The caller: _open_and_authenticate and the command that asks for the    *)
(* grant (_invoke_acquire, _invoke_enqueue, _invoke_wait).                 *)

(* The dial fails, or the auth command does: _maybe_authenticate then      *)
(* closes the socket; either way self._conn stays None and the call raises.*)
OpenFails ==
    /\ pc = "open"
    /\ \E s \in {"none", "closed"} : sock' = [sock EXCEPT ![attempt] = s]
    /\ Return
    /\ UNCHANGED <<object, worker, net, grant>>

OpenSucceeds ==
    /\ pc = "open"
    /\ sock' = [sock EXCEPT ![attempt] = "open"]
    /\ conn' = attempt
    /\ cur' = attempt
    /\ pc' = "send"
    /\ UNCHANGED <<op, arming, token, lease, renewThread, ioLock, worker, net, grant>>

(* wait(): already held; or never enqueued (raises); or send `w'.          *)
WaitReturns ==
    /\ pc = "wait"
    /\ token = None => conn = None
    /\ Return
    /\ UNCHANGED <<object, worker, channel>>

WaitOnConn ==
    /\ pc = "wait"
    /\ token = None /\ conn # None
    /\ cur' = conn
    /\ pc' = "send"
    /\ UNCHANGED <<op, object, worker, channel>>

SendRequest ==
    /\ pc = "send"
    /\ MuFree(cur)
    /\ sock[cur] = "open"
    /\ net' = [net EXCEPT ![cur] = op]
    /\ pc' = "await"
    /\ UNCHANGED <<op, cur, object, worker, sock, grant>>

GiveUp == op' = "giveup" /\ pc' = "close" /\ cur' = None

(* sendall, or the read within its timeout, raised: command() has closed   *)
(* the socket, and the except clause runs _close_unlocked.                 *)
CommandBroken ==
    /\ \/ pc = "send" /\ MuFree(cur)
       \/ pc = "await"
    /\ sock' = [sock EXCEPT ![cur] = "closed"]
    /\ GiveUp
    /\ UNCHANGED <<object, worker, net, grant>>

Answered(responses) ==
    /\ pc = "await"
    /\ net[cur] \in responses
    /\ net' = [net EXCEPT ![cur] = "quiet"]
    /\ UNCHANGED <<arming, conn, renewThread, ioLock, worker, sock, grant>>

(* `timeout', an error status, or a line the decoder refuses.              *)
CommandRefused == Answered(Responses) /\ GiveUp /\ UNCHANGED <<token, lease>>

CommandQueued == Answered({"queued"}) /\ Return /\ UNCHANGED <<token, lease>>

ForgottenToken ==   \* mutant: the fast path of enqueue() drops its token
    IF op = "enqueue" THEN token ELSE cur

GrantedToken == cur

CommandGranted ==
    /\ Answered({"granted"})
    /\ token' = GrantedToken
    /\ pc' = "start"
    /\ UNCHANGED <<op, cur, lease>>

(* _start_renew: the thread is made and stored, then started.  start()     *)
(* raises when the system has no thread left, and no except clause is      *)
(* around it: the call ends with everything it has.                        *)
MakeThread ==
    /\ pc = "start"
    /\ lease' = cur
    /\ renewThread' = attempt
    /\ pc' = "launch"
    /\ UNCHANGED <<op, cur, arming, conn, token, ioLock, worker, channel>>

StartRenew ==
    /\ pc = "launch"
    /\ wpc' = [wpc EXCEPT ![attempt] = "sleep"]
    /\ wstop' = [wstop EXCEPT ![attempt] = stopEvent]
    /\ Return
    /\ UNCHANGED <<object, locals, channel>>

StartFails ==
    /\ pc = "launch"
    /\ Return
    /\ UNCHANGED <<object, worker, channel>>

-----------------------------------------------------------------------------
(* The caller drops its last reference.  A live worker's bound method is a *)
(* reference too; without one __del__ runs and closes the socket.          *)

Drop ==
    /\ pc = "idle"
    /\ pc' = "dropped"
    /\ UNCHANGED <<op, cur, object, worker, channel>>

Collect ==
    /\ pc = "dropped"
    /\ \A r \in Attempts : ~ Live(r)
    /\ sock' = [c \in Attempts |-> IF c = conn THEN "closed" ELSE sock[c]]
    /\ pc' = "gone"
    /\ UNCHANGED <<op, cur, object, worker, net, grant>>

-----------------------------------------------------------------------------
(* Worker r: _renew_loop, _renew_tick, _safe_renew_once, the failure path. *)

Goto(r, there) == wpc' = [wpc EXCEPT ![r] = there] /\ UNCHANGED wstop

ForgetLocals(r) ==
    /\ rconn' = [rconn EXCEPT ![r] = None]
    /\ rtok' = [rtok EXCEPT ![r] = None]

(* Event.wait(interval) times out, or says that the event is set.          *)
Wake(r) ==
    /\ wpc[r] = "sleep"
    /\ Goto(r, IF Stopped(r) THEN "dead" ELSE "tick")
    /\ UNCHANGED <<caller, object, locals, channel>>

(* Under the io lock: check _closed and the event, then load the handles.  *)
TickStops(r) == closed \/ Stopped(r)

NoneUnchecked == FALSE   \* mutant: _safe_renew_once without its None check

NothingToRenew == None \in {conn, token}

TickEnds(r) ==
    /\ wpc[r] = "tick"
    /\ ioLock = None
    /\ TickStops(r) \/ NothingToRenew
    /\ Goto(r, "dead")
    /\ UNCHANGED <<caller, object, locals, channel>>

TickLoads(r) ==
    /\ wpc[r] = "tick"
    /\ ioLock = None
    /\ ~ TickStops(r) /\ ~ NothingToRenew
    /\ ioLock' = r
    /\ rconn' = [rconn EXCEPT ![r] = conn]
    /\ rtok' = [rtok EXCEPT ![r] = token]
    /\ Goto(r, "send")
    /\ UNCHANGED <<caller, arming, held, renewThread, channel>>

SendRenew(r) ==
    /\ wpc[r] = "send"
    /\ MuFree(rconn[r])
    /\ sock[rconn[r]] = "open"
    /\ net' = [net EXCEPT ![rconn[r]] = "renew"]
    /\ Goto(r, "renewing")
    /\ UNCHANGED <<caller, object, locals, sock, grant>>

Renewed(r) ==
    /\ wpc[r] = "renewing"
    /\ net[rconn[r]] = "renewed"
    /\ net' = [net EXCEPT ![rconn[r]] = "quiet"]
    /\ ioLock' = None
    /\ Goto(r, "ticked")
    /\ UNCHANGED <<caller, arming, held, renewThread, locals, sock, grant>>

(* An error status, or a remaining-seconds field the decoder refuses.      *)
RenewRefused(r) ==
    /\ wpc[r] = "renewing"
    /\ net[rconn[r]] \in Responses
    /\ net' = [net EXCEPT ![rconn[r]] = "quiet"]
    /\ Goto(r, "failed")
    /\ UNCHANGED <<caller, object, locals, sock, grant>>

(* The send fails, or the read hits EOF, a reset or its 5 s timeout.       *)
RenewBroken(r) ==
    /\ \/ wpc[r] = "send" /\ MuFree(rconn[r])
       \/ wpc[r] = "renewing"
    /\ sock' = [sock EXCEPT ![rconn[r]] = "closed"]
    /\ Goto(r, "failed")
    /\ UNCHANGED <<caller, object, locals, net, grant>>

(* _log_renew_failure: its early return, "quiet", or the log.error.  The   *)
(* check and the log are two steps: close() does not need _io_lock to set  *)
(* _closed in between.                                                     *)
AlwaysLogged(r) == FALSE   \* mutant: the early return of _log_renew_failure dropped

LossIsOwnDoing(r) == closed \/ Stopped(r)

CheckFailure(r) ==
    /\ wpc[r] = "failed"
    /\ Goto(r, IF LossIsOwnDoing(r) THEN "quiet" ELSE "log")
    /\ UNCHANGED <<caller, object, locals, channel>>

LogFailure(r) ==
    /\ wpc[r] = "log"
    /\ Goto(r, "lost")
    /\ UNCHANGED <<caller, object, locals, channel>>

(* `if self._conn is conn': give up conn, token and lease, close conn.     *)
CompareConn(r) ==
    /\ wpc[r] \in {"lost", "quiet"}
    /\ Goto(r, IF conn = rconn[r] THEN "unconn" ELSE "dead")
    /\ ioLock' = IF conn = rconn[r] THEN ioLock ELSE None
    /\ UNCHANGED <<caller, arming, held, renewThread, locals, channel>>

LoseConn(r) ==
    /\ wpc[r] = "unconn"
    /\ conn' = None
    /\ Goto(r, "untoken")
    /\ UNCHANGED <<caller, arming, token, lease, renewThread, ioLock, locals, channel>>

KeptToken == token   \* mutant: the failure handler leaves self.token set

LostToken == None

LoseToken(r) ==
    /\ wpc[r] = "untoken"
    /\ token' = LostToken
    /\ Goto(r, "unlease")
    /\ UNCHANGED <<caller, arming, conn, lease, renewThread, ioLock, locals, channel>>

LeakedSock == "open"   \* mutant: the failure handler leaves the socket open

LostSock == "closed"

LoseLease(r) ==
    /\ wpc[r] = "unlease"
    /\ lease' = None
    /\ sock' = [sock EXCEPT ![rconn[r]] = IF @ = "closed" THEN @ ELSE LostSock]
    /\ ioLock' = None
    /\ Goto(r, "dead")
    /\ ForgetLocals(r)
    /\ UNCHANGED <<caller, arming, conn, token, renewThread, net, grant>>

(* Back in the loop, without the lock: stop; or _update_lease finds zero   *)
(* seconds remaining, or no token, or the object closed; or it will store. *)
LeaseNotUpdated(r) ==
    /\ wpc[r] = "ticked"
    /\ Goto(r, IF Stopped(r) THEN "dead" ELSE "sleep")
    /\ ForgetLocals(r)
    /\ UNCHANGED <<caller, object, channel>>

MayUpdate(r) == ~ Stopped(r) /\ token # None /\ ~ closed

UpdateChecked(r) ==
    /\ wpc[r] = "ticked"
    /\ MayUpdate(r)
    /\ Goto(r, "store")
    /\ UNCHANGED <<caller, object, locals, channel>>

UpdateLease(r) ==
    /\ wpc[r] = "store"
    /\ lease' = rtok[r]
    /\ Goto(r, "sleep")
    /\ ForgetLocals(r)
    /\ UNCHANGED <<caller, arming, conn, token, renewThread, ioLock, channel>>

-----------------------------------------------------------------------------
(* The server (external): one request at a time per connection.  It may    *)
(* still be working on a request whose client has gone.                    *)

Respond(c, requests, response, state) ==
    /\ net[c] \in requests
    /\ net' = [net EXCEPT ![c] = response]
    /\ grant' = [grant EXCEPT ![c] = state]
    /\ UNCHANGED <<caller, object, worker, sock>>

SrvGrant(c) ==
    \/ Respond(c, {"acquire", "enqueue"}, "granted", "held")
    \/ grant[c] = "queued" /\ Respond(c, {"wait"}, "granted", "held")

SrvQueue(c) == Respond(c, {"enqueue"}, "queued", "queued")

SrvTimeout(c) == Respond(c, {"acquire", "wait"}, "timeout", "gone")

(* Any command can be refused; a grant that is held stays held.            *)
SrvError(c) == Respond(c, Requests, "error", grant[c])

SrvRenew(c) == grant[c] = "held" /\ Respond(c, {"renew"}, "renewed", "held")

SrvRelease(c) == grant[c] = "held" /\ Respond(c, {"release"}, "ok", "gone")

SrvExpire(c) ==
    /\ grant[c] = "held"
    /\ grant' = [grant EXCEPT ![c] = "gone"]
    /\ UNCHANGED <<caller, object, worker, sock, net>>

SrvDisconnect(c) ==
    /\ sock[c] \in {"shut", "closed"}
    /\ grant[c] # "gone"
    /\ grant' = [grant EXCEPT ![c] = "gone"]
    /\ net' = [net EXCEPT ![c] = "quiet"]
    /\ UNCHANGED <<caller, object, worker, sock>>

-----------------------------------------------------------------------------
CallerStep ==
    \/ StopRenew \/ JoinStopped \/ JoinRaises
    \/ NothingToRelease \/ SendRelease \/ ReleaseReturns
    \/ CloseAgain \/ BeginClose \/ ShutNothing \/ ShutConn \/ CloseConn
    \/ JoinAndClear \/ Rearm \/ OpenFails \/ OpenSucceeds
    \/ WaitReturns \/ WaitOnConn
    \/ SendRequest \/ CommandBroken \/ CommandRefused \/ CommandQueued
    \/ CommandGranted \/ MakeThread \/ StartRenew \/ StartFails \/ Collect

WorkerStep(r) ==
    \/ Wake(r) \/ TickEnds(r) \/ TickLoads(r)
    \/ SendRenew(r) \/ Renewed(r) \/ RenewRefused(r) \/ RenewBroken(r)
    \/ CheckFailure(r) \/ LogFailure(r) \/ CompareConn(r) \/ LoseConn(r)
    \/ LoseToken(r) \/ LoseLease(r)
    \/ LeaseNotUpdated(r) \/ UpdateChecked(r) \/ UpdateLease(r)

ServerStep(c) ==
    \/ SrvGrant(c) \/ SrvQueue(c) \/ SrvTimeout(c) \/ SrvError(c)
    \/ SrvRenew(c) \/ SrvRelease(c) \/ SrvExpire(c) \/ SrvDisconnect(c)

(* The program is over; so that a deadlock anywhere else is an error.      *)
Over == pc = "gone" /\ UNCHANGED vars

Next ==
    \/ \E o \in Ops \ {"none", "giveup"} : Call(o)
    \/ Drop
    \/ CallerStep
    \/ \E r \in Attempts : WorkerStep(r)
    \/ \E c \in Attempts : ServerStep(c)
    \/ Over

Spec == Init /\ [][Next]_vars

(* A call that has begun keeps running (every wait in it has a timeout);   *)
(* a started thread is scheduled; the server notices a closed socket.      *)
Fairness ==
    /\ WF_vars(CallerStep)
    /\ \A r \in Attempts : WF_vars(WorkerStep(r))
    /\ \A c \in Attempts : WF_vars(SrvDisconnect(c))

FairSpec == Spec /\ Fairness

-----------------------------------------------------------------------------
(* Types, with what each local variable means while it is live.            *)

Handle == Attempts \cup {None}

Types ==
    /\ pc \in CallerPcs /\ op \in Ops /\ cur \in Handle
    /\ closed \in BOOLEAN
    /\ conn \in Handle /\ token \in Handle /\ lease \in Handle
    /\ renewThread \in Handle
    /\ stopEvent \in StopEvents /\ stopSet \in SUBSET StopEvents
    /\ attempt \in 0 .. MaxAttempts
    /\ ioLock \in Attempts \cup {None, Caller}
    /\ wpc \in [Attempts -> WorkerPcs]
    /\ wstop \in [Attempts -> StopEvents]
    /\ rconn \in [Attempts -> Handle] /\ rtok \in [Attempts -> Handle]
    /\ sock \in [Attempts -> Socks]
    /\ net \in [Attempts -> {"quiet"} \cup Requests \cup Responses]
    /\ grant \in [Attempts -> Grants]

(* Nobody sends on a missing connection or renews a missing token: what    *)
(* _require_conn and the None check of _safe_renew_once are there for.     *)
InCommand == {"send", "await", "relwait"}
InRenew == {"send", "renewing"}

TypeOK ==
    /\ Types
    /\ pc \in InCommand => cur # None
    /\ \A r \in Attempts : wpc[r] \in InRenew => rconn[r] # None /\ rtok[r] # None

-----------------------------------------------------------------------------
(* Safety.                                                                 *)

(* Between calls a held lock is being renewed: self.token is set only if   *)
(* self._renew_thread is the worker of that very grant, alive, and with    *)
(* its stop event clear (_start_renew, _handle_renew_failure).  The one    *)
(* exception is an object whose Thread.start() has raised: it names the    *)
(* thread that never ran.                                                  *)
HeldIsRenewed ==
    pc = "idle" /\ token # None =>
        /\ renewThread = token
        /\ NeverStarted \/ (Live(token) /\ ~ Stopped(token))

(* A worker renews only the grant it was started for, on the connection of *)
(* its own attempt, even if its join timed out and the object was re-used  *)
(* (_reset_for_new_attempt arms a new stop event).                         *)
WorkerOwnGrant ==
    \A r \in Attempts : wpc[r] \in InRenew => rconn[r] = r /\ rtok[r] = r

(* Between calls every socket the object ever opened is closed, except the *)
(* current one and one that a worker is just giving up: no attempt leaks   *)
(* its connection, whatever failed in it.                                  *)
NoLeakedConn ==
    pc = "idle" =>
        \A c \in Attempts :
            sock[c] \in {"open", "shut"} =>
                \/ c = conn
                \/ \E r \in Attempts :
                      rconn[r] = c /\ wpc[r] \in {"untoken", "unlease"}

(* Between calls, on a connection that is up, a grant the server still     *)
(* holds for it is one the object knows of: no token is lost on the way    *)
(* (enqueue's fast path, wait, a worker of an earlier attempt).            *)
NoForgottenGrant ==
    \A c \in Attempts :
        pc = "idle" /\ conn = c /\ sock[c] = "open" /\ grant[c] = "held" =>
            \/ token = c
            \/ wpc[c] = "unlease"

(* Between calls self.lease describes the grant self.token names, and no   *)
(* lease is shown without a token.                                         *)
LeaseBelongsToToken ==
    pc = "idle" =>
        \/ lease = token
        \/ \E r \in Attempts : wpc[r] \in {"untoken", "unlease"}

-----------------------------------------------------------------------------
(* What no step may do.                                                    *)

(* Once the release command has been sent, no renew is sent any more: it   *)
(* would be refused, and be reported as a lost lock (_release_unlocked     *)
(* stops the worker and then sends under _io_lock).                        *)
ReleaseIsLast ==
    [][ \A c \in Attempts :
            net[c] # "renew" /\ net'[c] = "renew" =>
                ~ (op = "release" /\ pc \notin {"stop", "join", "rel"}) ]_vars

(* A failed renewal is reported exactly if it is a loss.  One that fails   *)
(* after close() has shut its connection down, to wake its worker, is      *)
(* passed over in silence: close() sets _closed first.  One that fails     *)
(* while no call is giving the lock up is logged, whatever calls came and  *)
(* went before (_log_renew_failure, _begin_close, _stop_renew).            *)
ShutDown(r) == pc = "lockclose" /\ cur = rconn[r]

LossIsReported ==
    [][ \A r \in Attempts :
            wpc[r] = "failed" /\ wpc'[r] # "failed" =>
                /\ ShutDown(r) => wpc'[r] = "quiet"
                /\ pc \in {"idle", "wait", "dropped"} => wpc'[r] = "log" ]_vars

(* A worker of an earlier attempt never takes the connection away from the *)
(* re-used object (_handle_renew_failure compares and clears it under      *)
(* _io_lock, which close() needs before it forgets the connection).        *)
StaleWorkerKeepsConn ==
    [][ \A r \in Attempts :
            r < attempt /\ wpc'[r] # wpc[r] /\ conn > r => conn' = conn ]_vars

(* The object keeps the promise of LockHandle: it has a grant only from    *)
(* the attempt it says, and none is left by a call that gave it up.  It    *)
(* needs a join that returned.                                             *)
Promise ==
    INSTANCE LockHandle WITH
        busy <- op, number <- attempt,
        status <- IF token # None THEN "held"
                  ELSE IF conn # None THEN "connected" ELSE "free",
        fresh <- op \in {"acquire", "enqueue"}
                 /\ pc \in {"open", "send", "await", "start", "launch"}

KeepsPromise == Promise!HSpec

(* "stale renewal workers cannot update a reused lock or semaphore after   *)
(* shutdown": what a worker of an earlier attempt does leaves the handles  *)
(* of the re-used object alone.  It needs a join that returned.            *)
StaleWorkerHarmless ==
    [][ \A r \in Attempts :
            r < attempt /\ wpc'[r] # wpc[r] => UNCHANGED <<conn, token, lease>> ]_vars

-----------------------------------------------------------------------------
(* Liveness.                                                               *)

(* Every call returns: no wait for a join, for _io_lock or for an answer   *)
(* blocks acquire, enqueue, wait, release or close for ever.               *)
CallReturns == pc \notin {"idle", "dropped"} ~> pc \in {"idle", "gone"}

(* A worker whose stop event is set ends.                                  *)
StoppedWorkerExits ==
    \A r \in Attempts : Live(r) /\ wstop[r] \in stopSet ~> ~ Live(r)

(* Re-using the object gives up what earlier attempts got from the server: *)
(* a place in the queue or a grant does not outlive its attempt.           *)
ReusedGrantIsFreed ==
    \A c \in Attempts :
        c < attempt /\ grant[c] \in {"queued", "held"} ~> grant[c] = "gone"

(* "(`close()` / GC) relies on dflockd's `--auto-release-on-disconnect`    *)
(* [...] to free the slot": a lock dropped without release() is collected, *)
(* and the server frees its grant in the end (__del__).                    *)
DroppedGrantIsFreed ==
    \A c \in Attempts :
        pc = "dropped" /\ conn = c /\ grant[c] = "held" ~> grant[c] = "gone"
=============================================================================
