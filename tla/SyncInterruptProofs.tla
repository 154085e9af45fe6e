------------------------ MODULE SyncInterruptProofs ------------------------
(***************************************************************************)
(* The safety of SyncInterrupt, for every number of attempts: what holds   *)
(* whatever call is interrupted, and, with joins that see the thread end,  *)
(* what the calls promise until one is.                                    *)
(***************************************************************************)
EXTENDS SyncInterrupt, SyncLockProofs

-----------------------------------------------------------------------------
(* What no interrupt breaks.                                               *)

(* A worker that nobody told to stop is the one self._renew_thread names,  *)
(* and an object is armed again only after its event was set.              *)
ReachInv ==
    /\ pc \in {"shut", "lockclose", "join2", "rearm"} => closed
    /\ pc = "join" => attempt \in stopSet
    /\ pc = "launch" => renewThread = attempt
    /\ attempt \in Attempts /\ Live(attempt) /\ attempt \notin stopSet =>
          renewThread = attempt

(* A request is one of the calls that send one, and an attempt is begun    *)
(* only by a call that may.                                                *)
RequestInv ==
    /\ pc \in {"send", "await"} => op \in {"acquire", "enqueue", "wait"}
    /\ pc = "wait" => op = "wait"
    /\ pc \in {"rearm", "open"} => op \in {"acquire", "enqueue"}
    /\ pc \notin {"idle", "dropped", "gone"} /\ op \in {"acquire", "enqueue"}
           /\ pc \notin {"open", "send", "await", "start", "launch"} =>
          attempt < MaxAttempts

InterruptInv == Types /\ ArmingInv /\ ReachInv /\ RequestInv

-----------------------------------------------------------------------------
(* Until an interrupt, when a join returns only once the thread has ended. *)

(* There is one worker, the current attempt's, and _renew_thread names it; *)
(* the token stays until that worker gives it up.                          *)
OneWorker ==
    /\ \A r \in Attempts :
          /\ Live(r) =>
                /\ r = attempt /\ renewThread = r
                /\ wpc[r] # "unlease" => token = r
                /\ wpc[r] \in {"untoken", "unlease"} => conn = None
          /\ wpc[r] \in {"ticked", "store"} => rtok[r] = r
    /\ pc \in {"send", "await", "start", "launch"} =>
          conn = attempt /\ \A r \in Attempts : ~ Live(r)
    /\ pc \in {"start", "launch"} =>
          token = attempt /\ op \in {"acquire", "enqueue", "wait"}
    /\ pc \notin {"idle", "dropped", "gone"} => op # "none"

(* A lease is shown with its token, until the worker that gives both up    *)
(* has cleared it.                                                         *)
LeaseInv ==
    pc # "start" =>
        \/ lease = token
        \/ attempt \in Attempts /\ wpc[attempt] = "unlease"

(* On the connection the object has, while it is up: what is asked and     *)
(* answered for a grant is the caller's, and a grant is known, on its way, *)
(* or about to be closed.                                                  *)
AskInv ==
    /\ \A c \in Attempts :
          c > attempt \/ (c = attempt /\ pc = "open") =>
              sock[c] = "none" /\ net[c] = "quiet" /\ grant[c] = "none"
    /\ pc = "await" /\ net[cur] \in {"enqueue", "queued"} => op = "enqueue"
    /\ \A c \in Attempts :
          conn = c /\ sock[c] = "open" =>
              /\ net[c] \in {"acquire", "enqueue", "wait", "granted", "queued", "timeout"} =>
                    pc = "await"
              /\ net[c] \in {"acquire", "enqueue", "wait", "queued", "timeout"} =>
                    grant[c] # "held"
              /\ grant[c] = "held" =>
                    \/ token = c
                    \/ pc = "await" /\ net[c] = "granted"
                    \/ pc \in {"close", "shut"}

CalmInv == IInv /\ OneWorker /\ LeaseInv /\ AskInv

TillInv == ~ interrupted => CalmInv

-----------------------------------------------------------------------------
(* A function that is changed at one place, or at none, keeps its type.    *)
LEMMA ExceptIsTyped ==
    ASSUME NEW S, NEW T, NEW f \in [S -> T], NEW i, NEW v \in T
    PROVE  [f EXCEPT ![i] = v] \in [S -> T]
  OBVIOUS

USE MaxAttemptsAssumption, JoinAssumption
    DEF None, Caller, Attempts, StopEvents, Handle, CallerPcs, Ops, WorkerPcs,
        Requests, Responses, Socks, Grants, Live, NeverStarted, Stopped, Unstarted,
        Locked, UsingConn, caller, arming, held, object, locals, worker, channel

(* The invariants hold of a new object.                                    *)
LEMMA InitHolds == Init => InterruptInv /\ CalmInv
<1> SUFFICES ASSUME Init PROVE InterruptInv /\ CalmInv
  OBVIOUS
<1>1. IInv
  BY InitInv
<1>2. ReachInv /\ RequestInv
  BY DEF Init, ReachInv, RequestInv
<1>3. OneWorker /\ LeaseInv /\ AskInv
  BY DEF Init, OneWorker, LeaseInv, AskInv
<1> QED
  BY <1>1, <1>2, <1>3 DEF InterruptInv, CalmInv, IInv

-----------------------------------------------------------------------------
(* What no interrupt breaks.                                               *)

(* The caller's steps, whatever was interrupted before.                    *)
LEMMA CallerReaches ==
    ASSUME InterruptInv, CallerStep
    PROVE  InterruptInv'
<1> USE DEF InterruptInv, Types, ArmingInv, ReachInv, RequestInv
<1>1. CASE StopRenew
  <2>1. stopSet' \in {stopSet, stopSet \cup {stopEvent}}
    BY <1>1 DEF StopRenew
  <2>2. stopSet' \in SUBSET StopEvents /\ pc' \in CallerPcs
    BY <1>1, <2>1 DEF StopRenew, AfterStop
  <2>3. Types'
    BY <1>1, <2>2 DEF StopRenew
  <2>4. ArmingInv'
    BY <1>1, <2>1 DEF StopRenew
  <2>5. ReachInv' /\ RequestInv'
    BY <1>1 DEF StopRenew, AfterStop
  <2> QED
    BY <2>3, <2>4, <2>5
<1>2. CASE JoinStopped
  BY <1>2 DEF JoinStopped, AfterStop, JoinReturns
<1>3. CASE NothingToRelease
  BY <1>3 DEF NothingToRelease
<1>4. CASE SendRelease
  BY <1>4 DEF SendRelease
<1>5. CASE ReleaseReturns
  BY <1>5, SMTT(30) DEF ReleaseReturns
<1>6. CASE CloseAgain
  <2>1. Types' /\ ArmingInv'
    BY <1>6 DEF CloseAgain, AfterClose, Return
  <2>2. ReachInv' /\ RequestInv'
    BY <1>6 DEF CloseAgain, AfterClose, Return
  <2> QED
    BY <2>1, <2>2
<1>7. CASE BeginClose
  BY <1>7 DEF BeginClose
<1>8. CASE ShutNothing
  BY <1>8 DEF ShutNothing
<1>9. CASE ShutConn
  BY <1>9 DEF ShutConn
<1>10. CASE CloseConn
  BY <1>10 DEF CloseConn, CloseMayLock
<1>11. CASE JoinAndClear
  BY <1>11 DEF JoinAndClear, AfterClose, Return, JoinReturns, ClearedLease
<1>12. CASE Rearm
  <2>1. closed' \in BOOLEAN /\ ~ closed'
    BY <1>12, Zenon DEF Rearm, Rearmed
  <2>2. Types' /\ ArmingInv'
    BY <1>12, <2>1 DEF Rearm, FreshStopEvent
  <2>3. ReachInv' /\ RequestInv'
    BY <1>12, <2>1 DEF Rearm, FreshStopEvent
  <2> QED
    BY <2>2, <2>3
<1>13. CASE OpenFails
  <2>1. PICK s \in {"none", "closed"} : sock' = [sock EXCEPT ![attempt] = s]
    BY <1>13 DEF OpenFails
  <2>2. sock' \in [Attempts -> Socks]
    BY <2>1, ExceptIsTyped
  <2> QED
    BY <1>13, <2>2 DEF OpenFails, Return
<1>14. CASE OpenSucceeds
  <2>1. sock' \in [Attempts -> Socks]
    BY <1>14, ExceptIsTyped DEF OpenSucceeds
  <2> QED
    BY <1>14, <2>1 DEF OpenSucceeds
<1>15. CASE WaitReturns
  BY <1>15 DEF WaitReturns, Return
<1>16. CASE WaitOnConn
  BY <1>16 DEF WaitOnConn
<1>17. CASE SendRequest
  <2>1. op \in Requests
    BY <1>17 DEF SendRequest
  <2>2. net' \in [Attempts -> {"quiet"} \cup Requests \cup Responses]
    BY <1>17, <2>1 DEF SendRequest
  <2>3. pc' = "await" /\ UNCHANGED <<op, cur, object, worker, sock, grant>>
    BY <1>17 DEF SendRequest
  <2> QED
    BY <1>17, <2>2, <2>3 DEF SendRequest
<1>18. CASE CommandBroken
  <2>1. sock' \in [Attempts -> Socks]
    BY <1>18, ExceptIsTyped DEF CommandBroken
  <2> QED
    BY <1>18, <2>1 DEF CommandBroken, GiveUp
<1>19. CASE CommandRefused \/ CommandQueued \/ CommandGranted
  <2>1. net' \in [Attempts -> {"quiet"} \cup Requests \cup Responses]
    BY <1>19, ExceptIsTyped DEF CommandRefused, CommandQueued, CommandGranted, Answered
  <2>2. UNCHANGED <<arming, conn, renewThread, ioLock, worker, sock, grant>>
        /\ pc = "await" /\ pc' \in {"idle", "start", "close"}
    BY <1>19 DEF CommandRefused, CommandQueued, CommandGranted, Answered, GiveUp, Return
  <2>3. /\ op' \in {"none", "giveup", op} /\ cur' \in {None, cur}
        /\ token' \in {token, cur} /\ lease' = lease
        /\ pc' = "close" => op' = "giveup"
    BY <1>19 DEF CommandRefused, CommandQueued, CommandGranted, Answered, GiveUp, Return,
         GrantedToken
  <2>4. Types'
    BY <2>1, <2>2, <2>3
  <2>5. ArmingInv' /\ ReachInv' /\ RequestInv'
    BY <2>1, <2>2, <2>3
  <2> QED
    BY <2>4, <2>5
<1>20. CASE StartRenew
  <2>1. Types'
    <3>1. wpc' \in [Attempts -> WorkerPcs] /\ wstop' \in [Attempts -> StopEvents]
      BY <1>20, ExceptIsTyped DEF StartRenew
    <3> QED
      BY <1>20, <3>1 DEF StartRenew, Return
  <2>2. \A r \in Attempts : r # attempt => wpc'[r] = wpc[r] /\ wstop'[r] = wstop[r]
    BY <1>20 DEF StartRenew
  <2>3. attempt \in Attempts => wstop'[attempt] = attempt
    BY <1>20 DEF StartRenew
  <2>4. UNCHANGED <<closed, stopEvent, stopSet, attempt, renewThread>>
        /\ pc = "launch" /\ pc' = "idle"
    BY <1>20 DEF StartRenew, Return
  <2>5. ArmingInv'
    BY <2>2, <2>3, <2>4
  <2>6. ReachInv' /\ RequestInv'
    BY <2>4
  <2> QED
    BY <2>1, <2>5, <2>6
<1>21. CASE Collect
  BY <1>21 DEF Collect
<1>22. CASE JoinRaises \/ StartFails
  <2>1. /\ pc' = "idle" /\ op' = "none" /\ cur' = None
        /\ UNCHANGED <<object, worker, channel>>
    BY <1>22 DEF JoinRaises, StartFails, Return
  <2>2. Types' /\ ArmingInv'
    BY <2>1
  <2>3. ReachInv' /\ RequestInv'
    BY <2>1
  <2> QED
    BY <2>2, <2>3
<1>23. CASE MakeThread
  BY <1>23 DEF MakeThread
<1> QED
  BY <1>1, <1>2, <1>3, <1>4, <1>5, <1>6, <1>7, <1>8, <1>9, <1>10, <1>11, <1>12, <1>13,
     <1>14, <1>15, <1>16, <1>17, <1>18, <1>19, <1>20, <1>21, <1>22, <1>23
  DEF CallerStep

(* A worker's steps, whatever was interrupted: none starts a worker, and   *)
(* none touches the events or the handle.                                  *)
LEMMA WorkerReaches ==
    ASSUME InterruptInv, NEW r \in Attempts, WorkerStep(r)
    PROVE  InterruptInv'
<1>1. Types'
  <2> USE DEF InterruptInv, Types, Goto
  <2>1. CASE Wake(r)
    BY <2>1 DEF Wake
  <2>2. CASE TickEnds(r)
    BY <2>2 DEF TickEnds
  <2>3. CASE TickLoads(r)
    BY <2>3 DEF TickLoads
  <2>4. CASE SendRenew(r)
    <3>1. net' \in [Attempts -> {"quiet"} \cup Requests \cup Responses]
      BY <2>4, ExceptIsTyped DEF SendRenew
    <3> QED
      BY <2>4, <3>1, SMTT(30) DEF SendRenew
  <2>5. CASE Renewed(r)
    <3>1. net' \in [Attempts -> {"quiet"} \cup Requests \cup Responses]
      BY <2>5, ExceptIsTyped DEF Renewed
    <3> QED
      BY <2>5, <3>1 DEF Renewed
  <2>6. CASE RenewRefused(r)
    <3>1. net' \in [Attempts -> {"quiet"} \cup Requests \cup Responses]
      BY <2>6, ExceptIsTyped DEF RenewRefused
    <3> QED
      BY <2>6, <3>1, SMTT(30) DEF RenewRefused
  <2>7. CASE RenewBroken(r)
    <3>1. sock' \in [Attempts -> Socks]
      BY <2>7, ExceptIsTyped DEF RenewBroken
    <3> QED
      BY <2>7, <3>1, SMTT(30) DEF RenewBroken
  <2>8. CASE CheckFailure(r) \/ LogFailure(r)
    <3>1. CASE CheckFailure(r)
      BY <3>1, SMTT(30) DEF CheckFailure
    <3>2. CASE LogFailure(r)
      BY <3>2, SMTT(30) DEF LogFailure
    <3> QED
      BY <2>8, <3>1, <3>2
  <2>9. CASE CompareConn(r)
    BY <2>9, SMTT(30) DEF CompareConn
  <2>10. CASE LoseConn(r)
    BY <2>10 DEF LoseConn
  <2>11. CASE LoseToken(r)
    BY <2>11 DEF LoseToken, LostToken
  <2>12. CASE LoseLease(r)
    <3>1. sock' \in [Attempts -> Socks]
      BY <2>12, ExceptIsTyped DEF LoseLease, LostSock
    <3> QED
      BY <2>12, <3>1 DEF LoseLease, ForgetLocals
  <2>13. CASE LeaseNotUpdated(r)
    BY <2>13 DEF LeaseNotUpdated, ForgetLocals
  <2>14. CASE UpdateChecked(r)
    BY <2>14 DEF UpdateChecked
  <2>15. CASE UpdateLease(r)
    BY <2>15 DEF UpdateLease, ForgetLocals
  <2> QED
    BY <2>1, <2>2, <2>3, <2>4, <2>5, <2>6, <2>7, <2>8, <2>9, <2>10, <2>11, <2>12, <2>13,
       <2>14, <2>15 DEF WorkerStep
<1>2. UNCHANGED <<pc, op, closed, stopEvent, stopSet, attempt, renewThread, wstop>>
  BY DEF WorkerStep, Wake, TickEnds, TickLoads, SendRenew, Renewed, RenewRefused, RenewBroken,
         CheckFailure, LogFailure, CompareConn, LoseConn, LoseToken, LoseLease, LeaseNotUpdated,
         UpdateChecked, UpdateLease, Goto
<1>3. \E there \in WorkerPcs \ {"none"} : wpc[r] \notin {"none", "dead"} /\ wpc' = [wpc EXCEPT ![r] = there]
  BY DEF WorkerStep, Wake, TickEnds, TickLoads, SendRenew, Renewed, RenewRefused, RenewBroken,
         CheckFailure, LogFailure, CompareConn, LoseConn, LoseToken, LoseLease, LeaseNotUpdated,
         UpdateChecked, UpdateLease, Goto
<1>4. \A q \in Attempts : (wpc'[q] = "none" => wpc[q] = "none") /\ (Live(q)' => Live(q))
                         /\ (wpc[q] = "none" => wpc'[q] = "none")
  BY <1>3 DEF InterruptInv, Types
<1> QED
  BY <1>1, <1>2, <1>4 DEF InterruptInv, Types, ArmingInv, ReachInv, RequestInv

(* The interrupt itself: it unwinds the call, and leaves the events and    *)
(* the handle of a worker as they are.                                     *)
LEMMA InterruptReaches ==
    ASSUME InterruptInv, Interrupt
    PROVE  InterruptInv'
<1>1. CASE InterruptOpen \/ InterruptCommand \/ InterruptStart
  BY <1>1, CallerReaches DEF InterruptOpen, InterruptCommand, InterruptStart, CallerStep
<1> USE DEF InterruptInv, Types, ArmingInv, ReachInv, RequestInv, Return
<1>2. CASE InterruptEnds
  BY <1>2 DEF InterruptEnds
<1>3. CASE InterruptRearm
  <2>1. closed' \in BOOLEAN /\ ~ closed'
    BY <1>3, Zenon DEF InterruptRearm, Rearmed
  <2> QED
    BY <1>3, <2>1 DEF InterruptRearm
<1>4. CASE InterruptRelease
  BY <1>4 DEF InterruptRelease, LeftIoLock
<1>5. CASE InterruptGranted
  BY <1>5 DEF InterruptGranted, GiveUp
<1> QED
  BY <1>1, <1>2, <1>3, <1>4, <1>5 DEF Interrupt

(* Every step, interrupted or not, keeps the invariant.                    *)
LEMMA NextReaches == InterruptInv /\ [NextInterrupted]_allvars => InterruptInv'
<1> SUFFICES ASSUME InterruptInv, [NextInterrupted]_allvars PROVE InterruptInv'
  OBVIOUS
<1>1. CASE UNCHANGED vars
  BY <1>1 DEF vars, InterruptInv, Types, ArmingInv, ReachInv, RequestInv
<1>2. CASE Drop
  BY <1>2 DEF Drop, InterruptInv, Types, ArmingInv, ReachInv, RequestInv
<1>3. ASSUME NEW o \in Ops \ {"none", "giveup"}, Call(o) PROVE InterruptInv'
  BY <1>3 DEF Call, InterruptInv, Types, ArmingInv, ReachInv, RequestInv
<1>4. ASSUME NEW c \in Attempts, ServerStep(c) PROVE InterruptInv'
  <2>1. Types'
    <3> USE DEF InterruptInv
    <3>1. ASSUME NEW requests, NEW response \in Responses, NEW state \in Grants,
                 Respond(c, requests, response, state)
          PROVE  Types'
      BY <3>1, RespondTypes
    <3>2. CASE SrvExpire(c)
      BY <3>2 DEF SrvExpire, Types
    <3>3. CASE SrvDisconnect(c)
      BY <3>3 DEF SrvDisconnect, Types
    <3>4. grant[c] \in Grants
      BY DEF Types
    <3> QED
      BY <1>4, <3>1, <3>2, <3>3, <3>4 DEF ServerStep, SrvGrant, SrvQueue, SrvTimeout, SrvError,
           SrvRenew, SrvRelease
  <2>2. UNCHANGED <<caller, object, worker>>
    BY <1>4 DEF ServerStep, SrvGrant, SrvQueue, SrvTimeout, SrvError, SrvRenew, SrvRelease,
         SrvExpire, SrvDisconnect, Respond
  <2> QED
    BY <2>1, <2>2 DEF InterruptInv, ArmingInv, ReachInv, RequestInv
<1> QED
  BY <1>1, <1>4, <1>2, <1>3, CallerReaches, WorkerReaches, InterruptReaches
  DEF NextInterrupted, Next, Over, allvars

(* Whatever call is interrupted wherever, a worker that nobody told to     *)
(* stop stays in reach of the next call.                                   *)
THEOREM StopReachesWorkers == SpecInterrupted => []InterruptedStopsOwnWorker
<1>1. InterruptInv => InterruptedStopsOwnWorker
  BY DEF InterruptInv, Types, ArmingInv, ReachInv, InterruptedStopsOwnWorker
<1> QED
  BY <1>1, InitHolds, NextReaches, PTL DEF SpecInterrupted

-----------------------------------------------------------------------------
(* Until an interrupt, when a join returns only once the thread has ended. *)

(* A join, then, leaves no thread.                                         *)
LEMMA JoinEndsAll ==
    ASSUME ~ JoinMayTimeOut, CalmInv, JoinReturns
    PROVE  \A r \in Attempts : ~ Live(r)
  BY DEF CalmInv, OneWorker, JoinReturns, IInv, Types

(* A public call may begin, and the last reference may go, at any rest.    *)
LEMMA CallStaysCalm ==
    ASSUME CalmInv, \/ Drop
                    \/ \E o \in Ops \ {"none", "giveup"} : Call(o)
    PROVE  CalmInv'
<1>1. IInv'
  BY CallKeepsInv DEF CalmInv
<1> USE DEF CalmInv, IInv, Types, HandleInv, StopInv, OneWorker, LeaseInv, AskInv
<1>2. CASE Drop
  BY <1>1, <1>2 DEF Drop
<1>3. ASSUME NEW o \in Ops \ {"none", "giveup"}, Call(o) PROVE CalmInv'
  BY <1>1, <1>3 DEF Call
<1> QED
  BY <1>2, <1>3

(* The caller's steps.                                                     *)
LEMMA CallerStaysCalm ==
    ASSUME ~ JoinMayTimeOut, CalmInv, CallerStep
    PROVE  CalmInv'
<1>inv. IInv'
  BY CallerKeepsInv DEF CalmInv
<1>join. JoinReturns => \A r \in Attempts : ~ Live(r)
  BY JoinEndsAll
<1> USE <1>inv, <1>join DEF CalmInv, IInv, Types, ArmingInv, HandleInv, LockInv, GrantInv, StopInv,
        OneWorker, LeaseInv, AskInv
<1>1. CASE StopRenew
  <2>1. OneWorker'
    BY <1>1 DEF StopRenew, AfterStop
  <2>2. LeaseInv'
    BY <1>1 DEF StopRenew, AfterStop
  <2>3. AskInv'
    BY <1>1 DEF StopRenew, AfterStop
  <2> QED
    BY <2>1, <2>2, <2>3
<1>2. CASE JoinStopped
  <2>1. OneWorker'
    BY <1>2 DEF JoinStopped, AfterStop
  <2>2. LeaseInv'
    BY <1>2 DEF JoinStopped, AfterStop
  <2>3. AskInv'
    BY <1>2 DEF JoinStopped, AfterStop
  <2> QED
    BY <2>1, <2>2, <2>3
<1>3. CASE NothingToRelease
  BY <1>3 DEF NothingToRelease
<1>4. CASE SendRelease
  BY <1>4 DEF SendRelease
<1>5. CASE ReleaseReturns
  <2>1. OneWorker'
    BY <1>5 DEF ReleaseReturns
  <2>2. LeaseInv'
    BY <1>5 DEF ReleaseReturns
  <2>3. AskInv'
    BY <1>5 DEF ReleaseReturns
  <2> QED
    BY <2>1, <2>2, <2>3
<1>6. CASE CloseAgain
  BY <1>6 DEF CloseAgain, AfterClose, Return
<1>7. CASE BeginClose
  BY <1>7 DEF BeginClose
<1>8. CASE ShutNothing
  BY <1>8 DEF ShutNothing
<1>9. CASE ShutConn
  <2>1. OneWorker'
    BY <1>9 DEF ShutConn
  <2>2. LeaseInv'
    BY <1>9 DEF ShutConn
  <2>3. AskInv'
    BY <1>9 DEF ShutConn
  <2> QED
    BY <2>1, <2>2, <2>3
<1>10. CASE CloseConn
  <2>1. OneWorker'
    BY <1>10 DEF CloseConn
  <2>2. LeaseInv'
    BY <1>10 DEF CloseConn
  <2>3. AskInv'
    BY <1>10 DEF CloseConn
  <2> QED
    BY <2>1, <2>2, <2>3
<1>11. CASE JoinAndClear
  <2>1. OneWorker'
    BY <1>11 DEF JoinAndClear, AfterClose, Return, ClearedLease
  <2>2. LeaseInv'
    BY <1>11 DEF JoinAndClear, AfterClose, Return, ClearedLease
  <2>3. AskInv'
    BY <1>11 DEF JoinAndClear, AfterClose, Return, ClearedLease
  <2> QED
    BY <2>1, <2>2, <2>3
<1>12. CASE Rearm
  <2>1. OneWorker'
    BY <1>12 DEF Rearm, FreshStopEvent
  <2>2. LeaseInv'
    BY <1>12 DEF Rearm, FreshStopEvent
  <2>3. AskInv'
    BY <1>12 DEF Rearm, FreshStopEvent
  <2> QED
    BY <2>1, <2>2, <2>3
<1>13. CASE OpenFails
  <2>1. OneWorker'
    BY <1>13 DEF OpenFails, Return
  <2>2. LeaseInv'
    BY <1>13 DEF OpenFails, Return
  <2>3. AskInv'
    BY <1>13 DEF OpenFails, Return
  <2> QED
    BY <2>1, <2>2, <2>3
<1>14. CASE OpenSucceeds
  <2>1. OneWorker'
    BY <1>14 DEF OpenSucceeds
  <2>2. LeaseInv' /\ AskInv'
    BY <1>14 DEF OpenSucceeds
  <2> QED
    BY <2>1, <2>2
<1>15. CASE WaitReturns
  BY <1>15 DEF WaitReturns, Return
<1>16. CASE WaitOnConn
  BY <1>16 DEF WaitOnConn
<1>17. CASE SendRequest
  <2>1. OneWorker'
    BY <1>17 DEF SendRequest
  <2>2. LeaseInv'
    BY <1>17 DEF SendRequest
  <2>3. AskInv'
    BY <1>17 DEF SendRequest
  <2> QED
    BY <2>1, <2>2, <2>3
<1>18. CASE CommandBroken
  <2>1. OneWorker'
    BY <1>18 DEF CommandBroken, GiveUp
  <2>2. LeaseInv'
    BY <1>18 DEF CommandBroken, GiveUp
  <2>3. AskInv'
    BY <1>18 DEF CommandBroken, GiveUp
  <2> QED
    BY <2>1, <2>2, <2>3
<1>19. CASE CommandRefused
  BY <1>19, SMTT(30) DEF CommandRefused, GiveUp, Answered
<1>20. CASE CommandQueued
  BY <1>20, SMTT(30) DEF CommandQueued, Return, Answered
<1>21. CASE CommandGranted
  <2>1. OneWorker'
    BY <1>21 DEF CommandGranted, GrantedToken, Answered
  <2>2. LeaseInv'
    BY <1>21 DEF CommandGranted, GrantedToken, Answered
  <2>3. AskInv'
    BY <1>21 DEF CommandGranted, GrantedToken, Answered
  <2> QED
    BY <2>1, <2>2, <2>3
<1>22. CASE StartRenew
  BY <1>22 DEF StartRenew, Return
<1>23. CASE Collect
  BY <1>23 DEF Collect
<1>24. CASE JoinRaises \/ StartFails
  <2>1. OneWorker'
    BY <1>24 DEF JoinRaises, StartFails, Return
  <2>2. LeaseInv'
    BY <1>24 DEF JoinRaises, StartFails, Return
  <2>3. AskInv'
    BY <1>24 DEF JoinRaises, StartFails, Return
  <2> QED
    BY <2>1, <2>2, <2>3
<1>25. CASE MakeThread
  BY <1>25 DEF MakeThread
<1> QED
  BY <1>1, <1>2, <1>3, <1>4, <1>5, <1>6, <1>7, <1>8, <1>9, <1>10, <1>11, <1>12,
     <1>13, <1>14, <1>15, <1>16, <1>17, <1>18, <1>19, <1>20, <1>21, <1>22, <1>23,
     <1>24, <1>25
  DEF CallerStep

(* The steps of the one renew thread.                                      *)
LEMMA WorkerStaysCalm ==
    ASSUME CalmInv, NEW r \in Attempts, WorkerStep(r)
    PROVE  CalmInv'
<1>inv. IInv'
  BY WorkerKeepsInv DEF CalmInv
<1> USE <1>inv DEF CalmInv, IInv, Types, ArmingInv, HandleInv, LockInv, GrantInv, StopInv,
        OneWorker, LeaseInv, AskInv, Goto
<1>1. CASE Wake(r)
  BY <1>1, SMTT(30) DEF Wake
<1>2. CASE TickEnds(r)
  BY <1>2, SMTT(30) DEF TickEnds
<1>3. CASE TickLoads(r)
  BY <1>3 DEF TickLoads
<1>4. CASE SendRenew(r)
  BY <1>4 DEF SendRenew
<1>5. CASE Renewed(r)
  BY <1>5 DEF Renewed
<1>6. CASE RenewRefused(r)
  BY <1>6 DEF RenewRefused
<1>7. CASE RenewBroken(r)
  BY <1>7 DEF RenewBroken
<1>8. CASE CheckFailure(r) \/ LogFailure(r)
  <2>1. PICK there \in {"quiet", "log", "lost"} : Goto(r, there)
    BY <1>8 DEF CheckFailure, LogFailure
  <2>2. wpc[r] \in {"failed", "log"} /\ UNCHANGED <<caller, object, locals, channel>>
    BY <1>8 DEF CheckFailure, LogFailure
  <2> QED
    BY <2>1, <2>2
<1>9. CASE CompareConn(r)
  BY <1>9 DEF CompareConn
<1>10. CASE LoseConn(r)
  BY <1>10 DEF LoseConn
<1>11. CASE LoseToken(r)
  BY <1>11 DEF LoseToken, LostToken
<1>12. CASE LoseLease(r)
  <2>1. OneWorker'
    BY <1>12 DEF LoseLease, ForgetLocals, LostSock, HeldInv
  <2>2. LeaseInv'
    BY <1>12 DEF LoseLease, ForgetLocals, LostSock, HeldInv
  <2>3. AskInv'
    BY <1>12 DEF LoseLease, ForgetLocals, LostSock, HeldInv
  <2> QED
    BY <2>1, <2>2, <2>3
<1>13. CASE LeaseNotUpdated(r)
  <2>1. OneWorker'
    BY <1>13 DEF LeaseNotUpdated, ForgetLocals
  <2>2. LeaseInv'
    BY <1>13 DEF LeaseNotUpdated, ForgetLocals
  <2>3. AskInv'
    BY <1>13 DEF LeaseNotUpdated, ForgetLocals
  <2> QED
    BY <2>1, <2>2, <2>3
<1>14. CASE UpdateChecked(r)
  BY <1>14 DEF UpdateChecked
<1>15. CASE UpdateLease(r)
  <2>1. OneWorker'
    BY <1>15 DEF UpdateLease, ForgetLocals
  <2>2. r = attempt /\ token = r /\ rtok[r] = r
    BY <1>15 DEF UpdateLease
  <2>4. LeaseInv'
    BY <1>15, <2>2 DEF UpdateLease
  <2>3. AskInv'
    BY <1>15 DEF UpdateLease, ForgetLocals
  <2> QED
    BY <2>1, <2>4, <2>3
<1> QED
  BY <1>1, <1>2, <1>3, <1>4, <1>5, <1>6, <1>7, <1>8, <1>9, <1>10, <1>11, <1>12,
     <1>13, <1>14, <1>15
  DEF WorkerStep

(* The server's steps.                                                     *)
LEMMA ServerStaysCalm ==
    ASSUME CalmInv, NEW c \in Attempts, ServerStep(c)
    PROVE  CalmInv'
<1>inv. IInv'
  BY ServerKeepsInv DEF CalmInv
<1> USE <1>inv DEF CalmInv, IInv, Types, GrantInv, OneWorker, LeaseInv, AskInv
<1>1. CASE SrvGrant(c)
  <2>1. CASE Respond(c, {"acquire", "enqueue"}, "granted", "held")
    BY <2>1 DEF Respond
  <2>2. CASE Respond(c, {"wait"}, "granted", "held")
    BY <2>2 DEF Respond
  <2> QED
    BY <1>1, <2>1, <2>2 DEF SrvGrant
<1>2. CASE SrvQueue(c)
  BY <1>2 DEF SrvQueue, Respond
<1>3. CASE SrvTimeout(c)
  BY <1>3 DEF SrvTimeout, Respond
<1>4. CASE SrvError(c)
  BY <1>4, SMTT(30) DEF SrvError, Respond
<1>5. CASE SrvRenew(c)
  BY <1>5, SMTT(30) DEF SrvRenew, Respond
<1>6. CASE SrvRelease(c)
  BY <1>6, SMTT(30) DEF SrvRelease, Respond
<1>7. CASE SrvExpire(c)
  BY <1>7 DEF SrvExpire
<1>8. CASE SrvDisconnect(c)
  BY <1>8 DEF SrvDisconnect
<1> QED
  BY <1>1, <1>2, <1>3, <1>4, <1>5, <1>6, <1>7, <1>8
  DEF ServerStep

(* Every step but an interrupt.                                            *)
LEMMA NextStaysCalm ==
    ASSUME ~ JoinMayTimeOut, CalmInv, [Next]_vars
    PROVE  CalmInv'
<1>1. CASE UNCHANGED vars
  BY <1>1 DEF vars, CalmInv, IInv, Types, ArmingInv, HandleInv, LockInv, GrantInv, StopInv,
       HeldInv, SockInv, OneWorker, LeaseInv, AskInv
<1> QED
  BY <1>1, CallStaysCalm, CallerStaysCalm, WorkerStaysCalm, ServerStaysCalm DEF Next, Over

(* Until the first interrupt the object is that of SyncLock.               *)
LEMMA CalmTillInterrupted == ~ JoinMayTimeOut => (SpecInterrupted => []TillInv)
<1> SUFFICES ASSUME ~ JoinMayTimeOut PROVE SpecInterrupted => []TillInv
  OBVIOUS
<1>1. Init /\ interrupted = FALSE => TillInv
  BY InitHolds DEF TillInv
<1>2. TillInv /\ [NextInterrupted]_allvars => TillInv'
  <2> SUFFICES ASSUME TillInv, [NextInterrupted]_allvars, ~ interrupted' PROVE CalmInv'
    BY DEF TillInv
  <2>1. [Next]_vars /\ ~ interrupted
    BY DEF NextInterrupted, allvars
  <2> QED
    BY <2>1, NextStaysCalm DEF TillInv
<1> QED
  BY <1>1, <1>2, PTL DEF SpecInterrupted

(* With joins that see the thread end, and until a call is interrupted, no *)
(* token the server granted is forgotten.                                  *)
THEOREM NoGrantForgotten ==
    ~ JoinMayTimeOut => (SpecInterrupted => []NoForgottenGrantTillInterrupted)
<1>1. TillInv => NoForgottenGrantTillInterrupted
  BY DEF TillInv, CalmInv, IInv, Types, AskInv, NoForgottenGrantTillInterrupted, NoForgottenGrant
<1> QED
  BY <1>1, CalmTillInterrupted, PTL

(* With joins that see the thread end, and until a call is interrupted,    *)
(* the lease shown between calls is that of the token shown: no worker of  *)
(* an earlier attempt stores its own.                                      *)
THEOREM LeasesBelongToTokens ==
    ~ JoinMayTimeOut => (SpecInterrupted => []LeaseBelongsToTokenTillInterrupted)
<1>1. TillInv => LeaseBelongsToTokenTillInterrupted
  BY DEF TillInv, CalmInv, LeaseInv, LeaseBelongsToTokenTillInterrupted, LeaseBelongsToToken
<1> QED
  BY <1>1, CalmTillInterrupted, PTL

-----------------------------------------------------------------------------
(* The refinement: what the object has, and whether its call has begun an  *)
(* attempt, as LockHandle sees them.                                       *)
Has == IF token # None THEN "held" ELSE IF conn # None THEN "connected" ELSE "free"
Fresh == op \in {"acquire", "enqueue"} /\ pc \in {"open", "send", "await", "start", "launch"}

(* What a step leaves alone, LockHandle does not see.                      *)
LEMMA Unseen ==
    ASSUME UNCHANGED <<op, attempt>>, Has' = Has, Fresh' <=> Fresh
    PROVE  UNCHANGED Promise!hvars
<1>1. UNCHANGED <<op, Has, attempt, Fresh>>
  BY Zenon DEF Fresh
<1> QED
  BY <1>1 DEF Promise!hvars, Has, Fresh

(* A step within a call that leaves the object with less, or with what its *)
(* request was granted.                                                    *)
LEMMA Proceeding ==
    ASSUME op # "none", UNCHANGED <<op, attempt>>, Fresh' <=> Fresh,
           \/ Has' \in {Has, "free"}
           \/ Has = "connected" /\ op \in {"acquire", "enqueue", "wait"} /\ Has' = "held"
    PROVE  Promise!Proceed
<1>1. Fresh' = Fresh
  BY Zenon DEF Fresh
<1>2. Promise!Changes
  BY DEF Promise!Changes, Promise!Asking, Has
<1> QED
  BY <1>1, <1>2 DEF Promise!Proceed, Fresh

(* A call that returns.                                                    *)
LEMMA Returning ==
    ASSUME op \in {"acquire", "enqueue", "wait", "release", "close", "giveup"},
           op' = "none", attempt' = attempt,
           \/ Has' = "free"
           \/ Has' = Has /\ Has = "held" /\ (Fresh \/ op = "wait")
           \/ Has' = Has /\ Has = "connected" /\ op = "enqueue" /\ Fresh
    PROVE  Promise!Finish
<1>1. Promise!Changes
  BY DEF Promise!Changes, Has
<1>2. Has' \in Promise!Leaves(op)
  BY DEF Promise!Leaves, Fresh, Has
<1>3. Fresh' = FALSE
  BY Zenon DEF Fresh
<1> QED
  BY <1>1, <1>2, <1>3 DEF Promise!Finish, Has, Fresh

(* A call that fails, and has yet to close what there is.                  *)
LEMMA Failing ==
    ASSUME op \in {"acquire", "enqueue", "wait"}, op' = "giveup", attempt' = attempt, Has' = Has
    PROVE  Promise!Fail
<1>1. Fresh' = FALSE
  BY Zenon DEF Fresh
<1>2. Promise!Changes
  BY DEF Promise!Changes, Has
<1> QED
  BY <1>1, <1>2 DEF Promise!Fail, Promise!Calls, Promise!Asking, Has, Fresh

(* The end of _close_unlocked: the call returns, or begins an attempt.     *)
LEMMA ClosingRefines ==
    ASSUME CalmInv, CloseAgain \/ JoinAndClear, ~ NeverStarted'
    PROVE  [Promise!HNext]_(Promise!hvars)
<1>1. Has' = "free"
  BY DEF CloseAgain, JoinAndClear, AfterClose, Return, Has, CalmInv, IInv, HandleInv
<1>2. attempt' = attempt /\ op # "none" /\ pc \in {"close", "join2"} /\ op \in Ops
  BY DEF CloseAgain, JoinAndClear, AfterClose, Return, CalmInv, OneWorker, IInv, Types
<1>3. CASE op \in {"acquire", "enqueue"}
  <2>1. op' = op /\ ~ Fresh /\ ~ Fresh'
    BY <1>2, <1>3 DEF CloseAgain, JoinAndClear, AfterClose, Fresh
  <2> QED
    BY <1>1, <1>2, <2>1, Proceeding DEF Promise!HNext
<1>4. CASE op \notin {"acquire", "enqueue"}
  <2>1. op' = "none"
    BY <1>4 DEF CloseAgain, JoinAndClear, AfterClose, Return
  <2> QED
    BY <1>1, <1>2, <1>4, <2>1, Returning DEF Promise!HNext
<1> QED
  BY <1>3, <1>4

(* The caller's steps, as LockHandle sees them, until Thread.start() has   *)
(* raised.                                                                 *)
LEMMA CallerRefines ==
    ASSUME CalmInv, CallerStep, ~ NeverStarted'
    PROVE  [Promise!HNext]_(Promise!hvars)
<1> USE DEF CalmInv, IInv, Types, HandleInv, StopInv, OneWorker
<1>1. CASE \/ StopRenew \/ JoinStopped \/ NothingToRelease \/ SendRelease \/ ReleaseReturns
           \/ BeginClose \/ ShutNothing \/ ShutConn \/ WaitOnConn \/ SendRequest \/ Collect
           \/ MakeThread
  <2>1. UNCHANGED <<op, attempt, conn, token>>
    BY <1>1 DEF StopRenew, JoinStopped, NothingToRelease, SendRelease, ReleaseReturns, BeginClose,
         ShutNothing, ShutConn, WaitOnConn, SendRequest, Collect, MakeThread
  <2>2. Fresh' <=> Fresh
    <3>1. CASE StopRenew \/ JoinStopped \/ NothingToRelease \/ SendRelease \/ ReleaseReturns
      BY <3>1 DEF Fresh, StopRenew, JoinStopped, AfterStop, NothingToRelease, SendRelease,
           ReleaseReturns
    <3>2. CASE BeginClose \/ ShutNothing \/ ShutConn
      BY <3>2 DEF Fresh, BeginClose, ShutNothing, ShutConn
    <3>3. CASE WaitOnConn \/ SendRequest \/ Collect \/ MakeThread
      BY <3>3 DEF Fresh, WaitOnConn, SendRequest, Collect, MakeThread
    <3> QED
      BY <1>1, <3>1, <3>2, <3>3
  <2> QED
    BY <2>1, <2>2, Unseen DEF Has
<1>2. CASE CloseAgain \/ JoinAndClear
  BY <1>2, ClosingRefines
<1>3. CASE CloseConn
  <2>1. UNCHANGED <<op, attempt, token>> /\ conn' = None /\ op # "none"
    BY <1>3 DEF CloseConn
  <2>2. Has' \in {Has, "free"}
    BY <2>1 DEF Has
  <2>3. ~ Fresh /\ ~ Fresh'
    BY <1>3 DEF CloseConn, Fresh
  <2> QED
    BY <2>1, <2>2, <2>3, Proceeding DEF Promise!HNext
<1>4. CASE Rearm
  <2>1. op \in {"acquire", "enqueue"} /\ op' = op /\ attempt' = attempt + 1
        /\ Has = "free" /\ Has' = Has
    BY <1>4 DEF Rearm, Has
  <2>2. ~ Fresh /\ Fresh'
    BY <1>4 DEF Rearm, Fresh
  <2>3. Fresh' = TRUE
    BY <2>2, Zenon DEF Fresh
  <2>4. Promise!BeginAttempt
    BY <2>1, <2>2, <2>3 DEF Promise!BeginAttempt, Promise!Asking, Has, Fresh
  <2> QED
    BY <2>4 DEF Promise!HNext
<1>5. CASE OpenSucceeds
  <2>1. op' = op /\ attempt' = attempt /\ Has = "free" /\ Has' = "connected"
    BY <1>5 DEF OpenSucceeds, Has
  <2>2. Fresh /\ Fresh'
    BY <1>5 DEF OpenSucceeds, Fresh
  <2>3. Fresh' = Fresh
    BY <2>2, Zenon DEF Fresh
  <2>4. Promise!Connect
    BY <2>1, <2>2, <2>3 DEF Promise!Connect, Has, Fresh
  <2> QED
    BY <2>4 DEF Promise!HNext
<1>6. CASE CommandBroken \/ CommandRefused
  <2>1. op \in {"acquire", "enqueue", "wait"} /\ op' = "giveup" /\ attempt' = attempt
        /\ UNCHANGED <<conn, token>>
    BY <1>6 DEF CommandBroken, CommandRefused, Answered, GiveUp
  <2> QED
    BY <2>1, Failing DEF Has, Promise!HNext
<1>7. CASE CommandGranted
  <2>1. op \in {"acquire", "enqueue", "wait"} /\ op' = op /\ attempt' = attempt
        /\ Has = "connected" /\ Has' = "held"
    BY <1>7 DEF CommandGranted, Answered, GrantedToken, Has
  <2>2. Fresh' <=> Fresh
    BY <1>7 DEF CommandGranted, Answered, Fresh
  <2> QED
    BY <2>1, <2>2, Proceeding DEF Promise!HNext
<1>8. CASE OpenFails
  <2>1. op \in {"acquire", "enqueue"} /\ op' = "none" /\ attempt' = attempt /\ Has' = "free"
    BY <1>8 DEF OpenFails, Return, Has
  <2> QED
    BY <2>1, Returning DEF Promise!HNext
<1>9. CASE WaitReturns
  <2>1. op = "wait" /\ op' = "none" /\ UNCHANGED <<attempt, conn, token>>
    BY <1>9 DEF WaitReturns, Return
  <2>2. Has' = Has /\ Has \in {"free", "held"}
    BY <1>9, <2>1 DEF WaitReturns, Has
  <2> QED
    BY <2>1, <2>2, Returning DEF Promise!HNext
<1>10. CASE CommandQueued
  <2>1. op = "enqueue" /\ op' = "none" /\ attempt' = attempt /\ Fresh
        /\ Has' = Has /\ Has = "connected"
    BY <1>10 DEF CommandQueued, Answered, Return, Has, Fresh, AskInv
  <2> QED
    BY <2>1, Returning DEF Promise!HNext
<1>11. CASE StartRenew
  <2>1. op # "none" /\ op' = "none" /\ attempt' = attempt /\ Has' = Has /\ Has = "held"
    BY <1>11 DEF StartRenew, Return, Has
  <2>2. op \in {"acquire", "enqueue", "wait"}
    BY <1>11 DEF StartRenew
  <2>3. Fresh \/ op = "wait"
    BY <1>11, <2>2 DEF StartRenew, Fresh
  <2> QED
    BY <2>1, <2>2, <2>3, Returning DEF Promise!HNext
<1>12. ~ (JoinRaises \/ StartFails)
  <2> SUFFICES ASSUME JoinRaises \/ StartFails PROVE FALSE
    OBVIOUS
  <2>1. UNCHANGED <<renewThread, wpc>>
    BY DEF JoinRaises, StartFails
  <2>2. renewThread # None /\ wpc[renewThread] = "none"
    BY DEF JoinRaises, StartFails, GrantInv
  <2> QED
    BY <2>1, <2>2
<1> QED
  BY <1>1, <1>2, <1>3, <1>4, <1>5, <1>6, <1>7, <1>8, <1>9, <1>10, <1>11, <1>12 DEF CallerStep

(* A renew thread takes a grant away when it is lost, and the server takes *)
(* nothing from the object.                                                *)
LEMMA WorkerRefines ==
    ASSUME CalmInv, NEW r \in Attempts, WorkerStep(r) \/ ServerStep(r)
    PROVE  [Promise!HNext]_(Promise!hvars)
<1>1. UNCHANGED <<pc, op, attempt>>
  BY DEF WorkerStep, Wake, TickEnds, TickLoads, SendRenew, Renewed, RenewRefused, RenewBroken,
       CheckFailure, LogFailure, CompareConn, LoseConn, LoseToken, LoseLease, LeaseNotUpdated, UpdateChecked,
       UpdateLease, ServerStep, SrvGrant, SrvQueue, SrvTimeout, SrvError, SrvRenew, SrvRelease,
       SrvExpire, SrvDisconnect, Respond
<1>2. Fresh' <=> Fresh
  BY <1>1 DEF Fresh
<1>3. CASE UNCHANGED <<conn, token>>
  BY <1>1, <1>2, <1>3, Unseen DEF Has
<1>4. CASE LoseConn(r)
  <2>1. token # None /\ token' = token
    BY <1>4 DEF LoseConn, CalmInv, OneWorker
  <2> QED
    BY <1>1, <1>2, <2>1, Unseen DEF Has
<1>5. CASE LoseToken(r)
  <2>1. Has = "held" /\ Has' = "free"
    BY <1>5 DEF LoseToken, LostToken, CalmInv, OneWorker, Has
  <2>2. Fresh' = Fresh
    BY <1>2, Zenon DEF Fresh
  <2>3. Promise!Lose
    BY <1>1, <2>1, <2>2 DEF Promise!Lose, Has, Fresh
  <2> QED
    BY <2>3 DEF Promise!HNext
<1>6. UNCHANGED <<conn, token>> \/ LoseConn(r) \/ LoseToken(r)
  BY DEF WorkerStep, Wake, TickEnds, TickLoads, SendRenew, Renewed, RenewRefused, RenewBroken,
       CheckFailure, LogFailure, CompareConn, LoseLease, LeaseNotUpdated, UpdateChecked,
       UpdateLease, ServerStep, SrvGrant, SrvQueue, SrvTimeout, SrvError, SrvRenew, SrvRelease,
       SrvExpire, SrvDisconnect, Respond
<1> QED
  BY <1>3, <1>4, <1>5, <1>6

(* A step of an object whose threads have all started, and no call of      *)
(* which was interrupted, is one of LockHandle, or none.                   *)
LEMMA StepRefines ==
    ASSUME TillInv, [NextInterrupted]_allvars, ~ interrupted', ~ NeverStarted'
    PROVE  [Promise!HNext]_(Promise!hvars)
<1>1. [Next]_vars /\ CalmInv
  BY DEF NextInterrupted, allvars, TillInv
<1>2. CASE UNCHANGED vars \/ Drop
  <2>1. UNCHANGED <<op, attempt, conn, token>> /\ (Fresh' <=> Fresh)
    BY <1>2 DEF vars, Drop, Fresh
  <2> QED
    BY <2>1, Unseen DEF Has
<1>3. ASSUME NEW o \in Ops \ {"none", "giveup"}, Call(o)
      PROVE  Promise!Begin
  <2>1. op = "none" /\ op' = o /\ UNCHANGED <<attempt, conn, token>>
    BY <1>1, <1>3 DEF Call, CalmInv, IInv, StopInv
  <2>2. ~ Fresh /\ ~ Fresh'
    BY <1>3 DEF Call, Fresh
  <2>3. Fresh' = Fresh
    BY <2>2, Zenon DEF Fresh
  <2> QED
    BY <2>1, <2>3 DEF Promise!Begin, Promise!Calls, Promise!Asking, Fresh
<1> QED
  BY <1>1, <1>2, <1>3, CallerRefines, WorkerRefines DEF Next, Over, Promise!HNext

(* With joins that see the thread end, and until a call is interrupted or  *)
(* Thread.start() raises, the object gives its application what LockHandle *)
(* promises, raced by its renew thread and the server.                     *)
THEOREM PromiseKept ==
    ~ JoinMayTimeOut => (SpecInterrupted => KeepsPromiseTillInterrupted)
<1> SUFFICES ASSUME ~ JoinMayTimeOut PROVE SpecInterrupted => KeepsPromiseTillInterrupted
  OBVIOUS
<1>1. Init => Promise!HInit
  <2> SUFFICES ASSUME Init PROVE Promise!HInit
    OBVIOUS
  <2>1. op = "none" /\ Has = "free" /\ attempt = 0 /\ ~ Fresh
    BY DEF Init, Has, Fresh
  <2>2. Fresh = FALSE
    BY <2>1, Zenon DEF Fresh
  <2> QED
    BY <2>1, <2>2 DEF Promise!HInit, Has, Fresh
<1>2. TillInv /\ [NextInterrupted]_allvars =>
          [~ interrupted' /\ ~ NeverStarted' => [Promise!HNext]_(Promise!hvars)]_allvars
  BY StepRefines
<1>3. SpecInterrupted => []TillInv
  BY CalmTillInterrupted
<1> QED
  BY <1>1, <1>2, <1>3, PTL DEF SpecInterrupted, KeepsPromiseTillInterrupted
=============================================================================
