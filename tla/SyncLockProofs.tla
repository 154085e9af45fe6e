--------------------------- MODULE SyncLockProofs ---------------------------
(***************************************************************************)
(* The safety of SyncLock, for every number of attempts and whether or not *)
(* a join may time out.                                                    *)
(***************************************************************************)
EXTENDS SyncLock, TLAPS

(* Worker r is inside `with self._io_lock' of _renew_tick.                 *)
UsingConn == {"send", "renewing", "failed", "log", "lost", "quiet", "unconn"}
Locked == UsingConn \cup {"untoken", "unlease"}

(* The stop event is the attempt's own.  A closed object's event is set,   *)
(* and so is that of every worker of an earlier attempt.                   *)
ArmingInv ==
    /\ stopEvent = attempt
    /\ stopSet \subseteq 0 .. attempt
    /\ closed => attempt \in stopSet
    /\ \A r \in Attempts :
          wpc[r] # "none" =>
              wstop[r] = r /\ r <= attempt /\ (r < attempt => r \in stopSet)

(* The current attempt's thread was made and never ran.                    *)
Unstarted == renewThread = attempt /\ wpc[attempt] = "none"

(* The handles are those of the current attempt, and a closed object has   *)
(* given them up by the time it may be armed again.                        *)
HandleInv ==
    /\ {conn, token, renewThread} \subseteq {None, attempt}
    /\ closed /\ pc \notin {"shut", "lockclose"} => conn = None
    /\ closed /\ pc \notin {"shut", "lockclose", "join2"} => token = None \/ Unstarted
    /\ pc \in {"shut", "lockclose", "join2", "rearm"} => closed
    /\ pc \in {"open", "send", "await", "start", "launch"} => ~ closed
    /\ pc = "join2" => conn = None
    /\ pc = "open" => conn = None /\ attempt \in Attempts
    /\ pc \in {"open", "send", "await"} => token = None
    /\ pc \in {"relwait", "lockclose", "send", "await", "start", "launch"} =>
          cur = attempt /\ attempt \in Attempts
    /\ pc = "launch" => renewThread = attempt
    /\ op \in {"acquire", "enqueue"} /\ pc \notin {"stop", "join", "launch"} =>
          renewThread = None
    /\ pc \in {"rearm", "open"} => op \in {"acquire", "enqueue"}
    /\ pc = "rearm" => attempt < MaxAttempts
    /\ pc \notin {"idle", "dropped", "gone"} /\ op \in {"acquire", "enqueue"}
           /\ pc \notin {"open", "send", "await", "start", "launch"} =>
          attempt < MaxAttempts
    /\ pc \in {"send", "await"} => op \in {"acquire", "enqueue", "wait"}
    /\ pc = "wait" => op = "wait"

(* _io_lock is held by exactly whom the code says, and while a worker uses *)
(* a connection under it, that connection is its own and stays self._conn. *)
LockInv ==
    /\ ioLock = Caller <=> pc = "relwait"
    /\ \A r \in Attempts :
          /\ ioLock = r <=> wpc[r] \in Locked
          /\ wpc[r] \in Locked => rconn[r] = r /\ rtok[r] = r
          /\ wpc[r] \in UsingConn => conn = r

(* A request for a grant, its answer and a place in the queue belong to an *)
(* attempt that has no worker yet, nor a thread that was made for one.     *)
GrantInv ==
    /\ \A c \in Attempts :
          /\ \/ net[c] \in {"acquire", "enqueue", "queued", "granted"}
             \/ grant[c] = "queued"
             => wpc[c] = "none" /\ renewThread # c
          /\ net[c] = "granted" => grant[c] # "queued"
    /\ pc \in {"open", "start", "launch"} => wpc[attempt] = "none"
    /\ pc = "send" /\ op # "wait" => wpc[attempt] = "none"
    /\ pc \in {"start", "launch"} => net[attempt] = "quiet" /\ grant[attempt] # "queued"
    /\ pc \in {"send", "await", "start", "launch"} /\ wpc[attempt] = "none" => conn = attempt

(* A worker that may go on is the one self._renew_thread names, and none   *)
(* may once release() is past _stop_renew.                                 *)
StopInv ==
    /\ attempt \in Attempts /\ Live(attempt) /\ attempt \notin stopSet =>
          renewThread = attempt
    /\ op = "release" /\ pc # "stop" =>
          \A r \in Attempts : Live(r) => r \in stopSet
    /\ op = "release" /\ pc \notin {"stop", "join", "rel"} =>
          \A r \in Attempts : wpc[r] # "send"
    /\ pc \in {"idle", "dropped", "gone"} => op = "none"
    /\ pc = "join" => attempt \in stopSet
    /\ pc \in {"open", "start", "launch"} => attempt \notin stopSet
    /\ pc \in {"send", "await"} => attempt \notin stopSet \/ Unstarted
    /\ pc \in {"idle", "wait", "dropped"} /\ conn # None =>
          attempt \notin stopSet \/ Unstarted

(* Between calls, a token that is set has its thread.  One that runs was   *)
(* not told to stop and has its connection, unless it is giving both up.   *)
HeldInv ==
    /\ pc \in {"idle", "wait", "dropped"} /\ token # None =>
          /\ renewThread = attempt
          /\ wpc[attempt] # "none" =>
                /\ Live(attempt)
                /\ attempt \notin stopSet
                /\ conn = attempt \/ wpc[attempt] = "untoken"
    /\ attempt \in Attempts /\ wpc[attempt] = "unlease" => token = None

SockInv ==
    \A c \in Attempts :
        sock[c] \in {"open", "shut"} => c = conn \/ wpc[c] \in {"untoken", "unlease"}

IInv ==
    /\ Types /\ ArmingInv /\ HandleInv /\ LockInv
    /\ GrantInv /\ StopInv /\ HeldInv /\ SockInv

-----------------------------------------------------------------------------
USE MaxAttemptsAssumption, JoinAssumption
    DEF None, Caller, Attempts, StopEvents, Handle, CallerPcs, Ops, WorkerPcs,
        Requests, Responses, Socks, Grants, Live, NeverStarted, Stopped, Unstarted,
        Locked, UsingConn, caller, arming, held, object, locals, worker, channel

(* The invariant holds of a new object.                                    *)
LEMMA InitInv == Init => IInv
<1> SUFFICES ASSUME Init PROVE IInv
  OBVIOUS
<1>1. Types
  <2>1. closed \in BOOLEAN
    BY Zenon DEF Init
  <2> QED
    BY <2>1 DEF Init, Types
<1>2. ArmingInv
  BY DEF Init, ArmingInv
<1>3. HandleInv
  BY DEF Init, HandleInv
<1>4. LockInv
  BY DEF Init, LockInv
<1>5. GrantInv
  BY DEF Init, GrantInv
<1>6. StopInv
  BY SMTT(30) DEF Init, StopInv
<1>7. HeldInv
  BY DEF Init, HeldInv
<1>8. SockInv
  BY DEF Init, SockInv
<1> QED
  BY <1>1, <1>2, <1>3, <1>4, <1>5, <1>6, <1>7, <1>8 DEF IInv

(* The server's answers are typed.                                         *)
LEMMA RespondTypes ==
    ASSUME Types, NEW c \in Attempts, NEW requests, NEW response \in Responses,
           NEW state \in Grants, Respond(c, requests, response, state)
    PROVE  Types'
  BY DEF Respond, Types

(* _stop_renew touches the stop events only.                               *)
LEMMA StopRenewArming == ASSUME IInv, StopRenew PROVE ArmingInv'
<1>1. /\ stopSet' \in {stopSet, stopSet \cup {attempt}}
      /\ UNCHANGED <<closed, attempt, stopEvent, wpc, wstop>>
  BY DEF StopRenew, IInv, ArmingInv
<1> QED
  BY <1>1 DEF IInv, Types, ArmingInv

(* A public call may begin, and the last reference may go, at any rest.    *)
LEMMA CallKeepsInv ==
    ASSUME IInv, \/ Drop
                 \/ \E o \in Ops \ {"none", "giveup"} : Call(o)
    PROVE  IInv'
<1> USE DEF IInv, Types, ArmingInv, HandleInv, LockInv, GrantInv, StopInv,
            HeldInv, SockInv
<1>1. CASE Drop
  BY <1>1 DEF Drop
<1>2. ASSUME NEW o \in Ops \ {"none", "giveup"}, Call(o) PROVE IInv'
  BY <1>2 DEF Call
<1> QED
  BY <1>1, <1>2

(* The caller's steps.                                                     *)
LEMMA CallerKeepsInv ==
    ASSUME IInv, CallerStep
    PROVE  IInv'
<1> USE DEF IInv, Types, ArmingInv, HandleInv, LockInv, GrantInv, StopInv,
            HeldInv, SockInv
<1>1. CASE StopRenew
  <2>1. Types'
    <3>1. stopSet' \in {stopSet, stopSet \cup {stopEvent}}
      BY <1>1 DEF StopRenew
    <3>2. stopSet' \in SUBSET StopEvents
      BY <3>1
    <3>3. pc' \in CallerPcs
      BY <1>1 DEF StopRenew, AfterStop
    <3> QED
      BY <1>1, <3>2, <3>3 DEF StopRenew
  <2>2. ArmingInv'
    BY <1>1, StopRenewArming
  <2>3. HandleInv' /\ LockInv' /\ GrantInv' /\ HeldInv' /\ SockInv'
    BY <1>1 DEF StopRenew, AfterStop
  <2>4. StopInv'
    BY <1>1 DEF StopRenew, AfterStop
  <2> QED
    BY <2>1, <2>2, <2>3, <2>4
<1>2. CASE JoinStopped
  BY <1>2 DEF JoinStopped, AfterStop, JoinReturns
<1>3. CASE NothingToRelease
  BY <1>3 DEF NothingToRelease, ReleaseMayLock
<1>4. CASE SendRelease
  BY <1>4 DEF SendRelease, ReleaseMayLock
<1>5. CASE ReleaseReturns
  <2>1. Types'
    BY <1>5, SMTT(30) DEF ReleaseReturns
  <2>2. ArmingInv' /\ HandleInv' /\ LockInv'
    BY <1>5 DEF ReleaseReturns
  <2>3. GrantInv' /\ StopInv' /\ HeldInv' /\ SockInv'
    BY <1>5 DEF ReleaseReturns
  <2> QED
    BY <2>1, <2>2, <2>3
<1>6. CASE CloseAgain
  <2>1. Types' /\ ArmingInv' /\ LockInv' /\ SockInv'
    BY <1>6 DEF CloseAgain, AfterClose, Return
  <2>2. HandleInv' /\ GrantInv'
    BY <1>6 DEF CloseAgain, AfterClose, Return
  <2>3. StopInv' /\ HeldInv'
    BY <1>6 DEF CloseAgain, AfterClose, Return
  <2> QED
    BY <2>1, <2>2, <2>3
<1>7. CASE BeginClose
  <2>1. Types' /\ ArmingInv' /\ LockInv' /\ SockInv'
    BY <1>7 DEF BeginClose
  <2>2. HandleInv' /\ GrantInv' /\ StopInv' /\ HeldInv'
    BY <1>7 DEF BeginClose
  <2> QED
    BY <2>1, <2>2
<1>8. CASE ShutNothing
  BY <1>8 DEF ShutNothing
<1>9. CASE ShutConn
  BY <1>9 DEF ShutConn
<1>10. CASE CloseConn
  BY <1>10 DEF CloseConn, CloseMayLock
<1>11. CASE JoinAndClear
  <2>1. Types' /\ HandleInv'
    BY <1>11, SMTT(30) DEF JoinAndClear, AfterClose, Return, JoinReturns, ClearedLease
  <2>2. ArmingInv' /\ LockInv'
    BY <1>11 DEF JoinAndClear, AfterClose, Return, JoinReturns, ClearedLease
  <2>3. GrantInv' /\ SockInv'
    BY <1>11 DEF JoinAndClear, AfterClose, Return, JoinReturns, ClearedLease
  <2>4. StopInv' /\ HeldInv'
    BY <1>11 DEF JoinAndClear, AfterClose, Return, JoinReturns, ClearedLease
  <2> QED
    BY <2>1, <2>2, <2>3, <2>4
<1>12. CASE Rearm
  <2>1. closed' \in BOOLEAN /\ ~ closed'
    BY <1>12, Zenon DEF Rearm, Rearmed
  <2>2. Types'
    BY <1>12, <2>1 DEF Rearm, FreshStopEvent
  <2>3. ArmingInv' /\ LockInv' /\ StopInv' /\ SockInv'
    BY <1>12, <2>1 DEF Rearm, FreshStopEvent
  <2>4. HandleInv' /\ GrantInv' /\ HeldInv'
    BY <1>12, <2>1 DEF Rearm, FreshStopEvent
  <2> QED
    BY <2>2, <2>3, <2>4
<1>13. CASE OpenFails
  BY <1>13, SMTT(30) DEF OpenFails, Return
<1>14. CASE OpenSucceeds
  <2>1. Types' /\ HandleInv'
    BY <1>14 DEF OpenSucceeds
  <2>2. ArmingInv' /\ LockInv'
    BY <1>14 DEF OpenSucceeds
  <2>3. GrantInv' /\ SockInv'
    BY <1>14 DEF OpenSucceeds
  <2>4. StopInv' /\ HeldInv'
    BY <1>14 DEF OpenSucceeds
  <2> QED
    BY <2>1, <2>2, <2>3, <2>4
<1>15. CASE WaitReturns
  <2>1. Types' /\ ArmingInv' /\ LockInv' /\ SockInv'
    BY <1>15 DEF WaitReturns, Return
  <2>2. HandleInv' /\ GrantInv' /\ StopInv' /\ HeldInv'
    BY <1>15 DEF WaitReturns, Return
  <2> QED
    BY <2>1, <2>2
<1>16. CASE WaitOnConn
  BY <1>16 DEF WaitOnConn
<1>17. CASE SendRequest
  BY <1>17 DEF SendRequest, MuFree
<1>18. CASE CommandBroken
  BY <1>18 DEF CommandBroken, GiveUp, MuFree
<1>19. CASE CommandRefused
  BY <1>19 DEF CommandRefused, GiveUp, Answered
<1>20. CASE CommandQueued
  BY <1>20 DEF CommandQueued, Return, Answered
<1>21. CASE CommandGranted
  <2>1. Types' /\ HandleInv'
    BY <1>21 DEF CommandGranted, GrantedToken, Answered
  <2>2. ArmingInv' /\ LockInv'
    BY <1>21 DEF CommandGranted, GrantedToken, Answered
  <2>3. GrantInv' /\ SockInv'
    BY <1>21 DEF CommandGranted, GrantedToken, Answered
  <2>4. StopInv' /\ HeldInv'
    BY <1>21 DEF CommandGranted, GrantedToken, Answered
  <2> QED
    BY <2>1, <2>2, <2>3, <2>4
<1>22. CASE StartRenew
  BY <1>22, SMTT(30) DEF StartRenew, Return
<1>23. CASE Collect
  BY <1>23 DEF Collect
<1>24. CASE JoinRaises
  <2>1. Types' /\ ArmingInv' /\ LockInv' /\ SockInv'
    BY <1>24 DEF JoinRaises, Return
  <2>2. HandleInv' /\ GrantInv' /\ StopInv' /\ HeldInv'
    BY <1>24 DEF JoinRaises, Return
  <2> QED
    BY <2>1, <2>2
<1>25. CASE MakeThread
  BY <1>25 DEF MakeThread
<1>26. CASE StartFails
  BY <1>26 DEF StartFails, Return
<1> QED
  BY <1>1, <1>2, <1>3, <1>4, <1>5, <1>6, <1>7, <1>8, <1>9, <1>10, <1>11, <1>12,
     <1>13, <1>14, <1>15, <1>16, <1>17, <1>18, <1>19, <1>20, <1>21, <1>22, <1>23,
     <1>24, <1>25, <1>26
  DEF CallerStep

(* The steps of a renew thread.                                            *)
LEMMA WorkerKeepsInv ==
    ASSUME IInv, NEW r \in Attempts, WorkerStep(r)
    PROVE  IInv'
<1> USE DEF IInv, Types, ArmingInv, HandleInv, LockInv, GrantInv, StopInv,
            HeldInv, SockInv, Goto
<1>1. CASE Wake(r)
  <2>1. Types' /\ HandleInv'
    BY <1>1 DEF Wake
  <2>2. ArmingInv'
    BY <1>1 DEF Wake
  <2>3. LockInv' /\ GrantInv' /\ SockInv'
    BY <1>1 DEF Wake
  <2>4. StopInv' /\ HeldInv'
    BY <1>1 DEF Wake
  <2> QED
    BY <2>1, <2>2, <2>3, <2>4
<1>2. CASE TickEnds(r)
  <2>1. Types' /\ HandleInv'
    BY <1>2 DEF TickEnds, TickStops, NothingToRenew
  <2>2. ArmingInv' /\ LockInv'
    BY <1>2 DEF TickEnds, TickStops, NothingToRenew
  <2>3. GrantInv' /\ SockInv'
    BY <1>2 DEF TickEnds, TickStops, NothingToRenew
  <2>4. StopInv' /\ HeldInv'
    BY <1>2 DEF TickEnds, TickStops, NothingToRenew
  <2> QED
    BY <2>1, <2>2, <2>3, <2>4
<1>3. CASE TickLoads(r)
  <2>1. Types' /\ HandleInv'
    BY <1>3 DEF TickLoads, TickStops, NothingToRenew
  <2>2. ArmingInv' /\ LockInv'
    BY <1>3 DEF TickLoads, TickStops, NothingToRenew
  <2>3. GrantInv' /\ SockInv'
    BY <1>3 DEF TickLoads, TickStops, NothingToRenew
  <2>4. StopInv' /\ HeldInv'
    BY <1>3 DEF TickLoads, TickStops, NothingToRenew
  <2> QED
    BY <2>1, <2>2, <2>3, <2>4
<1>4. CASE SendRenew(r)
  <2>1. Types' /\ HandleInv'
    BY <1>4 DEF SendRenew, MuFree
  <2>2. ArmingInv' /\ LockInv'
    BY <1>4 DEF SendRenew, MuFree
  <2>3. GrantInv' /\ SockInv'
    BY <1>4 DEF SendRenew, MuFree
  <2>4. StopInv' /\ HeldInv'
    BY <1>4 DEF SendRenew, MuFree
  <2> QED
    BY <2>1, <2>2, <2>3, <2>4
<1>5. CASE Renewed(r)
  <2>1. Types' /\ HandleInv'
    BY <1>5 DEF Renewed
  <2>2. ArmingInv' /\ LockInv'
    BY <1>5 DEF Renewed
  <2>3. GrantInv' /\ SockInv'
    BY <1>5 DEF Renewed
  <2>4. StopInv' /\ HeldInv'
    BY <1>5 DEF Renewed
  <2> QED
    BY <2>1, <2>2, <2>3, <2>4
<1>6. CASE RenewRefused(r)
  <2>1. Types' /\ HandleInv'
    BY <1>6 DEF RenewRefused
  <2>2. ArmingInv' /\ LockInv'
    BY <1>6 DEF RenewRefused
  <2>3. GrantInv' /\ SockInv'
    BY <1>6 DEF RenewRefused
  <2>4. StopInv' /\ HeldInv'
    BY <1>6 DEF RenewRefused
  <2> QED
    BY <2>1, <2>2, <2>3, <2>4
<1>7. CASE RenewBroken(r)
  <2>1. Types' /\ HandleInv'
    BY <1>7 DEF RenewBroken
  <2>2. ArmingInv' /\ LockInv'
    BY <1>7 DEF RenewBroken
  <2>3. GrantInv' /\ SockInv'
    BY <1>7 DEF RenewBroken
  <2>4. StopInv' /\ HeldInv'
    BY <1>7 DEF RenewBroken
  <2> QED
    BY <2>1, <2>2, <2>3, <2>4
<1>8. CASE CheckFailure(r)
  <2>1. PICK there \in {"quiet", "log"} : Goto(r, there)
    BY <1>8 DEF CheckFailure
  <2>2. wpc[r] = "failed" /\ UNCHANGED <<caller, object, locals, channel, wstop>>
    BY <1>8 DEF CheckFailure
  <2>3. Types' /\ HandleInv'
    BY <2>1, <2>2
  <2>4. ArmingInv' /\ LockInv'
    BY <2>1, <2>2
  <2>5. GrantInv' /\ SockInv'
    BY <2>1, <2>2
  <2>6. StopInv' /\ HeldInv'
    BY <2>1, <2>2
  <2> QED
    BY <2>3, <2>4, <2>5, <2>6
<1>16. CASE LogFailure(r)
  <2>1. Types' /\ HandleInv'
    BY <1>16 DEF LogFailure
  <2>2. ArmingInv' /\ LockInv'
    BY <1>16 DEF LogFailure
  <2>3. GrantInv' /\ SockInv'
    BY <1>16 DEF LogFailure
  <2>4. StopInv' /\ HeldInv'
    BY <1>16 DEF LogFailure
  <2> QED
    BY <2>1, <2>2, <2>3, <2>4
<1>9. CASE CompareConn(r)
  <2>1. Types' /\ HandleInv'
    BY <1>9 DEF CompareConn
  <2>2. ArmingInv' /\ LockInv'
    BY <1>9 DEF CompareConn
  <2>3. GrantInv' /\ SockInv'
    BY <1>9 DEF CompareConn
  <2>4. StopInv' /\ HeldInv'
    BY <1>9 DEF CompareConn
  <2> QED
    BY <2>1, <2>2, <2>3, <2>4
<1>10. CASE LoseConn(r)
  <2>1. Types' /\ HandleInv'
    BY <1>10 DEF LoseConn
  <2>2. ArmingInv' /\ LockInv'
    BY <1>10 DEF LoseConn
  <2>3. GrantInv' /\ SockInv'
    BY <1>10 DEF LoseConn
  <2>4. StopInv' /\ HeldInv'
    BY <1>10 DEF LoseConn
  <2> QED
    BY <2>1, <2>2, <2>3, <2>4
<1>11. CASE LoseToken(r)
  <2>1. Types' /\ HandleInv'
    BY <1>11 DEF LoseToken, LostToken
  <2>2. ArmingInv' /\ LockInv'
    BY <1>11 DEF LoseToken, LostToken
  <2>3. GrantInv' /\ SockInv'
    BY <1>11 DEF LoseToken, LostToken
  <2>4. StopInv' /\ HeldInv'
    BY <1>11 DEF LoseToken, LostToken
  <2> QED
    BY <2>1, <2>2, <2>3, <2>4
<1>12. CASE LoseLease(r)
  <2>1. Types' /\ HandleInv'
    BY <1>12 DEF LoseLease, ForgetLocals, LostSock
  <2>2. ArmingInv' /\ LockInv'
    BY <1>12 DEF LoseLease, ForgetLocals, LostSock
  <2>3. GrantInv' /\ SockInv'
    BY <1>12 DEF LoseLease, ForgetLocals, LostSock
  <2>4. StopInv' /\ HeldInv'
    BY <1>12 DEF LoseLease, ForgetLocals, LostSock
  <2> QED
    BY <2>1, <2>2, <2>3, <2>4
<1>13. CASE LeaseNotUpdated(r)
  <2>1. Types' /\ HandleInv'
    BY <1>13 DEF LeaseNotUpdated, ForgetLocals
  <2>2. \A q \in Attempts : /\ wpc'[q] # "none" <=> wpc[q] # "none"
                            /\ q # r => wpc'[q] = wpc[q] /\ rconn'[q] = rconn[q] /\ rtok'[q] = rtok[q]
    BY <1>13 DEF LeaseNotUpdated, ForgetLocals
  <2>3. UNCHANGED <<caller, object, channel, wstop>> /\ wpc[r] = "ticked" /\ wpc'[r] \in {"dead", "sleep"}
    BY <1>13 DEF LeaseNotUpdated, ForgetLocals
  <2>4. ArmingInv'
    BY <2>2, <2>3
  <2>5. LockInv'
    BY <2>2, <2>3
  <2>6. GrantInv' /\ SockInv'
    BY <2>2, <2>3
  <2>7. StopInv' /\ HeldInv'
    BY <1>13 DEF LeaseNotUpdated, ForgetLocals
  <2> QED
    BY <2>1, <2>4, <2>5, <2>6, <2>7
<1>14. CASE UpdateChecked(r)
  <2>1. Types' /\ HandleInv'
    BY <1>14 DEF UpdateChecked, MayUpdate
  <2>2. ArmingInv' /\ LockInv'
    BY <1>14 DEF UpdateChecked, MayUpdate
  <2>3. GrantInv' /\ SockInv'
    BY <1>14 DEF UpdateChecked, MayUpdate
  <2>4. StopInv' /\ HeldInv'
    BY <1>14 DEF UpdateChecked, MayUpdate
  <2> QED
    BY <2>1, <2>2, <2>3, <2>4
<1>15. CASE UpdateLease(r)
  <2>1. Types' /\ HandleInv'
    BY <1>15 DEF UpdateLease, ForgetLocals
  <2>2. ArmingInv' /\ LockInv'
    BY <1>15 DEF UpdateLease, ForgetLocals
  <2>3. GrantInv' /\ SockInv'
    BY <1>15 DEF UpdateLease, ForgetLocals
  <2>4. StopInv' /\ HeldInv'
    BY <1>15 DEF UpdateLease, ForgetLocals
  <2> QED
    BY <2>1, <2>2, <2>3, <2>4
<1> QED
  BY <1>1, <1>2, <1>3, <1>4, <1>5, <1>6, <1>7, <1>8, <1>9, <1>10, <1>11, <1>12,
     <1>13, <1>14, <1>15, <1>16
  DEF WorkerStep

(* The server's steps.                                                     *)
LEMMA ServerKeepsInv ==
    ASSUME IInv, NEW c \in Attempts, ServerStep(c)
    PROVE  IInv'
<1> USE DEF IInv, Types, ArmingInv, HandleInv, LockInv, GrantInv, StopInv,
            HeldInv, SockInv
<1>1. CASE SrvGrant(c)
  <2>1. CASE Respond(c, {"acquire", "enqueue"}, "granted", "held")
    <3>1. Types'
      BY <2>1, RespondTypes
    <3>2. ArmingInv' /\ HandleInv' /\ LockInv' /\ StopInv' /\ HeldInv' /\ SockInv'
      BY <2>1 DEF Respond
    <3>3. GrantInv'
      BY <2>1 DEF Respond
    <3> QED
      BY <3>1, <3>2, <3>3
  <2>2. CASE grant[c] = "queued" /\ Respond(c, {"wait"}, "granted", "held")
    <3>1. Types'
      BY <2>2, RespondTypes
    <3>2. ArmingInv' /\ HandleInv' /\ LockInv' /\ StopInv' /\ HeldInv' /\ SockInv'
      BY <2>2 DEF Respond
    <3>3. GrantInv'
      BY <2>2 DEF Respond
    <3> QED
      BY <3>1, <3>2, <3>3
  <2> QED
    BY <1>1, <2>1, <2>2 DEF SrvGrant
<1>2. CASE SrvQueue(c)
  BY <1>2 DEF SrvQueue, Respond
<1>3. CASE SrvTimeout(c)
  BY <1>3 DEF SrvTimeout, Respond
<1>4. CASE SrvError(c)
  BY <1>4, SMTT(30) DEF SrvError, Respond
<1>5. CASE SrvRenew(c)
  BY <1>5 DEF SrvRenew, Respond
<1>6. CASE SrvRelease(c)
  BY <1>6, SMTT(30) DEF SrvRelease, Respond
<1>7. CASE SrvExpire(c)
  BY <1>7 DEF SrvExpire
<1>8. CASE SrvDisconnect(c)
  BY <1>8, SMTT(30) DEF SrvDisconnect
<1> QED
  BY <1>1, <1>2, <1>3, <1>4, <1>5, <1>6, <1>7, <1>8
  DEF ServerStep

(* IInv is inductive: the caller, the workers and the server keep it.      *)
LEMMA NextInv == IInv /\ [Next]_vars => IInv'
<1> SUFFICES ASSUME IInv, [Next]_vars PROVE IInv'
  OBVIOUS
<1>1. CASE UNCHANGED vars
  BY <1>1 DEF vars, IInv, Types, ArmingInv, HandleInv, LockInv, GrantInv, StopInv,
              HeldInv, SockInv
<1>2. CASE Next
  BY <1>1, <1>2, CallKeepsInv, CallerKeepsInv, WorkerKeepsInv, ServerKeepsInv
  DEF Next, Over
<1> QED
  BY <1>1, <1>2

(* IInv is an invariant of the program.                                    *)
THEOREM Invariance == Spec => []IInv
  BY InitInv, NextInv, PTL DEF Spec

-----------------------------------------------------------------------------
(* Every variable keeps its type, and nobody sends on a missing connection *)
(* or renews a missing token.                                              *)
THEOREM TypeCorrect == Spec => []TypeOK
<1>1. IInv => TypeOK
  BY DEF IInv, HandleInv, LockInv, TypeOK, InCommand, InRenew, Types
<1> QED
  BY <1>1, Invariance, PTL

(* Between calls, a lock that says it is held has its own worker alive and *)
(* not told to stop, or the thread it names is the one that Thread.start() *)
(* raised for: nothing else leaves a held lock without its worker.         *)
THEOREM HeldStaysRenewed == Spec => []HeldIsRenewed
<1>1. IInv => HeldIsRenewed
  BY DEF IInv, Types, ArmingInv, HandleInv, HeldInv, HeldIsRenewed
<1> QED
  BY <1>1, Invariance, PTL

(* A worker only ever renews the grant it was started for.                 *)
THEOREM WorkersKeepToTheirGrant == Spec => []WorkerOwnGrant
<1>1. IInv => WorkerOwnGrant
  BY DEF IInv, LockInv, WorkerOwnGrant, InRenew
<1> QED
  BY <1>1, Invariance, PTL

(* No attempt leaves its socket open behind it.                            *)
THEOREM NoConnLeaks == Spec => []NoLeakedConn
<1>1. IInv => NoLeakedConn
  BY DEF IInv, LockInv, SockInv, NoLeakedConn
<1> QED
  BY <1>1, Invariance, PTL

-----------------------------------------------------------------------------
(* Only SendRenew puts a renew on the wire.                                *)
LEMMA OnlyWorkersRenew ==
    ASSUME IInv, Next, NEW c \in Attempts, net[c] # "renew", net'[c] = "renew"
    PROVE  \E r \in Attempts : SendRenew(r)
<1>1. net' # net
  OBVIOUS
<1>2. ASSUME NEW d \in Attempts, ServerStep(d) PROVE FALSE
  <2>0. \/ net' = net
        \/ \E response \in Responses \cup {"quiet"} : net' = [net EXCEPT ![d] = response]
    BY <1>2 DEF ServerStep, SrvGrant, SrvQueue, SrvTimeout, SrvError, SrvRenew,
                SrvRelease, SrvExpire, SrvDisconnect, Respond
  <2>1. net'[c] \in {net[c], "quiet"} \cup Responses
    BY <2>0 DEF IInv, Types
  <2> QED
    BY <2>1
<1>3. ASSUME CallerStep PROVE FALSE
  <2>1. CASE SendRequest
    BY <2>1 DEF SendRequest, IInv, Types, HandleInv
  <2>2. CASE SendRelease
    BY <2>2 DEF SendRelease, IInv, Types
  <2>3. CASE ReleaseReturns
    BY <2>3 DEF ReleaseReturns, IInv, Types
  <2>4. CASE CommandRefused \/ CommandQueued \/ CommandGranted
    BY <2>4 DEF CommandRefused, CommandQueued, CommandGranted, Answered, IInv, Types
  <2> QED
    BY <1>1, <1>3, <2>1, <2>2, <2>3, <2>4
    DEF CallerStep, StopRenew, JoinStopped, JoinRaises, NothingToRelease, CloseAgain,
        BeginClose, ShutNothing, ShutConn, CloseConn, JoinAndClear, Rearm, OpenFails,
        OpenSucceeds, WaitReturns, WaitOnConn, CommandBroken, MakeThread, StartRenew,
        StartFails, Collect
<1>4. ASSUME NEW r \in Attempts, WorkerStep(r), ~ SendRenew(r) PROVE FALSE
  <2>1. CASE Renewed(r)
    BY <2>1 DEF Renewed, IInv, Types
  <2>2. CASE RenewRefused(r)
    BY <2>2 DEF RenewRefused, IInv, Types
  <2> QED
    BY <1>1, <1>4, <2>1, <2>2
    DEF WorkerStep, Wake, TickEnds, TickLoads, RenewBroken, CheckFailure, LogFailure,
        CompareConn, LoseConn, LoseToken, LoseLease, LeaseNotUpdated, UpdateChecked, UpdateLease
<1> QED
  BY <1>1, <1>2, <1>3, <1>4 DEF Next, Call, Drop, Over, vars

(* After the release command, no renew: release() has stopped every live   *)
(* worker by then, and holds _io_lock while it sends.                      *)
THEOREM ReleaseComesLast == Spec => ReleaseIsLast
<1>1. ASSUME IInv, [Next]_vars, NEW c \in Attempts, net[c] # "renew", net'[c] = "renew"
      PROVE  ~ (op = "release" /\ pc \notin {"stop", "join", "rel"})
  <2>1. Next
    BY <1>1 DEF vars
  <2>2. PICK r \in Attempts : SendRenew(r)
    BY <1>1, <2>1, OnlyWorkersRenew
  <2> QED
    BY <1>1, <2>2 DEF SendRenew, IInv, StopInv
<1>2. IInv /\ [Next]_vars =>
        [ \A c \in Attempts : net[c] # "renew" /\ net'[c] = "renew" =>
              ~ (op = "release" /\ pc \notin {"stop", "join", "rel"}) ]_vars
  BY <1>1
<1> QED
  BY <1>2, Invariance, PTL DEF Spec, ReleaseIsLast

(* A worker step is the only one that moves a worker, StartRenew apart.    *)
LEMMA OnlyWorkersMove ==
    ASSUME IInv, Next, NEW r \in Attempts, wpc'[r] # wpc[r]
    PROVE  \/ WorkerStep(r)
           \/ wpc[r] = "none" /\ UNCHANGED conn
<1>1. ASSUME NEW c \in Attempts, ServerStep(c) PROVE FALSE
  BY <1>1 DEF ServerStep, SrvGrant, SrvQueue, SrvTimeout, SrvError, SrvRenew,
              SrvRelease, SrvExpire, SrvDisconnect, Respond
<1>2. ASSUME CallerStep PROVE StartRenew
  BY <1>2
  DEF CallerStep, StopRenew, JoinStopped, JoinRaises, NothingToRelease, SendRelease,
      ReleaseReturns, MakeThread, StartFails, CloseAgain, BeginClose, ShutNothing, ShutConn, CloseConn,
      JoinAndClear, Rearm, OpenFails, OpenSucceeds, WaitReturns, WaitOnConn,
      SendRequest, CommandBroken, CommandRefused, CommandQueued, CommandGranted,
      Answered, Collect
<1>3. ASSUME StartRenew PROVE wpc[r] = "none" /\ UNCHANGED conn
  BY <1>3 DEF StartRenew, IInv, Types, GrantInv
<1>4. ASSUME NEW q \in Attempts, WorkerStep(q), q # r PROVE FALSE
  BY <1>4
  DEF WorkerStep, Wake, TickEnds, TickLoads, SendRenew, Renewed, RenewRefused,
      RenewBroken, CheckFailure, LogFailure, CompareConn, LoseConn, LoseToken, LoseLease,
      LeaseNotUpdated, UpdateChecked, UpdateLease, Goto, IInv, Types
<1>5. CASE \E q \in Attempts : WorkerStep(q)
  <2>1. PICK q \in Attempts : WorkerStep(q)
    BY <1>5
  <2>2. q = r
    BY <2>1, <1>4
  <2> QED
    BY <2>1, <2>2
<1>6. CASE CallerStep
  BY <1>2, <1>3, <1>6
<1>7. CASE Drop \/ Over \/ \E o \in Ops \ {"none", "giveup"} : Call(o)
  BY <1>7 DEF Call, Drop, Over, vars
<1> QED
  BY <1>1, <1>5, <1>6, <1>7 DEF Next

(* A renewal that fails after close() has shut its connection down is not  *)
(* reported, and one that fails while no call gives the lock up is: the    *)
(* worker still uses self._conn, whose attempt nobody has told to stop.    *)
THEOREM LossesAreReported == Spec => LossIsReported
<1>1. ASSUME IInv, Next, NEW r \in Attempts, wpc[r] = "failed", wpc'[r] # "failed"
      PROVE  /\ ShutDown(r) => wpc'[r] = "quiet"
             /\ pc \in {"idle", "wait", "dropped"} => wpc'[r] = "log"
  <2>1. WorkerStep(r)
    BY <1>1, OnlyWorkersMove
  <2>2. CheckFailure(r)
    BY <1>1, <2>1
    DEF WorkerStep, Wake, TickEnds, TickLoads, SendRenew, Renewed, RenewRefused,
        RenewBroken, LogFailure, CompareConn, LoseConn, LoseToken, LoseLease,
        LeaseNotUpdated, UpdateChecked, UpdateLease
  <2>3. wpc'[r] = IF LossIsOwnDoing(r) THEN "quiet" ELSE "log"
    <3>1. wpc' = [wpc EXCEPT ![r] = IF LossIsOwnDoing(r) THEN "quiet" ELSE "log"]
      BY <2>2 DEF CheckFailure, Goto
    <3> QED
      BY <3>1, <1>1 DEF IInv, Types
  <2>4. CASE ShutDown(r)
    BY <2>3, <2>4, <1>1 DEF ShutDown, LossIsOwnDoing, IInv, HandleInv
  <2>5. CASE pc \in {"idle", "wait", "dropped"}
    <3>1. conn = r /\ r = attempt /\ wstop[r] = r
      BY <1>1 DEF IInv, LockInv, HandleInv, ArmingInv
    <3>2. attempt \notin stopSet /\ ~ closed
      BY <1>1, <2>5, <3>1 DEF IInv, StopInv, HandleInv
    <3> QED
      BY <2>3, <2>5, <3>1, <3>2 DEF LossIsOwnDoing, ShutDown
  <2> QED
    BY <2>4, <2>5
<1>2. IInv /\ [Next]_vars =>
        [ \A r \in Attempts : wpc[r] = "failed" /\ wpc'[r] # "failed" =>
              /\ ShutDown(r) => wpc'[r] = "quiet"
              /\ pc \in {"idle", "wait", "dropped"} => wpc'[r] = "log" ]_vars
  BY <1>1
<1> QED
  BY <1>2, Invariance, PTL DEF Spec, LossIsReported

(* A worker that outlived its attempt cannot take the new connection away. *)
THEOREM StaleWorkersKeepConn == Spec => StaleWorkerKeepsConn
<1>1. ASSUME IInv, Next, NEW r \in Attempts, r < attempt, wpc'[r] # wpc[r], conn > r
      PROVE  conn' = conn
  <2>1. ASSUME WorkerStep(r) PROVE conn' = conn
    <3>1. CASE LoseConn(r)
      BY <1>1, <3>1 DEF LoseConn, IInv, LockInv
    <3> QED
      BY <2>1, <3>1
      DEF WorkerStep, Wake, TickEnds, TickLoads, SendRenew, Renewed, RenewRefused,
          RenewBroken, CheckFailure, LogFailure, CompareConn, LoseToken, LoseLease,
          LeaseNotUpdated, UpdateChecked, UpdateLease
  <2> QED
    BY <1>1, <2>1, OnlyWorkersMove
<1>2. IInv /\ [Next]_vars =>
        [ \A r \in Attempts :
              r < attempt /\ wpc'[r] # wpc[r] /\ conn > r => conn' = conn ]_vars
  BY <1>1
<1> QED
  BY <1>2, Invariance, PTL DEF Spec, StaleWorkerKeepsConn
=============================================================================
