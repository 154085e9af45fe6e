--------------------------- MODULE AsyncLockProofs ---------------------------
(***************************************************************************)
(* The safety of AsyncLock, for every number of attempts and wherever its  *)
(* calls may be cancelled, and what MCAsyncLock says of an object whose    *)
(* reset was not cut short.                                                *)
(***************************************************************************)
EXTENDS MCAsyncLock, TLAPS

Asking == {"acquire", "enqueue"}
Resting == {"idle", "dropped", "gone"}

(* Where the caller is, and in which call.  A request is always that of    *)
(* the current attempt, which nobody has a grant from yet.                 *)
CallerInv ==
    /\ pc \in Resting <=> op = "none"
    /\ pc \in {"begin", "reset", "open"} => op \in Asking
    /\ pc = "await" => op \in Asking \cup {"wait"}
    /\ pc = "wait" => op = "wait"
    /\ pc \in {"iolock", "relstop", "relsend", "relwait"} => op = "release"
    /\ pc \in {"close", "stopping", "closing"} => op # "wait"
    /\ op \in Asking /\ pc \notin {"open", "await"} => attempt < MaxAttempts
    /\ pc \in {"open", "await"} => attempt # None
    /\ pc = "open" => conn = None /\ wpc[attempt] = "none" /\ ~ closed
    /\ pc = "await" => cur = attempt /\ conn = attempt /\ token = None
    /\ pc = "relwait" => cur # None
    /\ pc \in {"stopping", "closing"} => closed

(* The handles are those of the current attempt, and a closed object has   *)
(* none.  An object with a connection and no token never had its worker.   *)
HandleInv ==
    /\ conn \in {None, attempt}
    /\ token # None => token = conn
    /\ renewTask # None => renewTask = attempt /\ wpc[renewTask] # "none"
    /\ Live(renewTask) => token = renewTask
    /\ conn # None /\ token = None => renewTask = None /\ wpc[attempt] = "none"
    /\ closed => conn = None /\ token = None /\ lease = None /\ renewTask = None
    /\ pc \in {"reset", "relstop", "relsend", "relwait"} => renewTask = None
    /\ pc = "reset" => conn = None \/ token # None

(* A worker nobody has cancelled is the one self._renew_task names, and a  *)
(* worker that uses a connection holds _io_lock and uses its own.          *)
WorkerInv ==
    /\ ioLock = Caller <=> pc \in {"relstop", "relsend", "relwait"}
    /\ \A r \in Attempts :
          /\ wpc[r] # "none" => r <= attempt
          /\ r \in wcancel => wpc[r] # "none"
          /\ Live(r) /\ r \notin wcancel => r = renewTask
          /\ wpc[r] = "renewing" => ioLock = r /\ rconn[r] = r /\ rtok[r] = r

(* A connection that is open is the object's; a grant is told of before    *)
(* the call that asked for it is over, and only enqueue() is queued.       *)
ChannelInv ==
    /\ \A c \in Attempts :
          /\ sock[c] = "open" => c = conn /\ pc # "gone"
          /\ net[c] = "queued" => grant[c] = "queued"
    /\ conn # None /\ token = None /\ pc \notin {"await", "close"} =>
          net[conn] = "quiet" /\ grant[conn] # "held"
    /\ pc = "await" /\ net[cur] \in {"enqueue", "queued"} => op = "enqueue"

IInv == TypeOK /\ CallerInv /\ HandleInv /\ WorkerInv /\ ChannelInv

(* An object whose reset was not cut short has its grant renewed until a   *)
(* call gives it up.                                                       *)
CutInv ==
    ~ cut /\ token # None /\ pc \in {"idle", "begin", "wait", "iolock", "dropped"} =>
        renewTask = token /\ Live(token) /\ token \notin wcancel

-----------------------------------------------------------------------------
(* A set that gains a member of its type keeps the type.                   *)
LEMMA OneMore ==
    ASSUME NEW S, NEW x \in S, NEW old \in SUBSET S, NEW new,
           new = old \/ new = old \cup {x}
    PROVE  new \in SUBSET S
  OBVIOUS

USE MaxAttemptsAssumption, CancelPointsAssumption
    DEF None, Caller, Attempts, Handle, Awaits, Asking, Resting, Requests, Responses,
        Live, caller, held, tasks, object, locals, worker, channel

(* The invariant holds of a new object.                                    *)
LEMMA InitInv == Init => IInv
<1> SUFFICES ASSUME Init PROVE IInv
  OBVIOUS
<1>1. TypeOK
  BY DEF Init, TypeOK
<1>2. CallerInv
  BY DEF Init, CallerInv
<1>3. HandleInv
  BY DEF Init, HandleInv
<1>4. WorkerInv
  BY DEF Init, WorkerInv
<1>5. ChannelInv
  BY DEF Init, ChannelInv
<1> QED
  BY <1>1, <1>2, <1>3, <1>4, <1>5 DEF IInv

(* Closing a transport, and telling a renew task to end, keep the types.   *)
LEMMA ShutIsTyped ==
    ASSUME TypeOK, NEW c \in Handle
    PROVE  Shut(c) \in [Attempts -> {"none", "open", "closed"}]
  BY DEF TypeOK, Shut

(* _cancel_renew leaves the worker's handle and waits for it, or goes on.  *)
LEMMA CancelIsTyped ==
    ASSUME TypeOK, NEW there, NEW next, CancelRenew(there, next)
    PROVE  /\ renewTask' = None /\ wcancel' \in SUBSET Attempts
           /\ pc' \in {there, next} /\ awaited' \in Handle
  BY DEF TypeOK, CancelRenew, CancelTask

(* A public call may begin, and the last reference may go, at any rest.    *)
LEMMA CallKeepsInv ==
    ASSUME IInv, Drop \/ \E o \in {"acquire", "enqueue", "wait", "release", "close"} : Call(o)
    PROVE  IInv'
<1> USE DEF IInv, TypeOK, CallerInv, HandleInv, WorkerInv, ChannelInv
<1>1. CASE Drop
  BY <1>1 DEF Drop
<1>2. ASSUME NEW o \in {"acquire", "enqueue", "wait", "release", "close"}, Call(o)
      PROVE  IInv'
  BY <1>2 DEF Call, Entry
<1> QED
  BY <1>1, <1>2

(* The caller's steps.                                                     *)
LEMMA CallerKeepsInv ==
    ASSUME IInv, CallerStep
    PROVE  IInv'
<1> USE DEF IInv, TypeOK, CallerInv, HandleInv, WorkerInv, ChannelInv
<1>1. CASE BeginReset
  <2>1. TypeOK'
    <3>1. /\ renewTask' = None /\ wcancel' \in SUBSET Attempts
          /\ pc' \in {"reset", "close"} /\ awaited' \in Handle
      BY <1>1, CancelIsTyped DEF BeginReset
    <3> QED
      BY <1>1, <3>1 DEF BeginReset
  <2>2. CallerInv'
    BY <1>1 DEF BeginReset, CancelRenew, CancelTask
  <2>3. HandleInv'
    BY <1>1 DEF BeginReset, CancelRenew, CancelTask
  <2>4. WorkerInv'
    BY <1>1 DEF BeginReset, CancelRenew, CancelTask
  <2>5. ChannelInv'
    BY <1>1 DEF BeginReset, CancelRenew, CancelTask
  <2> QED
    BY <2>1, <2>2, <2>3, <2>4, <2>5
<1>2. CASE ResetStopped
  BY <1>2 DEF ResetStopped, WorkerAwaited
<1>3. CASE CloseUnlocked
  <2>1. TypeOK'
    <3>1. sock' \in [Attempts -> {"none", "open", "closed"}]
      BY <1>3, ShutIsTyped DEF CloseUnlocked, DetachedSock
    <3>2. /\ renewTask' = None /\ wcancel' \in SUBSET Attempts
          /\ pc' \in {"stopping", "closing"} /\ awaited' \in Handle
      BY <1>3, CancelIsTyped DEF CloseUnlocked
    <3>3. closed' \in BOOLEAN
      BY <1>3, Zenon DEF CloseUnlocked
    <3> QED
      BY <1>3, <3>1, <3>2, <3>3 DEF CloseUnlocked, DetachConn, DetachedSock
  <2>2. CallerInv'
    BY <1>3 DEF CloseUnlocked, DetachConn, DetachedSock, Shut, CancelRenew, CancelTask
  <2>3. HandleInv'
    BY <1>3 DEF CloseUnlocked, DetachConn, DetachedSock, Shut, CancelRenew, CancelTask
  <2>4. WorkerInv'
    BY <1>3 DEF CloseUnlocked, DetachConn, DetachedSock, Shut, CancelRenew, CancelTask
  <2>5. ChannelInv'
    BY <1>3 DEF CloseUnlocked, DetachConn, DetachedSock, Shut, CancelRenew, CancelTask
  <2> QED
    BY <2>1, <2>2, <2>3, <2>4, <2>5
<1>4. CASE CloseStopped
  BY <1>4 DEF CloseStopped, WorkerAwaited
<1>5. CASE Closed
  BY <1>5 DEF Closed, Shut, Return
<1>6. CASE Rearm
  <2>1. TypeOK'
    <3>1. sock' \in [Attempts -> {"none", "open", "closed"}]
      BY <1>6, ShutIsTyped DEF Rearm
    <3>2. closed' \in BOOLEAN
      BY <1>6, Zenon DEF Rearm
    <3> QED
      BY <1>6, <3>1, <3>2 DEF Rearm
  <2>2. CallerInv'
    BY <1>6 DEF Rearm, Shut
  <2>3. HandleInv'
    BY <1>6 DEF Rearm, Shut
  <2>4. WorkerInv'
    BY <1>6 DEF Rearm, Shut
  <2>5. ChannelInv'
    BY <1>6 DEF Rearm, Shut
  <2> QED
    BY <2>1, <2>2, <2>3, <2>4, <2>5
<1>7. CASE OpenFails
  BY <1>7 DEF OpenFails, Return
<1>8. CASE OpenSucceeds
  BY <1>8 DEF OpenSucceeds
<1>9. CASE WaitReturns
  BY <1>9 DEF WaitReturns, Return
<1>10. CASE WaitOnConn
  BY <1>10 DEF WaitOnConn, Send
<1>11. CASE CommandRefused
  BY <1>11 DEF CommandRefused, Answered, GiveUp
<1>12. CASE CommandBroken
  BY <1>12 DEF CommandBroken, Shut, GiveUp
<1>13. CASE CommandQueued
  BY <1>13 DEF CommandQueued, Answered, Return
<1>14. CASE CommandGranted
  BY <1>14 DEF CommandGranted, Answered, GrantedToken, Return
<1>15. CASE ReleaseLocks
  <2>1. TypeOK'
    <3>1. /\ renewTask' = None /\ wcancel' \in SUBSET Attempts
          /\ pc' \in {"relstop", "relsend"} /\ awaited' \in Handle
      BY <1>15, CancelIsTyped DEF ReleaseLocks
    <3> QED
      BY <1>15, <3>1 DEF ReleaseLocks
  <2>2. CallerInv'
    BY <1>15 DEF ReleaseLocks, CancelRenew, CancelTask
  <2>3. HandleInv'
    BY <1>15 DEF ReleaseLocks, CancelRenew, CancelTask
  <2>4. WorkerInv'
    BY <1>15 DEF ReleaseLocks, CancelRenew, CancelTask
  <2>5. ChannelInv'
    BY <1>15 DEF ReleaseLocks, CancelRenew, CancelTask
  <2> QED
    BY <2>1, <2>2, <2>3, <2>4, <2>5
<1>16. CASE ReleaseStopped
  BY <1>16 DEF ReleaseStopped, WorkerAwaited
<1>17. CASE NothingToRelease
  BY <1>17 DEF NothingToRelease
<1>18. CASE SendRelease
  <2>1. TypeOK' /\ CallerInv'
    BY <1>18 DEF SendRelease, Send
  <2>2. HandleInv' /\ WorkerInv'
    BY <1>18 DEF SendRelease, Send
  <2>3. ChannelInv'
    BY <1>18 DEF SendRelease, Send
  <2> QED
    BY <2>1, <2>2, <2>3
<1>19. CASE ReleaseReturns
  <2>1. TypeOK'
    <3>1. sock' \in [Attempts -> {"none", "open", "closed"}]
      BY <1>19, ShutIsTyped DEF ReleaseReturns
    <3>2. net' \in [Attempts -> {"quiet"} \cup Requests \cup Responses]
      <4>1. net' = net \/ net' = [net EXCEPT ![cur] = "quiet"]
        BY <1>19 DEF ReleaseReturns
      <4> QED
        BY <4>1
    <3>3. /\ pc' = "close" /\ ioLock' = None
          /\ UNCHANGED <<op, cur, awaited, closed, held, attempt, tasks, worker, grant>>
      BY <1>19 DEF ReleaseReturns
    <3> QED
      BY <3>1, <3>2, <3>3
  <2>2. CallerInv'
    BY <1>19 DEF ReleaseReturns, Shut
  <2>3. HandleInv'
    BY <1>19 DEF ReleaseReturns, Shut
  <2>4. WorkerInv'
    BY <1>19 DEF ReleaseReturns, Shut
  <2>5. ChannelInv'
    BY <1>19 DEF ReleaseReturns, Shut
  <2> QED
    BY <2>1, <2>2, <2>3, <2>4, <2>5
<1>20. CASE Collect
  BY <1>20 DEF Collect, Shut
<1> QED
  BY <1>1, <1>2, <1>3, <1>4, <1>5, <1>6, <1>7, <1>8, <1>9, <1>10, <1>11, <1>12, <1>13, <1>14, <1>15, <1>16, <1>17, <1>18, <1>19, <1>20 DEF CallerStep

(* A cancellation of the caller, at whichever await.                       *)
LEMMA CancelKeepsInv ==
    ASSUME IInv, Cancel
    PROVE  IInv'
<1> USE DEF IInv, TypeOK, CallerInv, HandleInv, WorkerInv, ChannelInv
<1>1. CASE CancelEnds
  BY <1>1 DEF CancelEnds, Return
<1>2. CASE CancelRelease
  BY <1>2 DEF CancelRelease, LeftLock, Shut
<1>3. CASE CancelOpen \/ CancelCommand
  <2>1. CallerStep
    BY <1>3 DEF CancelOpen, CancelCommand, CallerStep
  <2> QED
    BY <2>1, CallerKeepsInv
<1> QED
  BY <1>1, <1>2, <1>3 DEF Cancel

(* The steps of a renew task.                                              *)
LEMMA WorkerKeepsInv ==
    ASSUME IInv, NEW r \in Attempts, WorkerStep(r)
    PROVE  IInv'
<1> USE DEF IInv, TypeOK, CallerInv, HandleInv, WorkerInv, ChannelInv, CallerAwaits, Runs, Goto
<1>1. CASE WaitForIo(r)
  BY <1>1 DEF WaitForIo
<1>2. CASE TickEnds(r)
  BY <1>2 DEF TickEnds
<1>3. CASE TickSends(r)
  BY <1>3 DEF TickSends, MayLockIo, NothingToRenew, Send
<1>4. CASE Renewed(r)
  BY <1>4 DEF Renewed
<1>5. CASE RenewFails(r)
  <2>1. TypeOK'
    <3>1. sock' \in [Attempts -> {"none", "open", "closed"}]
      BY <1>5, ShutIsTyped DEF RenewFails
    <3>2. net' \in [Attempts -> {"quiet"} \cup Requests \cup Responses]
      BY <1>5 DEF RenewFails
    <3>3. {conn', token', lease'} \subseteq Handle /\ lost' \in SUBSET Attempts
      <4>1. \/ UNCHANGED <<conn, token, lease>>
            \/ conn' = None /\ token' = None /\ lease' = None
        BY <1>5 DEF RenewFails, GiveUpHeld
      <4>2. lost' = lost \/ lost' = lost \cup {r}
        BY <1>5 DEF RenewFails
      <4>3. {conn', token', lease'} \subseteq Handle
        BY <4>1
      <4>4. lost' \in SUBSET Attempts
        <5>1. lost \in SUBSET Attempts
          OBVIOUS
        <5>2. r \in Attempts
          OBVIOUS
        <5> HIDE DEF Attempts
        <5> QED
          BY <4>2, <5>1, <5>2, OneMore, Zenon
      <4> QED
        BY <4>3, <4>4
    <3>4. wpc' = [wpc EXCEPT ![r] = "dead"] /\ ioLock' = None
      BY <1>5 DEF RenewFails
    <3>5. UNCHANGED <<pc, op, cur, awaited, closed, attempt, renewTask, wcancel, rconn, rtok, grant>>
      BY <1>5 DEF RenewFails
    <3> QED
      BY <3>1, <3>2, <3>3, <3>4, <3>5
  <2>2. CallerInv'
    BY <1>5 DEF RenewFails, GiveUpHeld, Shut
  <2>3. HandleInv'
    BY <1>5 DEF RenewFails, GiveUpHeld, Shut
  <2>4. WorkerInv'
    BY <1>5 DEF RenewFails, GiveUpHeld, Shut
  <2>5. ChannelInv'
    BY <1>5 DEF RenewFails, GiveUpHeld, Shut
  <2> QED
    BY <2>1, <2>2, <2>3, <2>4, <2>5
<1>6. CASE CancelledWorker(r)
  BY <1>6 DEF CancelledWorker, LossOfCancelled, Shut
<1> QED
  BY <1>1, <1>2, <1>3, <1>4, <1>5, <1>6 DEF WorkerStep

(* What the server may answer: only enqueue() is queued, and with a place. *)
LEMMA AnswersAreTyped ==
    \A g \in {"none", "queued", "held", "gone"} : \A answer \in Outcomes(g) :
        /\ answer[1] \in Requests /\ answer[2] \in Responses
        /\ answer[3] \in {"none", "queued", "held", "gone"}
        /\ answer[2] = "queued" => answer[1] = "enqueue" /\ answer[3] = "queued"
  BY DEF Outcomes

(* The steps of the server.                                                *)
LEMMA ServerKeepsInv ==
    ASSUME IInv, NEW c \in Attempts, ServerStep(c)
    PROVE  IInv'
<1> USE DEF IInv, TypeOK, CallerInv, HandleInv, WorkerInv, ChannelInv
<1>1. CASE SrvAnswers(c)
  <2>1. PICK answer \in Outcomes(grant[c]) :
           /\ net[c] = answer[1]
           /\ net' = [net EXCEPT ![c] = answer[2]]
           /\ grant' = [grant EXCEPT ![c] = answer[3]]
    BY <1>1 DEF SrvAnswers
  <2>0. grant[c] \in {"none", "queued", "held", "gone"}
    OBVIOUS
  <2>2. /\ answer[1] \in Requests /\ answer[2] \in Responses
        /\ answer[3] \in {"none", "queued", "held", "gone"}
        /\ answer[2] = "queued" => answer[1] = "enqueue" /\ answer[3] = "queued"
    BY <2>0, AnswersAreTyped, Zenon
  <2>3. UNCHANGED <<caller, object, worker, sock>>
    BY <1>1 DEF SrvAnswers
  <2>4. TypeOK'
    BY <2>1, <2>2, <2>3
  <2>5. CallerInv' /\ HandleInv' /\ WorkerInv'
    BY <2>1, <2>2, <2>3
  <2>6. ChannelInv'
    BY <2>1, <2>2, <2>3
  <2> QED
    BY <2>4, <2>5, <2>6
<1>2. CASE SrvExpires(c)
  BY <1>2 DEF SrvExpires
<1>3. CASE SrvDisconnects(c)
  BY <1>3 DEF SrvDisconnects
<1> QED
  BY <1>1, <1>2, <1>3 DEF ServerStep

(* Every step keeps the invariant.                                         *)
LEMMA NextInv == IInv /\ [Next]_vars => IInv'
<1> SUFFICES ASSUME IInv, [Next]_vars PROVE IInv'
  OBVIOUS
<1>1. CASE Over \/ UNCHANGED vars
  <2>1. UNCHANGED vars
    BY <1>1 DEF Over
  <2> QED
    BY <2>1 DEF vars, IInv, TypeOK, CallerInv, HandleInv, WorkerInv, ChannelInv
<1> QED
  BY <1>1, CallKeepsInv, CallerKeepsInv, CancelKeepsInv, WorkerKeepsInv, ServerKeepsInv
     DEF Next

(* Any number of attempts, cancelled wherever they can be, leave the       *)
(* object, its renew tasks and its connections in agreement.               *)
THEOREM Invariance == Spec => []IInv
<1>1. Init => IInv
  BY InitInv
<1>2. IInv /\ [Next]_vars => IInv'
  BY NextInv
<1> QED
  BY <1>1, <1>2, PTL DEF Spec

(* Every variable keeps its type, and no command is sent on a connection   *)
(* that has one under way.                                                 *)
THEOREM TypeCorrect == Spec => []TypeOK
<1>1. IInv => TypeOK
  BY DEF IInv
<1> QED
  BY <1>1, Invariance, PTL

(* No renew task renews another attempt's grant, and no two that have not  *)
(* been cancelled are alive (_cancel_renew, _safe_renew_once).             *)
THEOREM WorkersKeepToTheirGrant == Spec => []WorkerOwnGrant
<1>1. IInv => WorkerOwnGrant
  BY DEF IInv, WorkerInv, WorkerOwnGrant
<1> QED
  BY <1>1, Invariance, PTL

(* Whatever call closed the object, and wherever it was cancelled, nothing *)
(* of it is left between calls (_close_unlocked).                          *)
THEOREM ClosedLeavesNothing == Spec => []ClosedIsClean
<1>1. IInv => ClosedIsClean
  BY DEF IInv, TypeOK, HandleInv, WorkerInv, ChannelInv, ClosedIsClean
<1> QED
  BY <1>1, Invariance, PTL

(* Between calls only the object's own transport is open, and none is once *)
(* it is collected (__del__).                                              *)
THEOREM NoConnLeaks == Spec => []NoLeakedConn
<1>1. IInv => NoLeakedConn
  BY DEF IInv, ChannelInv, NoLeakedConn
<1> QED
  BY <1>1, Invariance, PTL

(* Between calls the object knows of every grant the server still holds on *)
(* its open transport (acquire(), enqueue(), wait(): close on any failure).*)
THEOREM NoGrantForgotten == Spec => []NoForgottenGrant
<1>1. IInv => NoForgottenGrant
  BY DEF IInv, TypeOK, HandleInv, ChannelInv, NoForgottenGrant
<1> QED
  BY <1>1, Invariance, PTL

(* Only the renew task that was about to renew the object's own grant logs *)
(* it as lost.                                                             *)
LEMMA LostStep ==
    ASSUME IInv, [Next]_vars, NEW r \in lost' \ lost
    PROVE  token = r /\ conn = r /\ r \notin wcancel /\ ~ closed
<1>1. CASE CallerStep
  BY <1>1 DEF CallerStep, BeginReset, ResetStopped, WorkerAwaited, CloseUnlocked, CloseStopped,
       Closed, Rearm, OpenFails, OpenSucceeds, WaitReturns, WaitOnConn, CommandRefused,
       CommandBroken, CommandQueued, CommandGranted, ReleaseLocks, ReleaseStopped,
       NothingToRelease, SendRelease, ReleaseReturns, Collect
<1>2. CASE Cancel
  BY <1>2 DEF Cancel, CancelEnds, CancelOpen, OpenFails, CancelCommand, CommandBroken, CancelRelease
<1>3. CASE Drop \/ Over \/ UNCHANGED vars \/ \E o \in {"acquire", "enqueue", "wait", "release", "close"} : Call(o)
  BY <1>3 DEF Drop, Over, vars, Call
<1>4. ASSUME NEW c \in Attempts, ServerStep(c) PROVE lost' = lost
  BY <1>4 DEF ServerStep, SrvAnswers, SrvExpires, SrvDisconnects
<1>5. ASSUME NEW w \in Attempts, WorkerStep(w), ~ RenewFails(w) PROVE lost' = lost
  BY <1>5 DEF WorkerStep, WaitForIo, TickEnds, TickSends, Renewed, CancelledWorker, LossOfCancelled
<1>6. ASSUME NEW w \in Attempts, RenewFails(w)
      PROVE  token = r /\ conn = r /\ r \notin wcancel /\ ~ closed
  <2>1. r = w /\ ~ closed
    BY <1>6 DEF RenewFails
  <2>2. wpc[w] = "renewing" /\ w \notin wcancel
    BY <1>6 DEF RenewFails, Runs
  <2> QED
    BY <2>1, <2>2 DEF IInv, WorkerInv, HandleInv
<1> QED
  BY <1>1, <1>2, <1>3, <1>4, <1>5, <1>6 DEF Next

(* A lock is logged as lost only if it was: the object still had it, and   *)
(* nobody was stopping its worker (`except Exception').                    *)
THEOREM LossesAreGenuine == Spec => LossIsGenuine
<1>1. IInv /\ [Next]_vars =>
         [\A r \in lost' \ lost : token = r /\ conn = r /\ r \notin wcancel /\ ~ closed]_vars
  BY LostStep
<1> QED
  BY <1>1, Invariance, PTL DEF Spec, LossIsGenuine

(* A renew task that wakes up and has not been cancelled still has what it *)
(* renews.                                                                 *)
NeverInVain ==
    \A r \in Attempts : Live(r) /\ r \notin wcancel => ~ NothingToRenew

(* The early returns of _renew_tick (closed) and of _safe_renew_once (no   *)
(* connection, or no token) are never taken: whoever brings that about     *)
(* cancels the task in the same step, and a task that finds its grant lost *)
(* ends by itself.                                                         *)
THEOREM RenewsSomething == Spec => []NeverInVain
<1>1. IInv => NeverInVain
  BY DEF IInv, TypeOK, HandleInv, WorkerInv, NeverInVain, NothingToRenew
<1> QED
  BY <1>1, Invariance, PTL

-----------------------------------------------------------------------------
(* An object whose reset was not cut short: MCAsyncLock.                   *)

(* MCAsyncLock only watches.                                               *)
LEMMA Watching == MCSpec => Spec
<1>1. [MCNext]_MCVars => [Next]_vars
  BY DEF MCNext, MCVars
<1>2. MCInit => Init
  BY DEF MCInit
<1> QED
  BY <1>1, <1>2, PTL DEF MCSpec, Spec

(* A token that is set stays with its renew task until a call takes both.  *)
LEMMA CutStep == IInv /\ CutInv /\ [MCNext]_MCVars => CutInv'
<1> SUFFICES ASSUME IInv, CutInv, [MCNext]_MCVars, ~ cut', token' # None,
                    pc' \in {"idle", "begin", "wait", "iolock", "dropped"}
             PROVE  (renewTask = token /\ Live(token) /\ token \notin wcancel)'
  BY DEF CutInv
<1>1. CASE UNCHANGED MCVars
  BY <1>1 DEF MCVars, vars, CutInv
<1>2. CASE MCNext
  <2>1. ~ cut /\ ~ (pc = "reset" /\ pc' = "idle") /\ Next
    BY <1>2 DEF MCNext
  <2> USE <2>1 DEF CutInv, IInv, TypeOK, CallerInv, HandleInv, WorkerInv
  <2>2. CASE CallerStep
    <3>1. ASSUME CommandGranted
          PROVE  (renewTask = token /\ Live(token) /\ token \notin wcancel)'
      <4>1. attempt \in Attempts /\ attempt \notin wcancel
        BY <3>1 DEF CommandGranted, Answered
      <4>2. token' = attempt /\ renewTask' = attempt /\ wcancel' = wcancel
        BY <3>1 DEF CommandGranted, GrantedToken, Answered
      <4>3. wpc'[attempt] = "sleep"
        BY <3>1, <4>1 DEF CommandGranted
      <4> QED
        BY <4>1, <4>2, <4>3
    <3>2. ~ (BeginReset \/ ResetStopped \/ CloseUnlocked \/ CloseStopped \/ Rearm \/ OpenSucceeds
                \/ WaitOnConn \/ CommandRefused \/ CommandBroken \/ ReleaseLocks \/ ReleaseStopped
                \/ NothingToRelease \/ SendRelease \/ ReleaseReturns \/ Collect)
      BY DEF BeginReset, CancelRenew, ResetStopped, WorkerAwaited, CloseUnlocked,
           CloseStopped, Rearm, OpenSucceeds, WaitOnConn, CommandRefused, CommandBroken,
           ReleaseLocks, ReleaseStopped, NothingToRelease, SendRelease, ReleaseReturns,
           Collect, GiveUp
    <3>3. ~ (Closed \/ OpenFails \/ CommandQueued)
      BY DEF Closed, OpenFails, CommandQueued, Answered
    <3>4. ASSUME WaitReturns
          PROVE  (renewTask = token /\ Live(token) /\ token \notin wcancel)'
      BY <3>4 DEF WaitReturns, Return
    <3> QED
      BY <2>2, <3>1, <3>2, <3>3, <3>4 DEF CallerStep
  <2>3. CASE Cancel
    BY <2>3 DEF Cancel, CancelEnds, CancelOpen, OpenFails, CancelCommand, CommandBroken,
         CancelRelease, Return, GiveUp
  <2>4. CASE Drop \/ Over \/ \E o \in {"acquire", "enqueue", "wait", "release", "close"} : Call(o)
    BY <2>4 DEF Drop, Over, vars, Call, Entry
  <2>5. ASSUME NEW c \in Attempts, ServerStep(c)
        PROVE  (renewTask = token /\ Live(token) /\ token \notin wcancel)'
    BY <2>5 DEF ServerStep, SrvAnswers, SrvExpires, SrvDisconnects
  <2>6. ASSUME NEW w \in Attempts, WorkerStep(w)
        PROVE  (renewTask = token /\ Live(token) /\ token \notin wcancel)'
    BY <2>6 DEF WorkerStep, WaitForIo, TickEnds, TickSends, Renewed, RenewFails, GiveUpHeld,
         CancelledWorker, Runs, Goto, NothingToRenew
  <2> QED
    BY <2>2, <2>3, <2>4, <2>5, <2>6 DEF Next
<1> QED
  BY <1>1, <1>2

(* Whatever else is cancelled, a held lock is renewed ("Once a lock is     *)
(* held, an asyncio.Task sends renew requests").                           *)
THEOREM HeldStaysRenewed == MCSpec => []HeldIsRenewedUnlessCut
<1>1. MCInit => CutInv
  BY DEF MCInit, Init, CutInv
<1>2. IInv /\ CutInv /\ [MCNext]_MCVars => CutInv'
  BY CutStep
<1>3. CutInv => HeldIsRenewedUnlessCut
  BY DEF CutInv, HeldIsRenewedUnlessCut, HeldIsRenewed
<1> QED
  BY <1>1, <1>2, <1>3, Watching, Invariance, PTL DEF MCSpec

-----------------------------------------------------------------------------
(* The refinement: what the object has, and whether its call has begun an  *)
(* attempt, as LockHandle sees them.                                       *)
Has == IF token # None THEN "held" ELSE IF conn # None THEN "connected" ELSE "free"
Fresh == op \in Asking /\ pc \in {"open", "await"}

(* What a step leaves alone, LockHandle does not see.                      *)
LEMMA Unseen ==
    ASSUME UNCHANGED <<op, attempt>>, Has' = Has, Fresh' <=> Fresh
    PROVE  UNCHANGED Promise!hvars
<1>1. UNCHANGED <<op, Has, attempt, Fresh>>
  BY Zenon DEF Fresh
<1> QED
  BY <1>1 DEF Promise!hvars, Has, Fresh

(* A call that returns.                                                    *)
LEMMA Returning ==
    ASSUME op \in {"acquire", "enqueue", "wait", "release", "close", "giveup"},
           op' = "none", attempt' = attempt, ~ Fresh',
           \/ Has' = "free"
           \/ Has' = Has /\ Has = "held" /\ op = "wait"
           \/ Has' = Has /\ Has = "connected" /\ op = "enqueue" /\ Fresh
           \/ Has' = "held" /\ Has = "connected" /\ (Fresh \/ op = "wait")
    PROVE  Promise!Finish
<1>1. \/ Has' \in {Has, "free"}
      \/ Has = "connected" /\ op \in Asking \cup {"wait"} /\ Has' = "held"
  BY DEF Fresh, Has
<1>2. Promise!Changes
  BY <1>1 DEF Promise!Changes, Promise!Asking, Has
<1>3. Has' \in Promise!Leaves(op)
  BY DEF Promise!Leaves, Fresh, Has
<1>4. Fresh' = FALSE
  BY Zenon DEF Fresh
<1> QED
  BY <1>2, <1>3, <1>4 DEF Promise!Finish, Has, Fresh

(* The caller's steps, as LockHandle sees them.                            *)
LEMMA CallerRefines ==
    ASSUME IInv, CallerStep
    PROVE  [Promise!HNext]_(Promise!hvars)
<1> USE DEF IInv, TypeOK, CallerInv, HandleInv
<1>1. ASSUME \/ BeginReset \/ ResetStopped \/ CloseStopped \/ WaitOnConn \/ ReleaseLocks
             \/ ReleaseStopped \/ NothingToRelease \/ SendRelease \/ ReleaseReturns \/ Collect
      PROVE  UNCHANGED Promise!hvars
  <2>1. UNCHANGED <<op, attempt, conn, token>>
    BY <1>1 DEF BeginReset, CancelRenew, ResetStopped, CloseStopped, WorkerAwaited, WaitOnConn,
         ReleaseLocks, ReleaseStopped, NothingToRelease, SendRelease, ReleaseReturns, Collect
  <2>2. Fresh' <=> Fresh
    BY <1>1 DEF Fresh, BeginReset, CancelRenew, ResetStopped, CloseStopped, WorkerAwaited,
         WaitOnConn, ReleaseLocks, ReleaseStopped, NothingToRelease, SendRelease,
         ReleaseReturns, Collect
  <2>3. Has' = Has
    BY <2>1 DEF Has
  <2> QED
    BY <2>1, <2>2, <2>3, Unseen
<1>2. ASSUME CloseUnlocked PROVE Promise!Proceed
  <2>1. op # "none" /\ op' = op /\ attempt' = attempt /\ Has' = "free"
    BY <1>2 DEF CloseUnlocked, DetachConn, Has
  <2>2. ~ Fresh /\ ~ Fresh'
    BY <1>2 DEF CloseUnlocked, CancelRenew, Fresh
  <2>3. Fresh' = Fresh
    BY <2>2, Zenon DEF Fresh
  <2>4. Promise!Changes
    BY <2>1 DEF Promise!Changes, Has
  <2> QED
    BY <2>1, <2>3, <2>4 DEF Promise!Proceed, Fresh
<1>3. ASSUME Rearm PROVE Promise!BeginAttempt
  <2>1. op \in Asking /\ op' = op /\ attempt' = attempt + 1 /\ Has = "free" /\ Has' = Has
    BY <1>3 DEF Rearm, Has
  <2>2. ~ Fresh /\ Fresh'
    BY <1>3 DEF Rearm, Fresh
  <2>3. Fresh' = TRUE
    BY <2>2, Zenon DEF Fresh
  <2> QED
    BY <2>1, <2>2, <2>3 DEF Promise!BeginAttempt, Promise!Asking, Has, Fresh
<1>4. ASSUME OpenSucceeds PROVE Promise!Connect
  <2>1. op' = op /\ attempt' = attempt /\ Has = "free" /\ Has' = "connected"
    BY <1>4 DEF OpenSucceeds, Has
  <2>2. Fresh /\ Fresh'
    BY <1>4 DEF OpenSucceeds, Fresh
  <2>3. Fresh' = Fresh
    BY <2>2, Zenon DEF Fresh
  <2> QED
    BY <2>1, <2>2, <2>3 DEF Promise!Connect, Has, Fresh
<1>5. ASSUME CommandRefused \/ CommandBroken PROVE Promise!Fail
  <2>1. op \in Asking \cup {"wait"} /\ op' = "giveup" /\ attempt' = attempt /\ Has' = Has
    BY <1>5 DEF CommandRefused, CommandBroken, Answered, GiveUp, Has
  <2>2. Fresh' = FALSE
    BY <2>1, Zenon DEF Fresh, Asking
  <2>3. Promise!Changes
    BY <2>1 DEF Promise!Changes, Has
  <2> QED
    BY <2>1, <2>2, <2>3 DEF Promise!Fail, Promise!Calls, Promise!Asking, Has, Fresh
<1>6. ASSUME Closed \/ OpenFails \/ WaitReturns \/ CommandQueued \/ CommandGranted
      PROVE  Promise!Finish
  <2>1. /\ op \in {"acquire", "enqueue", "wait", "release", "close", "giveup"}
        /\ op' = "none" /\ attempt' = attempt
    BY <1>6 DEF Closed, OpenFails, WaitReturns, CommandQueued, CommandGranted, Answered, Return
  <2>2. ~ Fresh'
    BY <2>1 DEF Fresh
  <2>3. CASE Closed \/ OpenFails
    <3>1. Has' = "free"
      BY <2>3 DEF Closed, OpenFails, Has
    <3> QED
      BY <2>1, <2>2, <3>1, Returning
  <2>4. CASE WaitReturns
    <3>1. op = "wait" /\ Has' = Has /\ Has \in {"free", "held"}
      BY <2>4 DEF WaitReturns, Has
    <3> QED
      BY <2>1, <2>2, <3>1, Returning
  <2>5. CASE CommandQueued
    <3>1. op = "enqueue" /\ Fresh /\ Has' = Has /\ Has = "connected"
      BY <2>5 DEF CommandQueued, Answered, Has, Fresh, ChannelInv
    <3> QED
      BY <2>1, <2>2, <3>1, Returning
  <2>6. CASE CommandGranted
    <3>1. (Fresh \/ op = "wait") /\ Has' = "held" /\ Has = "connected"
      BY <2>6 DEF CommandGranted, Answered, GrantedToken, Has, Fresh
    <3> QED
      BY <2>1, <2>2, <3>1, Returning
  <2> QED
    BY <1>6, <2>3, <2>4, <2>5, <2>6
<1> QED
  BY <1>1, <1>2, <1>3, <1>4, <1>5, <1>6 DEF CallerStep, Promise!HNext

(* A renew task takes a grant away only when it is lost, and the server    *)
(* takes nothing from the object.                                          *)
LEMMA WorkerRefines ==
    ASSUME IInv, NEW r \in Attempts, WorkerStep(r) \/ ServerStep(r)
    PROVE  [Promise!HNext]_(Promise!hvars)
<1>1. UNCHANGED <<pc, op, attempt>>
  BY DEF WorkerStep, WaitForIo, TickEnds, TickSends, Renewed, RenewFails, CancelledWorker,
       ServerStep, SrvAnswers, SrvExpires, SrvDisconnects
<1>2. Fresh' = Fresh
  BY <1>1 DEF Fresh
<1>3. CASE UNCHANGED <<conn, token>>
  BY <1>1, <1>2, <1>3, Unseen DEF Has
<1>4. CASE ~ UNCHANGED <<conn, token>>
  <2>1. RenewFails(r) /\ conn' = None /\ token' = None
    BY <1>4 DEF WorkerStep, WaitForIo, TickEnds, TickSends, Renewed, RenewFails, GiveUpHeld,
         CancelledWorker, ServerStep, SrvAnswers, SrvExpires, SrvDisconnects
  <2>2. ~ closed /\ conn = r
    BY <1>4, <2>1 DEF RenewFails, GiveUpHeld, Runs, IInv, WorkerInv
  <2>3. Has = "held" /\ Has' = "free"
    BY <2>1, <2>2 DEF RenewFails, Runs, Has, IInv, WorkerInv, HandleInv
  <2>4. Promise!Lose
    BY <1>1, <1>2, <2>3 DEF Promise!Lose, Has, Fresh
  <2> QED
    BY <2>4 DEF Promise!HNext
<1> QED
  BY <1>3, <1>4

(* A cancelled call returns with nothing, unless the cancellation cuts the *)
(* reset of a held object short; that sets cut.                            *)
LEMMA CancelRefines ==
    ASSUME IInv, Cancel, pc = "reset" /\ pc' = "idle" => token' = None
    PROVE  [Promise!HNext]_(Promise!hvars)
<1>1. CASE CancelEnds
  <2>1. /\ op \in {"acquire", "enqueue", "wait", "release", "close", "giveup"}
        /\ op' = "none" /\ attempt' = attempt /\ UNCHANGED <<conn, token>>
    BY <1>1 DEF CancelEnds, Return, IInv, TypeOK, CallerInv
  <2>2. ~ Fresh' /\ Has' = "free"
    BY <1>1, <2>1 DEF CancelEnds, Return, Has, Fresh, IInv, CallerInv, HandleInv
  <2>3. Promise!Finish
    BY <2>1, <2>2, Returning
  <2> QED
    BY <2>3 DEF Promise!HNext
<1>2. CASE CancelRelease
  <2>1. UNCHANGED <<op, attempt, conn, token>> /\ ~ Fresh /\ ~ Fresh'
    BY <1>2 DEF CancelRelease, Fresh
  <2> QED
    BY <2>1, Unseen DEF Has
<1>3. CASE CancelOpen \/ CancelCommand
  BY <1>3, CallerRefines DEF CancelOpen, CancelCommand, CallerStep
<1> QED
  BY <1>1, <1>2, <1>3 DEF Cancel

(* A step of an object whose reset was not cut short is one of LockHandle, *)
(* or none.                                                                *)
LEMMA StepRefines ==
    ASSUME IInv, [MCNext]_MCVars, ~ cut'
    PROVE  [Promise!HNext]_(Promise!hvars)
<1>1. CASE UNCHANGED MCVars \/ Over \/ Drop
  <2>1. UNCHANGED <<op, attempt, conn, token>> /\ (Fresh' <=> Fresh)
    BY <1>1 DEF MCVars, Over, vars, Drop, Fresh
  <2> QED
    BY <2>1, Unseen DEF Has
<1>2. ASSUME NEW o \in {"acquire", "enqueue", "wait", "release", "close"}, Call(o)
      PROVE  Promise!Begin
  <2>1. op = "none" /\ op' = o /\ attempt' = attempt /\ Has' = Has
    BY <1>2 DEF Call, Has, IInv, CallerInv
  <2>2. ~ Fresh /\ ~ Fresh'
    BY <1>2 DEF Call, Entry, Fresh
  <2>3. Fresh' = Fresh
    BY <2>2, Zenon DEF Fresh
  <2> QED
    BY <2>1, <2>3 DEF Promise!Begin, Promise!Calls, Promise!Asking, Has, Fresh
<1>3. MCNext => (pc = "reset" /\ pc' = "idle" => token' = None)
  BY DEF MCNext
<1> QED
  BY <1>1, <1>2, <1>3, CallerRefines, CancelRefines, WorkerRefines
     DEF MCNext, Next, Promise!HNext

(* Cancelled wherever it may be, but for its first await, and raced by its *)
(* renew tasks and the server, the object gives its application what       *)
(* LockHandle promises: a grant only from a call that asked for it, and    *)
(* none from one that gave up.                                             *)
THEOREM PromiseKept == MCSpec => KeepsPromiseUnlessCut
<1>1. MCInit => Promise!HInit
  <2> SUFFICES ASSUME Init PROVE Promise!HInit
    BY DEF MCInit
  <2>1. op = "none" /\ Has = "free" /\ attempt = 0 /\ ~ Fresh
    BY DEF Init, Has, Fresh
  <2>2. Fresh = FALSE
    BY <2>1, Zenon DEF Fresh
  <2> QED
    BY <2>1, <2>2 DEF Promise!HInit, Has, Fresh
<1>2. IInv /\ [MCNext]_MCVars => [~ cut' => [Promise!HNext]_(Promise!hvars)]_MCVars
  BY StepRefines
<1> QED
  BY <1>1, <1>2, Watching, Invariance, PTL DEF MCSpec, KeepsPromiseUnlessCut

=============================================================================
