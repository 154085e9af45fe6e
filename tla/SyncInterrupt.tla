--------------------------- MODULE SyncInterrupt ---------------------------
(***************************************************************************)
(* SyncLock with a KeyboardInterrupt (or any exception a signal handler    *)
(* raises) in the thread that makes the public calls.  It comes between    *)
(* two steps of a call or ends a wait in it, and unwinds to the            *)
(* application; every `with' gives its lock back.  Until the first one the *)
(* object is that of SyncLock.                                             *)
(***************************************************************************)
EXTENDS SyncLock

VARIABLE interrupted   \* has any call been interrupted?

allvars == <<vars, interrupted>>

(* Nothing in the code catches it here: the call just ends, half done.     *)
InterruptEnds ==
    /\ pc \in {"stop", "join", "rel", "close", "shut", "lockclose", "join2", "rearm", "launch"}
    /\ Return
    /\ UNCHANGED <<object, worker, channel>>

(* Between the token and the Thread of _start_renew.  In acquire() and     *)
(* wait() the token and the lease are stored within the try.               *)
InterruptGranted ==
    /\ pc = "start"
    /\ lease' \in {lease, cur}
    /\ \/ op \in {"acquire", "wait"} /\ GiveUp
       \/ (op = "enqueue" \/ lease' = cur) /\ Return
    /\ UNCHANGED <<arming, conn, token, renewThread, ioLock, worker, channel>>

(* Within _reset_for_new_attempt, while it makes the new Event.             *)
InterruptRearm ==
    /\ pc = "rearm"
    /\ closed' = Rearmed
    /\ Return
    /\ UNCHANGED <<stopEvent, stopSet, attempt, held, renewThread, ioLock, worker, channel>>

(* command() closes the socket; `except Exception' of _safe_release lets   *)
(* the interrupt pass, and _close_unlocked is not called.                  *)
KeptIoLock == ioLock   \* mutant: acquire() and release() around the body, no `with'

LeftIoLock == None

InterruptRelease ==
    /\ pc = "relwait"
    /\ sock' = [sock EXCEPT ![cur] = "closed"]
    /\ ioLock' = LeftIoLock
    /\ Return
    /\ UNCHANGED <<arming, held, renewThread, worker, net, grant>>

(* Within Thread.start(), once the thread runs.                            *)
InterruptStart == StartRenew

(* While it dials or authenticates, and while it waits for the grant: as   *)
(* any other failure there (`except BaseException').                       *)
InterruptOpen == OpenFails

InterruptCommand == CommandBroken

Interrupt ==
    \/ InterruptEnds \/ InterruptRearm \/ InterruptRelease \/ InterruptOpen
    \/ InterruptCommand \/ InterruptGranted \/ InterruptStart

NextInterrupted ==
    \/ Next /\ UNCHANGED interrupted
    \/ Interrupt /\ interrupted' = TRUE

(* Nobody has to interrupt anything.                                       *)
SpecInterrupted ==
    Init /\ interrupted = FALSE /\ [][NextInterrupted]_allvars /\ Fairness

-----------------------------------------------------------------------------
(* Whatever call was interrupted wherever, between calls the only worker   *)
(* that nobody told to stop is the one self._renew_thread names, with the  *)
(* current stop event: the next _stop_renew or _close_unlocked reaches it, *)
(* so no interrupt leaves a lock renewed that the application gave up.     *)
InterruptedStopsOwnWorker ==
    \A r \in Attempts :
        pc = "idle" /\ Live(r) /\ ~ Stopped(r) =>
            r = renewThread /\ wstop[r] = stopEvent

(* An interrupt leaves no lock behind: every later call still returns, and *)
(* every worker that was stopped ends (`with self._io_lock').              *)
LaterCallsReturn == CallReturns

LaterWorkersExit == StoppedWorkerExits

-----------------------------------------------------------------------------
(* What holds of the calls as long as none is interrupted.                 *)

(* No token the server granted is forgotten.                               *)
NoForgottenGrantTillInterrupted == ~ interrupted => NoForgottenGrant

(* The lease shown belongs to the token shown.                             *)
LeaseBelongsToTokenTillInterrupted == ~ interrupted => LeaseBelongsToToken

(* The object is a LockHandle, until Thread.start() has raised, if ever:   *)
(* release() and close() then raise too (_stop_renew).                     *)
KeepsPromiseTillInterrupted ==
    /\ Promise!HInit
    /\ [][ ~ interrupted' /\ ~ NeverStarted' => [Promise!HNext]_(Promise!hvars) ]_allvars

(* What an earlier attempt left at the server is freed.                    *)
ReusedGrantIsFreedTillInterrupted ==
    \A c \in Attempts :
        c < attempt /\ grant[c] \in {"queued", "held"} ~> grant[c] = "gone" \/ interrupted
=============================================================================
