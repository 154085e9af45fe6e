---------------------------- MODULE MCAsyncLock ----------------------------
(* AsyncLock for TLC.  `cut' remembers, until the token is given up, that  *)
(* acquire() or enqueue() was cancelled at its first await, while it waited*)
(* for the old renew task: the one cancellation after which an object      *)
(* holds what it does not renew.                                           *)
EXTENDS AsyncLock

VARIABLE cut

MCVars == <<vars, cut>>

MCInit == Init /\ cut = FALSE

MCNext ==
    /\ Next
    /\ cut' = (token' # None /\ (cut \/ (pc = "reset" /\ pc' = "idle")))

MCSpec == MCInit /\ [][MCNext]_MCVars /\ Fairness

(* Whatever else is cancelled, a held lock is renewed.                     *)
HeldIsRenewedUnlessCut == ~ cut => HeldIsRenewed

(* Whatever else is cancelled, the object is a LockHandle.                 *)
KeepsPromiseUnlessCut ==
    /\ Promise!HInit
    /\ [][ ~ cut' => [Promise!HNext]_(Promise!hvars) ]_MCVars
=============================================================================
