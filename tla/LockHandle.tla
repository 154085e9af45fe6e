----------------------------- MODULE LockHandle -----------------------------
(***************************************************************************)
(* What a lock or semaphore object promises its application, whether sync  *)
(* or async.  A call is in progress or none is.  The object has nothing,   *)
(* or a connection (and perhaps a place in the queue), or a grant.  It     *)
(* comes to have more only within a call that asks for it, one attempt     *)
(* after the other, and may have less at any time: a grant can be lost,    *)
(* and what was given up does not come back.                               *)
(***************************************************************************)
EXTENDS Integers

VARIABLES busy,    \* the public call in progress, or "none"
          status,  \* what the object has: "free", "connected" or "held"
          number,  \* how many attempts there have been
          fresh    \* has the call in progress begun an attempt of its own?

hvars == <<busy, status, number, fresh>>

Asking == {"acquire", "enqueue"}
Calls == Asking \cup {"wait", "release", "close"}

HInit == busy = "none" /\ status = "free" /\ number = 0 /\ fresh = FALSE

Begin ==
    /\ busy = "none"
    /\ busy' \in Calls
    /\ UNCHANGED <<status, number, fresh>>

(* acquire() and enqueue() give up what there is, then begin an attempt.   *)
BeginAttempt ==
    /\ busy \in Asking /\ ~ fresh
    /\ status = "free"
    /\ number' = number + 1
    /\ fresh' = TRUE
    /\ UNCHANGED <<busy, status>>

Connect ==
    /\ fresh /\ status = "free"
    /\ status' = "connected"
    /\ UNCHANGED <<busy, number, fresh>>

(* What a call may make of what the object has.                            *)
Changes ==
    \/ status' \in {status, "free"}
    \/ status = "connected" /\ busy \in Asking \cup {"wait"} /\ status' = "held"

Proceed ==
    /\ busy # "none"
    /\ Changes
    /\ UNCHANGED <<busy, number, fresh>>

(* A call that fails closes everything before it returns or raises.        *)
Fail ==
    /\ busy \in Calls
    /\ Changes
    /\ busy' = "giveup" /\ fresh' = FALSE
    /\ UNCHANGED number

(* How each call may leave the object: release() and close() with nothing, *)
(* acquire() with nothing or a grant of its own, never an older one.       *)
Leaves(o) ==
    CASE o = "acquire" -> {"free"} \cup {s \in {"held"} : fresh}
      [] o = "enqueue" -> {"free"} \cup {s \in {"connected", "held"} : fresh}
      [] o = "wait"    -> {"free", "held"}
      [] o \in {"release", "close", "giveup"} -> {"free"}

Finish ==
    /\ busy # "none"
    /\ Changes
    /\ status' \in Leaves(busy)
    /\ busy' = "none" /\ fresh' = FALSE
    /\ UNCHANGED number

(* The grant is lost, within a call or without one.                        *)
Lose ==
    /\ status = "held"
    /\ status' = "free"
    /\ UNCHANGED <<busy, number, fresh>>

HNext == Begin \/ BeginAttempt \/ Connect \/ Proceed \/ Fail \/ Finish \/ Lose

HSpec == HInit /\ [][HNext]_hvars
=============================================================================
