----------------------------- MODULE RpcChannel -----------------------------
(***************************************************************************)
(* What one SyncConn or AsyncConn promises to the threads or tasks that    *)
(* share it.  A call is issued, takes effect at the server at most once,   *)
(* and is answered with the answer to itself or fails.  The first call to  *)
(* fail breaks the connection: no call is answered after it, and it is the *)
(* only one whose effect is in doubt, unless LateEffects: a transport that *)
(* flushes what it has before it closes may deliver later frames as well.  *)
(* A call withdrawn before it has sent anything changes nothing.           *)
(***************************************************************************)
EXTENDS Integers

CONSTANTS Threads,     \* the threads that share the connection
          MaxCalls,    \* bound: how many commands each thread issues
          LateEffects  \* may a call sent after the failure take effect too?

Calls == Threads \X (1 .. MaxCalls)
NoCall == <<>>

VARIABLES status,   \* what became of each call
          ran,      \* the calls that took effect at the server
          broken    \* the call that broke the connection

avars == <<status, ran, broken>>

AInit ==
    /\ status = [c \in Calls |-> "new"]
    /\ ran = {}
    /\ broken = NoCall

Over == {"answered", "failed", "withdrawn"}

(* A thread issues its calls in order, one at a time.                      *)
Issue(c) ==
    /\ status[c] = "new"
    /\ \A k \in 1 .. c[2] - 1 : status[<<c[1], k>>] \in Over
    /\ status' = [status EXCEPT ![c] = "pending"]
    /\ UNCHANGED <<ran, broken>>

Run(c) ==
    /\ c \notin ran
    /\ \/ status[c] = "pending" /\ (broken = NoCall \/ LateEffects)
       \/ status[c] = "failed" /\ (c = broken \/ LateEffects)
    /\ ran' = ran \cup {c}
    /\ UNCHANGED <<status, broken>>

Answer(c) ==
    /\ status[c] = "pending"
    /\ c \in ran
    /\ broken = NoCall
    /\ status' = [status EXCEPT ![c] = "answered"]
    /\ UNCHANGED <<ran, broken>>

Fail(c) ==
    /\ status[c] = "pending"
    /\ status' = [status EXCEPT ![c] = "failed"]
    /\ broken' = IF broken = NoCall THEN c ELSE broken
    /\ UNCHANGED ran

Withdraw(c) ==
    /\ status[c] = "pending"
    /\ c \notin ran
    /\ status' = [status EXCEPT ![c] = "withdrawn"]
    /\ UNCHANGED <<ran, broken>>

ANext == \E c \in Calls : Issue(c) \/ Run(c) \/ Answer(c) \/ Fail(c) \/ Withdraw(c)

ASpec == AInit /\ [][ANext]_avars
=============================================================================
