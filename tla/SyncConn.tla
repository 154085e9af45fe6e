------------------------------ MODULE SyncConn ------------------------------
(***************************************************************************)
(* One SyncConn of src/src/dflockd_client/_sync.py shared by several       *)
(* threads, each inside command() or not; the bytes under way as whole     *)
(* frames and lines, named by the call they belong to; the server          *)
(* (external), which serves a connection's requests in order; and whoever  *)
(* calls shutdown_read() or close() from outside.                          *)
(***************************************************************************)
EXTENDS Integers, Sequences

CONSTANTS Threads,   \* the threads that share the connection
          MaxCalls,  \* bound: how many commands each thread issues
          Nobody     \* not a thread: _mu is free

ASSUME MaxCallsAssumption == MaxCalls \in Nat \ {0}
ASSUME NobodyAssumption == Nobody \notin Threads

Calls == Threads \X (1 .. MaxCalls)
NoCall == <<>>

VARIABLES
    pc,       \* where each thread is in command()
    issued,   \* how many commands each has begun
    mu,       \* the holder of self._mu
    sock,     \* the client's end of the connection
    peer,     \* is the server's end still up?
    wire,     \* request frames on their way to the server
    inbox,    \* response lines on their way back, or in self._rfile
    result,   \* what each command() returned: the call its line answers
    ran,      \* the calls that took effect at the server
    broken    \* history: the first call that failed

vars == <<pc, issued, mu, sock, peer, wire, inbox, result, ran, broken>>
net == <<peer, wire, inbox, ran>>

Pending == <<"pending">>   \* a result not yet there
Failed == <<"failed">>     \* command() raised

Init ==
    /\ pc = [t \in Threads |-> "idle"]
    /\ issued = [t \in Threads |-> 0]
    /\ mu = Nobody
    /\ sock = "open" /\ peer = "up"
    /\ wire = <<>> /\ inbox = <<>>
    /\ result = [c \in Calls |-> Pending]
    /\ ran = {} /\ broken = NoCall

Current(t) == <<t, issued[t]>>

Command(t) ==
    /\ pc[t] = "idle"
    /\ issued[t] < MaxCalls
    /\ issued' = [issued EXCEPT ![t] = @ + 1]
    /\ pc' = [pc EXCEPT ![t] = "lock"]
    /\ UNCHANGED <<mu, sock, net, result, broken>>

(* `with self._mu'.                                                        *)
MuIgnored == TRUE   \* mutant: no mutex, as with one thread per connection

MuIsFree == mu = Nobody

EnterMu(t) ==
    /\ pc[t] = "lock"
    /\ MuIsFree
    /\ mu' = t
    /\ pc' = [pc EXCEPT ![t] = "send"]
    /\ UNCHANGED <<issued, sock, net, result, broken>>

(* settimeout and sendall succeed; a peer that is gone is not noticed yet. *)
Send(t) ==
    /\ pc[t] = "send"
    /\ sock = "open"
    /\ wire' = Append(wire, Current(t))
    /\ pc' = [pc EXCEPT ![t] = "read"]
    /\ UNCHANGED <<issued, mu, sock, peer, inbox, result, ran, broken>>

(* Either raises: closed, shut down, reset, or the timeout of sendall with *)
(* a part of the frame written.                                            *)
SendFails(t) ==
    /\ pc[t] = "send"
    /\ pc' = [pc EXCEPT ![t] = "fail"]
    /\ UNCHANGED <<issued, mu, sock, net, result, broken>>

(* command() returns the line it read, whosever answer that is.            *)
ReturnLine(t) ==
    /\ pc[t] = "read"
    /\ sock # "closed"
    /\ inbox # <<>>
    /\ result' = [result EXCEPT ![Current(t)] = Head(inbox)]
    /\ mu' = Nobody
    /\ pc' = [pc EXCEPT ![t] = "idle"]

ReadLine(t) ==
    /\ ReturnLine(t)
    /\ inbox' = Tail(inbox)
    /\ UNCHANGED <<issued, sock, peer, wire, ran, broken>>

(* The server's end goes down within the line: readline() returns what     *)
(* there is of it, which is not empty, so _read_line returns it too.       *)
ReadCutLine(t) ==
    /\ ReturnLine(t)
    /\ inbox' = <<>>
    /\ peer' = "gone"
    /\ UNCHANGED <<issued, sock, wire, ran, broken>>

(* A line _trim_response_line refuses: too long, or not UTF-8.             *)
RefuseLine(t) ==
    /\ pc[t] = "read"
    /\ inbox # <<>>
    /\ inbox' = Tail(inbox)
    /\ pc' = [pc EXCEPT ![t] = "fail"]
    /\ UNCHANGED <<issued, mu, sock, peer, wire, result, ran, broken>>

(* EOF, a reset, the read timeout, or KeyboardInterrupt.                   *)
ReadFails(t) ==
    /\ pc[t] = "read"
    /\ pc' = [pc EXCEPT ![t] = "fail"]
    /\ UNCHANGED <<issued, mu, sock, net, result, broken>>

(* `except BaseException: self.close(); raise', still under _mu.           *)
KeptSock == sock   \* mutant: a failed command leaves the connection open

SockAfterFailure == "closed"

CloseAndRaise(t) ==
    /\ pc[t] = "fail"
    /\ sock' = SockAfterFailure
    /\ result' = [result EXCEPT ![Current(t)] = Failed]
    /\ broken' = IF broken = NoCall THEN Current(t) ELSE broken
    /\ mu' = Nobody
    /\ pc' = [pc EXCEPT ![t] = "idle"]
    /\ UNCHANGED <<issued, net>>

(* close() of the lock object: shutdown_read() without _mu, then close().  *)
ShutdownRead ==
    /\ sock = "open"
    /\ sock' = "shut"
    /\ UNCHANGED <<pc, issued, mu, net, result, broken>>

CloseOutside ==
    /\ sock # "closed"
    /\ sock' = "closed"
    /\ UNCHANGED <<pc, issued, mu, net, result, broken>>

(* The server takes the next frame, acts and answers.  It does not know    *)
(* yet that a client has gone away.                                        *)
Serve ==
    /\ peer = "up"
    /\ wire # <<>>
    /\ wire' = Tail(wire)
    /\ ran' = ran \cup {Head(wire)}
    /\ inbox' = Append(inbox, Head(wire))
    /\ UNCHANGED <<pc, issued, mu, sock, peer, result, broken>>

PeerGoes ==
    /\ peer = "up"
    /\ peer' = "gone"
    /\ UNCHANGED <<pc, issued, mu, sock, wire, inbox, result, ran, broken>>

(* Every command has returned, so that any other deadlock is an error.     *)
Over ==
    /\ \A t \in Threads : pc[t] = "idle" /\ issued[t] = MaxCalls
    /\ UNCHANGED vars

Step(t) ==
    \/ Command(t) \/ EnterMu(t) \/ Send(t) \/ SendFails(t) \/ ReadLine(t)
    \/ ReadCutLine(t) \/ RefuseLine(t) \/ ReadFails(t) \/ CloseAndRaise(t)

Next ==
    \/ \E t \in Threads : Step(t)
    \/ ShutdownRead \/ CloseOutside \/ Serve \/ PeerGoes \/ Over

Spec == Init /\ [][Next]_vars

-----------------------------------------------------------------------------
TypeOK ==
    /\ pc \in [Threads -> {"idle", "lock", "send", "read", "fail"}]
    /\ issued \in [Threads -> 0 .. MaxCalls]
    /\ mu \in Threads \cup {Nobody}
    /\ \A t \in Threads : mu = t <=> pc[t] \in {"send", "read", "fail"}
    /\ sock \in {"open", "shut", "closed"} /\ peer \in {"up", "gone"}
    /\ wire \in Seq(Calls) /\ inbox \in Seq(Calls)
    /\ result \in [Calls -> Calls \cup {Pending, Failed}]
    /\ ran \subseteq Calls
    /\ broken \in Calls \cup {NoCall}

(* "request/response bytes never interleave on the wire": while the        *)
(* connection is usable, what is under way, in either direction, is one    *)
(* frame or line at most, and belongs to the call that holds _mu.          *)
OneInFlight ==
    sock = "open" =>
        /\ Len(wire \o inbox) <= 1
        /\ \A c \in Calls :
              wire \o inbox = <<c>> => /\ c = Current(c[1])
                                       /\ mu = c[1] /\ pc[mu] \in {"read", "fail"}

(* What became of each call, as the promise of RpcChannel sees it.         *)
Status ==
    [c \in Calls |->
        CASE c[2] > issued[c[1]]    -> "new"
          [] c[2] <= issued[c[1]] /\ result[c] = Pending -> "pending"
          [] result[c] = Failed     -> "failed"
          [] result[c] = c          -> "answered"
          [] result[c] \in Calls \ {c} -> "mispaired"]

Channel == INSTANCE RpcChannel WITH status <- Status, LateEffects <- FALSE

(* The connection keeps its promise to the threads that share it: no call  *)
(* gets another's answer, none takes effect twice, and after a failure     *)
(* nothing more is sent or answered (command(): _mu, close on failure).    *)
KeepsPromise == Channel!ASpec
=============================================================================
