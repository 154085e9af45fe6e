------------------------------ MODULE AsyncConn ------------------------------
(***************************************************************************)
(* One AsyncConn of src/src/dflockd_client/_async.py shared by several     *)
(* tasks of one event loop.  A task runs from one await to the next        *)
(* without interruption, and may be cancelled at each.  close_nowait()     *)
(* does not always end the transport at once: one that still has bytes to  *)
(* send flushes them first, and a TLS one waits for the peer's answer to   *)
(* its close_notify; until then neither drain() nor readline() raises.     *)
(***************************************************************************)
EXTENDS Integers, SequencesExt

CONSTANTS Tasks,     \* the tasks that share the connection
          MaxCalls,  \* bound: how many commands each issues
          Nobody,    \* not a task: _mu is free
          Tls        \* is it a TLS connection?

ASSUME MaxCallsAssumption == MaxCalls \in Nat \ {0}
ASSUME NobodyAssumption == Nobody \notin Tasks
ASSUME TlsAssumption == Tls \in BOOLEAN

Calls == Tasks \X (1 .. MaxCalls)
NoCall == <<>>

VARIABLES
    pc,          \* where each task is in command()
    issued,      \* how many commands each has begun
    mu,          \* the holder of self._mu
    waiters,     \* the tasks that wait for it, first come first served
    transport,   \* the writer's transport: open, closing, or lost
    backlog,     \* does the transport still hold a part of the last frame?
    peer,        \* is the server's end still up?
    wire,        \* request frames on their way to the server
    inbox,       \* response lines on their way back
    buffer,      \* response lines in self._reader
    result,      \* what each command() returned: the call its line answers
    ran,         \* the calls that took effect at the server
    broken,      \* history: the first call that failed
    ownerClosed  \* history: was the connection closed from outside?

local == <<pc, issued, mu, waiters>>
history == <<result, broken, ownerClosed>>
net == <<backlog, peer, wire, inbox, ran>>
vars == <<local, transport, net, buffer, history>>

Pending == <<"pending">>      \* a result not yet there
Failed == <<"failed">>        \* command() raised after it had written
Withdrawn == <<"withdrawn">>  \* command() raised before

Init ==
    /\ pc = [t \in Tasks |-> "idle"] /\ issued = [t \in Tasks |-> 0]
    /\ mu = Nobody /\ waiters = <<>>
    /\ transport = "open" /\ backlog = FALSE /\ peer = "up"
    /\ wire = <<>> /\ inbox = <<>> /\ buffer = <<>>
    /\ result = [c \in Calls |-> Pending]
    /\ ran = {} /\ broken = NoCall /\ ownerClosed = FALSE

Current(t) == <<t, issued[t]>>

(* `async with self._mu' queues the task, even if the lock is free: it     *)
(* then goes on in the next step.                                          *)
Command(t) ==
    /\ pc[t] = "idle"
    /\ issued[t] < MaxCalls
    /\ issued' = [issued EXCEPT ![t] = @ + 1]
    /\ waiters' = Append(waiters, t)
    /\ pc' = [pc EXCEPT ![t] = "lock"]
    /\ UNCHANGED <<mu, transport, net, buffer, history>>

Turn(t) == mu = Nobody /\ waiters # <<>> /\ Head(waiters) = t

(* Write without an await in between: dropped by a transport that is lost  *)
(* or shutting TLS down, appended by one that is flushing.                 *)
Write(t) ==
    /\ Turn(t)
    /\ mu' = t
    /\ waiters' = Tail(waiters)
    /\ pc' = [pc EXCEPT ![t] = "drain"]
    /\ IF transport = "open" \/ (transport = "flushing" /\ ~ Tls)
       THEN /\ wire' = Append(wire, Current(t))
            /\ backlog' \in {TRUE, backlog}
       ELSE UNCHANGED <<wire, backlog>>
    /\ UNCHANGED <<issued, transport, peer, inbox, ran, buffer, history>>

(* The task ends without having written (write_committed is FALSE): it is  *)
(* cancelled while it waits for _mu, or encode_lines refuses a line.       *)
ClosingWithdrawal == "closed"   \* mutant: close_nowait() whatever was written

TransportAfterWithdrawal == transport

Withdraw(t) ==
    /\ pc[t] = "lock"
    /\ \E i \in DOMAIN waiters : waiters[i] = t /\ waiters' = RemoveAt(waiters, i)
    /\ pc' = [pc EXCEPT ![t] = "idle"]
    /\ result' = [result EXCEPT ![Current(t)] = Withdrawn]
    /\ transport' = TransportAfterWithdrawal
    /\ UNCHANGED <<issued, mu, net, buffer, broken, ownerClosed>>

(* drain() raises on a transport that is lost, and does not on one that is *)
(* still closing.                                                          *)
Drained(t) ==
    /\ pc[t] = "drain"
    /\ transport # "closed"
    /\ pc' = [pc EXCEPT ![t] = "read"]
    /\ UNCHANGED <<issued, mu, waiters, transport, net, buffer, history>>

ReturnLine(t, line) ==
    /\ pc[t] = "read"
    /\ pc' = [pc EXCEPT ![t] = "idle"]
    /\ mu' = Nobody
    /\ result' = [result EXCEPT ![Current(t)] = line]
    /\ UNCHANGED <<issued, waiters, transport, backlog, wire, ran, broken, ownerClosed>>

ReadLine(t) ==
    /\ buffer # <<>>
    /\ ReturnLine(t, Head(buffer))
    /\ buffer' = Tail(buffer)
    /\ UNCHANGED <<peer, inbox>>

(* The server's end goes down within the line: readline() returns what has *)
(* come of it.  (So it does if this end is closed within a line; that is   *)
(* Feed, OwnerCloses and ReadLine.)                                        *)
ReadCutLine(t) ==
    /\ transport = "open"
    /\ buffer = <<>> /\ inbox # <<>>
    /\ ReturnLine(t, Head(inbox))
    /\ inbox' = <<>>
    /\ peer' = "gone"
    /\ UNCHANGED buffer

(* close_nowait(): a plain transport with nothing left to send is lost     *)
(* before any other task runs.                                             *)
KeptTransport == transport   \* mutant: a failed command leaves it open

CloseNowait ==
    IF transport # "open" THEN transport
    ELSE IF Tls \/ backlog THEN "flushing" ELSE "closed"

NotReleasedMu(t) == mu   \* mutant: _mu is left only on success

ReleasedMu(t) == Nobody

(* Cancelled, timed out, reset, EOF, or drain() raised; a line may have    *)
(* come just before.  A line that is refused (too long, or not UTF-8) is   *)
(* consumed first.                                                         *)
CommandFails(t) ==
    /\ pc[t] \in {"drain", "read"}
    /\ pc' = [pc EXCEPT ![t] = "idle"]
    /\ mu' = ReleasedMu(t)
    /\ transport' = CloseNowait
    /\ result' = [result EXCEPT ![Current(t)] = Failed]
    /\ broken' = IF broken = NoCall THEN Current(t) ELSE broken
    /\ \/ UNCHANGED buffer
       \/ pc[t] = "read" /\ buffer # <<>> /\ buffer' = Tail(buffer)
    /\ UNCHANGED <<issued, waiters, net, ownerClosed>>

(* close() or close_nowait() by whoever owns the connection.               *)
OwnerCloses ==
    /\ transport = "open"
    /\ transport' = CloseNowait
    /\ ownerClosed' = TRUE
    /\ UNCHANGED <<local, net, buffer, result, broken>>

-----------------------------------------------------------------------------
(* The event loop and the network (external).                              *)

Flush ==
    /\ backlog
    /\ transport # "closed"
    /\ backlog' = FALSE
    /\ UNCHANGED <<local, transport, peer, wire, inbox, ran, buffer, history>>

ConnectionLost ==
    /\ transport = "flushing"
    /\ transport' = "closed"
    /\ UNCHANGED <<local, net, buffer, history>>

(* A transport that is closing has stopped reading.                        *)
Feed ==
    /\ transport = "open"
    /\ inbox # <<>>
    /\ buffer' = Append(buffer, Head(inbox))
    /\ inbox' = Tail(inbox)
    /\ UNCHANGED <<local, transport, backlog, peer, wire, ran, history>>

(* The server takes the next whole frame, acts and answers.                *)
Serve ==
    /\ peer = "up"
    /\ wire # <<>> /\ ~ backlog
    /\ wire' = Tail(wire)
    /\ ran' = ran \cup {Head(wire)}
    /\ inbox' = Append(inbox, Head(wire))
    /\ UNCHANGED <<local, transport, backlog, peer, buffer, history>>

PeerGoes ==
    /\ peer = "up"
    /\ peer' = "gone"
    /\ UNCHANGED <<local, transport, backlog, wire, inbox, ran, buffer, history>>

(* Every command has returned, so that any other deadlock is an error.     *)
Over ==
    /\ \A t \in Tasks : pc[t] = "idle" /\ issued[t] = MaxCalls
    /\ UNCHANGED vars

InCommand(t) ==
    Write(t) \/ Drained(t) \/ ReadLine(t) \/ ReadCutLine(t) \/ CommandFails(t)

Next ==
    \/ \E t \in Tasks : Command(t) \/ Withdraw(t) \/ InCommand(t)
    \/ OwnerCloses \/ Flush \/ ConnectionLost \/ Feed \/ Serve \/ PeerGoes \/ Over

Spec == Init /\ [][Next]_vars

(* A task whose turn it is runs; each read of this package has a timeout.  *)
Fairness == \A t \in Tasks : WF_vars(InCommand(t))

FairSpec == Spec /\ Fairness

-----------------------------------------------------------------------------
TypeOK ==
    /\ pc \in [Tasks -> {"idle", "lock", "drain", "read"}]
    /\ issued \in [Tasks -> 0 .. MaxCalls]
    /\ mu \in Tasks \cup {Nobody}
    /\ waiters \in Seq(Tasks) /\ IsInjective(waiters)
    /\ transport \in {"open", "flushing", "closed"}
    /\ backlog \in BOOLEAN /\ peer \in {"up", "gone"} /\ ownerClosed \in BOOLEAN
    /\ wire \in Seq(Calls) /\ inbox \in Seq(Calls) /\ buffer \in Seq(Calls)
    /\ result \in [Calls -> Calls \cup {Pending, Failed, Withdrawn}]
    /\ ran \subseteq Calls /\ broken \in Calls \cup {NoCall}
    /\ \A t \in Tasks : /\ mu = t <=> pc[t] \in {"drain", "read"}
                        /\ Contains(waiters, t) <=> pc[t] = "lock"

(* Only a command that has written gives the connection up for the others: *)
(* one that is cancelled while it waits for its turn, or whose arguments   *)
(* are refused, leaves it open (`if write_committed').                     *)
LossHasCause == transport # "open" => broken # NoCall \/ ownerClosed

(* "request/response bytes never interleave on the wire": no task is given *)
(* the line that answers another task's command.                           *)
OwnAnswer == \A c \in Calls : result[c] \in {Pending, Failed, Withdrawn, c}

Status ==
    [c \in Calls |->
        CASE c[2] > issued[c[1]]  -> "new"
          [] c[2] <= issued[c[1]] /\ result[c] = Pending -> "pending"
          [] result[c] = Failed    -> "failed"
          [] result[c] = Withdrawn -> "withdrawn"
          [] result[c] = c         -> "answered"
          [] result[c] \in Calls \ {c} -> "mispaired"]

Channel == INSTANCE RpcChannel
               WITH Threads <- Tasks, status <- Status, LateEffects <- TRUE

(* Over plain TCP the connection keeps the promise of RpcChannel: own      *)
(* answers only, none after a failure, and a command withdrawn before it   *)
(* has written never runs (command(): _mu, close_nowait on failure).       *)
KeepsPromise == Channel!ASpec

(* Every command gets its turn and returns: the queue for _mu is first     *)
(* come first served, and whoever fails or is cancelled leaves it.         *)
CommandReturns == \A t \in Tasks : pc[t] # "idle" ~> pc[t] = "idle"
=============================================================================
