----------------------------- MODULE MCProtocol -----------------------------
(* The two directions of the protocol, for TLC: a behaviour is one request *)
(* on its way to the server, or one response on its way back.              *)
EXTENDS Integers, Sequences

CONSTANTS MaxLine, MaxAuth,          \* of Requests
          MaxWords,                  \* of Responses
          MaxSeconds                 \* of both

ASSUME BoundsAssumption ==
    /\ {MaxLine, MaxAuth, MaxWords} \subseteq Nat
    /\ MaxSeconds \in Nat \ {0}

VARIABLES asked, sending, wire, got,
          receiving, meant, fate, reader, line, result

request == <<asked, sending, wire, got>>
response == <<receiving, meant, fate, reader, line, result>>

Q == INSTANCE Requests WITH phase <- sending
R == INSTANCE Responses WITH phase <- receiving

(* No two commands have one name on the wire (cmd_name: the prefix and the *)
(* operation put together).                                                *)
ASSUME NamesAssumption ==
    \A c, d \in [op : Q!Ops, prefix : Q!Prefixes] :
        c.prefix \o c.op = d.prefix \o d.op => c = d

Init == Q!Init /\ R!Init

Next ==
    \/ receiving = "new" /\ Q!Next /\ UNCHANGED response
    \/ sending = "new" /\ R!Next /\ UNCHANGED request

Spec == Init /\ [][Next]_<<request, response>>

(* What is sent is read as asked, and what is refused would be misread.    *)
ReadAsAsked == Q!ReadAsAsked
RefusesOnlyMisread == Q!RefusesOnlyMisread

(* What is received means what was meant, and no more if it was damaged.   *)
DecodesWhatWasSent == R!DecodesWhatWasSent
CutNeverOverstates == R!CutNeverOverstates
NoConfusion == R!NoConfusion
LeaseInRange == R!LeaseInRange
=============================================================================
