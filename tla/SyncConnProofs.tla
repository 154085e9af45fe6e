--------------------------- MODULE SyncConnProofs ---------------------------
(***************************************************************************)
(* That a SyncConn keeps its promise, for any number of threads and of     *)
(* commands: the mutex and the close after a failure leave one frame or    *)
(* line under way at most, so that each line is read by whom it answers,   *)
(* and every step of command() is a step of RpcChannel.                    *)
(***************************************************************************)
EXTENDS SyncConn, TLAPS

(* The call of the thread that holds _mu, written and not yet returned.    *)
Written(c) ==
    /\ mu \in Threads /\ pc[mu] \in {"read", "fail"}
    /\ c = Current(mu)

(* What is under way belongs to that call; what is left of a failed one is *)
(* never read, because the socket is closed.                               *)
LineInv ==
    /\ Len(wire) <= 1 /\ Len(inbox) <= 1
    /\ wire = <<>> \/ inbox = <<>>
    /\ wire # <<>> =>
          /\ Head(wire) \notin ran
          /\ (broken = NoCall /\ Written(Head(wire))) \/ Head(wire) = broken
    /\ inbox # <<>> =>
          /\ Head(inbox) \in ran
          /\ sock # "closed" => Written(Head(inbox))

BrokenInv ==
    /\ broken # NoCall => sock = "closed" /\ result[broken] = Failed
    /\ \A t \in Threads : pc[t] = "read" => broken = NoCall

(* A thread's calls are over up to the last, and that one is when it idles.*)
CallsOf(t) ==
    /\ pc[t] # "idle" => issued[t] > 0
    /\ pc[t] \in {"lock", "send"} => Current(t) \notin ran
    /\ \A k \in 1 .. MaxCalls :
          /\ result[<<t, k>>] \in {Pending, Failed, <<t, k>>}
          /\ result[<<t, k>>] = Pending <=>
                k > issued[t] \/ (k = issued[t] /\ pc[t] # "idle")
          /\ k > issued[t] => <<t, k>> \notin ran

CallInv == \A t \in Threads : CallsOf(t)

IInv == TypeOK /\ LineInv /\ BrokenInv /\ CallInv

-----------------------------------------------------------------------------
(* The marks of a result that is not a line are no calls.                  *)
LEMMA MarksAreNoCalls ==
    /\ Pending \notin Calls /\ Failed \notin Calls /\ NoCall \notin Calls
    /\ Pending # Failed
<1>1. \A c \in Calls : \E t \in Threads, k \in 1 .. MaxCalls : c = <<t, k>>
  BY DEF Calls
<1>2. /\ Pending # Failed
      /\ \A t, k : <<t, k>> # Pending /\ <<t, k>> # Failed /\ <<t, k>> # NoCall
  BY DEF Pending, Failed, NoCall
<1> QED
  BY <1>1, <1>2

(* A call is a thread and a number of one of its commands.                 *)
LEMMA CallsArePairs ==
    /\ \A t \in Threads, k \in 1 .. MaxCalls : <<t, k>> \in Calls
    /\ \A c \in Calls : c[1] \in Threads /\ c[2] \in 1 .. MaxCalls /\ c = <<c[1], c[2]>>
  BY DEF Calls

(* Before the first command nothing is under way and no call is over.      *)
LEMMA InitInv == Init => IInv
<1> SUFFICES ASSUME Init PROVE IInv
  OBVIOUS
<1>1. TypeOK
  BY MaxCallsAssumption, NobodyAssumption DEF Init, TypeOK
<1>2. LineInv
  BY DEF Init, LineInv
<1>3. BrokenInv
  BY DEF Init, BrokenInv
<1>4. /\ \A t \in Threads : pc[t] = "idle" /\ issued[t] = 0 /\ ran = {}
      /\ \A t \in Threads, k \in 1 .. MaxCalls : result[<<t, k>>] = Pending /\ k > 0
  BY CallsArePairs, MaxCallsAssumption DEF Init
<1>5. CallInv
  BY <1>4, MaxCallsAssumption DEF CallInv, CallsOf
<1> QED
  BY <1>1, <1>2, <1>3, <1>5 DEF IInv

(* A thread inside command() has a call, and its number is in range.       *)
LEMMA CurrentIsCall ==
    ASSUME IInv, NEW t \in Threads, pc[t] # "idle"
    PROVE  /\ issued[t] \in 1 .. MaxCalls
           /\ Current(t) \in Calls /\ Current(t) = <<t, issued[t]>>
           /\ result[Current(t)] = Pending
  BY CallsArePairs, MaxCallsAssumption DEF IInv, TypeOK, CallInv, CallsOf, Current

-----------------------------------------------------------------------------
(* The types, and who holds _mu.                                           *)

(* readline() returns: the call has its result, and _mu is released.       *)
LEMMA ReturnKeepsTypes ==
    ASSUME IInv, NEW t \in Threads, ReturnLine(t)
    PROVE  /\ pc' \in [Threads -> {"idle", "lock", "send", "read", "fail"}]
           /\ mu' \in Threads \cup {Nobody}
           /\ \A u \in Threads : mu' = u <=> pc'[u] \in {"send", "read", "fail"}
           /\ result' \in [Calls -> Calls \cup {Pending, Failed}]
<1>1. Current(t) \in Calls /\ Head(inbox) \in Calls
  BY CurrentIsCall DEF ReturnLine, IInv, TypeOK
<1>2. result' = [result EXCEPT ![Current(t)] = Head(inbox)]
  BY DEF ReturnLine
<1>3. result' \in [Calls -> Calls \cup {Pending, Failed}]
  BY <1>1, <1>2 DEF IInv, TypeOK
<1>4. pc[t] = "read" /\ mu' = Nobody /\ pc' = [pc EXCEPT ![t] = "idle"]
  BY DEF ReturnLine
<1>5. \A u \in Threads : pc'[u] \notin {"send", "read", "fail"}
  BY <1>4 DEF IInv, TypeOK
<1> QED
  BY <1>3, <1>4, <1>5, NobodyAssumption DEF IInv, TypeOK

LEMMA NextTypes == IInv /\ [Next]_vars => TypeOK'
<1> SUFFICES ASSUME IInv, [Next]_vars PROVE TypeOK'
  OBVIOUS
<1> USE MaxCallsAssumption, NobodyAssumption, CallsArePairs DEF IInv, TypeOK
<1>1. ASSUME NEW t \in Threads, Command(t) PROVE TypeOK'
  BY <1>1 DEF Command, net
<1>2. ASSUME NEW t \in Threads, EnterMu(t) PROVE TypeOK'
  BY <1>2 DEF EnterMu, MuIsFree, net
<1>3. ASSUME NEW t \in Threads, Send(t) PROVE TypeOK'
  <2>1. Current(t) \in Calls
    BY <1>3, CurrentIsCall DEF Send
  <2> QED
    BY <1>3, <2>1 DEF Send
<1>4. ASSUME NEW t \in Threads, SendFails(t) \/ ReadFails(t) PROVE TypeOK'
  BY <1>4 DEF SendFails, ReadFails, net
<1>5. ASSUME NEW t \in Threads, ReadLine(t) PROVE TypeOK'
  <2>1. Tail(inbox) \in Seq(Calls)
    BY <1>5 DEF ReadLine, ReturnLine
  <2>2. inbox' = Tail(inbox) /\ ReturnLine(t) /\ UNCHANGED <<issued, sock, peer, wire, ran, broken>>
    BY <1>5 DEF ReadLine
  <2> QED
    BY <2>1, <2>2, ReturnKeepsTypes
<1>6. ASSUME NEW t \in Threads, ReadCutLine(t) PROVE TypeOK'
  <2>1. /\ inbox' = <<>> /\ peer' = "gone" /\ ReturnLine(t)
        /\ UNCHANGED <<issued, sock, wire, ran, broken>>
    BY <1>6 DEF ReadCutLine
  <2> QED
    BY <2>1, ReturnKeepsTypes
<1>7. ASSUME NEW t \in Threads, RefuseLine(t) PROVE TypeOK'
  BY <1>7 DEF RefuseLine
<1>8. ASSUME NEW t \in Threads, CloseAndRaise(t) PROVE TypeOK'
  <2>1. Current(t) \in Calls
    BY <1>8, CurrentIsCall DEF CloseAndRaise
  <2> QED
    BY <1>8, <2>1 DEF CloseAndRaise, SockAfterFailure, net
<1>9. ASSUME ShutdownRead \/ CloseOutside \/ PeerGoes \/ Over \/ UNCHANGED vars PROVE TypeOK'
  BY <1>9 DEF ShutdownRead, CloseOutside, PeerGoes, Over, vars, net
<1>10. ASSUME Serve PROVE TypeOK'
  <2>1. Head(wire) \in Calls /\ Tail(wire) \in Seq(Calls)
    BY <1>10 DEF Serve
  <2>2. Append(inbox, Head(wire)) \in Seq(Calls)
    BY <2>1
  <2> QED
    BY <1>10, <2>1, <2>2 DEF Serve
<1> QED
  BY <1>1, <1>2, <1>3, <1>4, <1>5, <1>6, <1>7, <1>8, <1>9, <1>10 DEF Next, Step

-----------------------------------------------------------------------------
(* One thing under way at a time.                                          *)
LEMMA NextLine == IInv /\ [Next]_vars => LineInv'
<1> SUFFICES ASSUME IInv, [Next]_vars PROVE LineInv'
  OBVIOUS
<1> USE NobodyAssumption DEF IInv, TypeOK, LineInv, Written, Current
<1>1. ASSUME NEW t \in Threads, Command(t) PROVE LineInv'
  BY <1>1 DEF Command, net
<1>2. ASSUME NEW t \in Threads, EnterMu(t) PROVE LineInv'
  BY <1>2 DEF EnterMu, MuIsFree, net
<1>3. ASSUME NEW t \in Threads, Send(t) PROVE LineInv'
  <2>1. wire = <<>> /\ inbox = <<>> /\ Current(t) \notin ran /\ broken = NoCall
    BY <1>3, MarksAreNoCalls DEF Send, BrokenInv, CallInv, CallsOf
  <2> QED
    BY <1>3, <2>1 DEF Send
<1>4. ASSUME NEW t \in Threads, SendFails(t) \/ ReadFails(t) PROVE LineInv'
  BY <1>4 DEF SendFails, ReadFails, net
<1>5. ASSUME NEW t \in Threads, ReadLine(t) PROVE LineInv'
  BY <1>5 DEF ReadLine, ReturnLine
<1>6. ASSUME NEW t \in Threads, ReadCutLine(t) PROVE LineInv'
  BY <1>6 DEF ReadCutLine, ReturnLine
<1>7. ASSUME NEW t \in Threads, RefuseLine(t) PROVE LineInv'
  BY <1>7 DEF RefuseLine
<1>8. ASSUME NEW t \in Threads, CloseAndRaise(t) PROVE LineInv'
  <2>1. wire # <<>> => Head(wire) # NoCall
    BY MarksAreNoCalls
  <2>2. mu = t
    BY <1>8 DEF CloseAndRaise
  <2>3. wire # <<>> => Head(wire) = broken'
    BY <1>8, <2>1, <2>2 DEF CloseAndRaise
  <2> QED
    BY <1>8, <2>3 DEF CloseAndRaise, SockAfterFailure, net
<1>9. ASSUME ShutdownRead \/ CloseOutside \/ PeerGoes \/ Over \/ UNCHANGED vars PROVE LineInv'
  BY <1>9 DEF ShutdownRead, CloseOutside, PeerGoes, Over, vars, net
<1>10. ASSUME Serve PROVE LineInv'
  <2>1. Head(wire) \in Calls /\ wire # <<>> /\ inbox = <<>>
    BY <1>10 DEF Serve
  <2>2. wire' = <<>> /\ inbox' = <<Head(wire)>>
    BY <1>10, <2>1 DEF Serve
  <2>3. sock # "closed" => Written(Head(wire))
    BY <2>1, MarksAreNoCalls DEF BrokenInv
  <2> QED
    BY <1>10, <2>1, <2>2, <2>3 DEF Serve
<1> QED
  BY <1>1, <1>2, <1>3, <1>4, <1>5, <1>6, <1>7, <1>8, <1>9, <1>10 DEF Next, Step

(* The first failure closes the socket, and nobody is reading then.        *)
LEMMA NextBroken == IInv /\ [Next]_vars => BrokenInv'
<1> SUFFICES ASSUME IInv, [Next]_vars PROVE BrokenInv'
  OBVIOUS
<1> USE NobodyAssumption, MarksAreNoCalls DEF IInv, TypeOK, BrokenInv
<1>1. ASSUME NEW t \in Threads, Command(t) \/ EnterMu(t) \/ SendFails(t) \/ ReadFails(t)
      PROVE  BrokenInv'
  BY <1>1 DEF Command, EnterMu, SendFails, ReadFails, net
<1>2. ASSUME NEW t \in Threads, Send(t) \/ RefuseLine(t) PROVE BrokenInv'
  BY <1>2 DEF Send, RefuseLine
<1>3. ASSUME NEW t \in Threads, ReadLine(t) \/ ReadCutLine(t) PROVE BrokenInv'
  BY <1>3 DEF ReadLine, ReadCutLine, ReturnLine
<1>4. ASSUME NEW t \in Threads, CloseAndRaise(t) PROVE BrokenInv'
  <2>1. Current(t) \in Calls
    BY <1>4, CurrentIsCall DEF CloseAndRaise
  <2>2. \A u \in Threads : pc'[u] # "read"
    BY <1>4 DEF CloseAndRaise
  <2> QED
    BY <1>4, <2>1, <2>2 DEF CloseAndRaise, SockAfterFailure
<1>5. ASSUME ShutdownRead \/ CloseOutside \/ Serve \/ PeerGoes \/ Over \/ UNCHANGED vars
      PROVE  BrokenInv'
  BY <1>5 DEF ShutdownRead, CloseOutside, Serve, PeerGoes, Over, vars, net
<1> QED
  BY <1>1, <1>2, <1>3, <1>4, <1>5 DEF Next, Step

(* A call is its thread's own business: a step that leaves the others'     *)
(* places, counts and results alone, and runs none of their calls, leaves  *)
(* their calls as they were.                                               *)
LEMMA OthersKeepTheirCalls ==
    ASSUME IInv, NEW t \in Threads,
           \A u \in Threads \ {t} :
              /\ pc'[u] = pc[u] /\ issued'[u] = issued[u]
              /\ \A k \in 1 .. MaxCalls :
                    /\ result'[<<u, k>>] = result[<<u, k>>]
                    /\ <<u, k>> \in ran' => <<u, k>> \in ran
    PROVE  \A u \in Threads \ {t} : CallsOf(u)'
<1> SUFFICES ASSUME NEW u \in Threads \ {t} PROVE CallsOf(u)'
  OBVIOUS
<1>1. CallsOf(u) /\ issued[u] \in 0 .. MaxCalls
  BY DEF IInv, TypeOK, CallInv
<1>2. /\ pc'[u] = pc[u] /\ issued'[u] = issued[u]
      /\ \A k \in 1 .. MaxCalls :
            /\ result'[<<u, k>>] = result[<<u, k>>]
            /\ <<u, k>> \in ran' => <<u, k>> \in ran
  OBVIOUS
<1>3. (pc[u] # "idle" => issued[u] > 0)'
  BY <1>1, <1>2 DEF CallsOf
<1>4. (pc[u] \in {"lock", "send"} => Current(u) \notin ran)'
  <2>1. SUFFICES ASSUME pc[u] \in {"lock", "send"} PROVE <<u, issued[u]>> \notin ran'
    BY <1>2 DEF Current
  <2>2. issued[u] \in 1 .. MaxCalls /\ <<u, issued[u]>> \notin ran
    BY <1>1, <2>1, MaxCallsAssumption DEF CallsOf, Current
  <2> QED
    BY <1>2, <2>2
<1>5. ASSUME NEW k \in 1 .. MaxCalls
      PROVE  /\ result'[<<u, k>>] \in {Pending, Failed, <<u, k>>}
             /\ result'[<<u, k>>] = Pending <=>
                   k > issued'[u] \/ (k = issued'[u] /\ pc'[u] # "idle")
             /\ k > issued'[u] => <<u, k>> \notin ran'
  BY <1>1, <1>2 DEF CallsOf
<1> QED
  BY <1>3, <1>4, <1>5 DEF CallsOf

(* Each call is answered by its own line, and only when it is over does    *)
(* its thread go on to the next.                                           *)
LEMMA NextCalls == IInv /\ [Next]_vars => CallInv'
<1> SUFFICES ASSUME IInv, [Next]_vars PROVE CallInv'
  OBVIOUS
<1> USE MaxCallsAssumption, MarksAreNoCalls, CallsArePairs DEF IInv, TypeOK
<1>1. ASSUME NEW t \in Threads, Command(t) PROVE CallInv'
  <2>1. issued[t] + 1 \in 1 .. MaxCalls /\ issued'[t] = issued[t] + 1 /\ pc'[t] = "lock"
    BY <1>1 DEF Command
  <2>2. CallsOf(t)'
    <3>1. CallsOf(t) /\ pc[t] = "idle" /\ UNCHANGED <<result, ran>>
      BY <1>1 DEF Command, net, CallInv
    <3>2. <<t, issued'[t]>> \notin ran
      BY <2>1, <3>1 DEF CallsOf
    <3>3. ASSUME NEW k \in 1 .. MaxCalls
          PROVE  /\ result'[<<t, k>>] \in {Pending, Failed, <<t, k>>}
                 /\ result'[<<t, k>>] = Pending <=>
                       k > issued'[t] \/ (k = issued'[t] /\ pc'[t] # "idle")
                 /\ k > issued'[t] => <<t, k>> \notin ran'
      BY <2>1, <3>1 DEF CallsOf
    <3> QED
      BY <2>1, <3>1, <3>2, <3>3 DEF CallsOf, Current
  <2>3. \A u \in Threads \ {t} : CallsOf(u)'
    BY <1>1, OthersKeepTheirCalls DEF Command, net
  <2> QED
    BY <2>2, <2>3 DEF CallInv
<1>2. ASSUME NEW t \in Threads, EnterMu(t) \/ SendFails(t) \/ ReadFails(t) PROVE CallInv'
  BY <1>2 DEF EnterMu, SendFails, ReadFails, net, CallInv, CallsOf, Current
<1>3. ASSUME NEW t \in Threads, Send(t) \/ RefuseLine(t) PROVE CallInv'
  <2>1. /\ pc[t] \in {"send", "read"} /\ UNCHANGED <<issued, result>>
        /\ \E p \in {"read", "fail"} : pc' = [pc EXCEPT ![t] = p]
    BY <1>3 DEF Send, RefuseLine
  <2>2. ran' = ran
    BY <1>3 DEF Send, RefuseLine
  <2> QED
    BY <2>1, <2>2 DEF CallInv, CallsOf, Current
<1>4. ASSUME NEW t \in Threads, ReadLine(t) \/ ReadCutLine(t) PROVE CallInv'
  <2>0. ReturnLine(t) /\ UNCHANGED <<issued, ran>>
    BY <1>4 DEF ReadLine, ReadCutLine
  <2>1. mu = t /\ Head(inbox) = Current(t)
    BY <2>0 DEF ReturnLine, LineInv, Written
  <2>2. /\ result' = [result EXCEPT ![Current(t)] = Current(t)]
        /\ pc' = [pc EXCEPT ![t] = "idle"] /\ UNCHANGED <<issued, ran>>
    BY <2>0, <2>1 DEF ReturnLine
  <2>3. Current(t) \in Calls /\ Current(t) = <<t, issued[t]>> /\ issued[t] \in 1 .. MaxCalls
    BY <2>0, CurrentIsCall DEF ReturnLine
  <2>4. CallsOf(t)'
    BY <2>2, <2>3 DEF CallInv, CallsOf
  <2>5. \A u \in Threads \ {t} :
           /\ pc'[u] = pc[u] /\ issued'[u] = issued[u]
           /\ \A k \in 1 .. MaxCalls :
                 /\ result'[<<u, k>>] = result[<<u, k>>]
                 /\ <<u, k>> \in ran' => <<u, k>> \in ran
    BY <2>2, <2>3
  <2>6. \A u \in Threads \ {t} : CallsOf(u)'
    <3> HIDE DEF IInv, TypeOK
    <3> QED
      BY <2>5, OthersKeepTheirCalls
  <2> QED
    BY <2>4, <2>6 DEF CallInv
<1>5. ASSUME NEW t \in Threads, CloseAndRaise(t) PROVE CallInv'
  <2>1. Current(t) \in Calls /\ Current(t) = <<t, issued[t]>> /\ issued[t] \in 1 .. MaxCalls
    BY <1>5, CurrentIsCall DEF CloseAndRaise
  <2>2. CallsOf(t)'
    BY <1>5, <2>1 DEF CloseAndRaise, CallInv, CallsOf, net
  <2>3. \A u \in Threads \ {t} :
           /\ pc'[u] = pc[u] /\ issued'[u] = issued[u]
           /\ \A k \in 1 .. MaxCalls :
                 /\ result'[<<u, k>>] = result[<<u, k>>]
                 /\ <<u, k>> \in ran' => <<u, k>> \in ran
    BY <1>5, <2>1 DEF CloseAndRaise, net
  <2>4. \A u \in Threads \ {t} : CallsOf(u)'
    <3> HIDE DEF IInv, TypeOK
    <3> QED
      BY <2>3, OthersKeepTheirCalls
  <2> QED
    BY <2>2, <2>4 DEF CallInv
<1>6. ASSUME ShutdownRead \/ CloseOutside \/ PeerGoes \/ Over \/ UNCHANGED vars
      PROVE  CallInv'
  BY <1>6 DEF ShutdownRead, CloseOutside, PeerGoes, Over, vars, net, CallInv, CallsOf, Current
<1>7. ASSUME Serve PROVE CallInv'
  <2>1. PICK t \in Threads, k \in 1 .. MaxCalls : Head(wire) = <<t, k>>
    BY <1>7 DEF Serve
  <2>2. k <= issued[t] /\ ~ (k = issued[t] /\ pc[t] \in {"lock", "send"})
    <3>1. CallsOf(t) /\ <<t, k>> \in Calls /\ issued[t] \in 0 .. MaxCalls
      BY DEF CallInv
    <3>2. CASE Written(<<t, k>>)
      <4>1. mu = t /\ issued[t] = k /\ pc[t] \in {"read", "fail"}
        BY <3>2 DEF Written, Current
      <4> QED
        BY <4>1
    <3>3. CASE <<t, k>> = broken
      <4>1. result[<<t, k>>] = Failed
        BY <3>1, <3>3 DEF BrokenInv
      <4> QED
        BY <3>1, <4>1 DEF CallsOf
    <3> QED
      BY <1>7, <2>1, <3>2, <3>3 DEF Serve, LineInv
  <2>3. ran' = ran \cup {<<t, k>>} /\ UNCHANGED <<pc, issued, result>>
    BY <1>7, <2>1 DEF Serve
  <2> QED
    BY <2>2, <2>3 DEF CallInv, CallsOf, Current
<1> QED
  BY <1>1, <1>2, <1>3, <1>4, <1>5, <1>6, <1>7 DEF Next, Step

(* Every step keeps the invariant.                                         *)
LEMMA NextInv == IInv /\ [Next]_vars => IInv'
  BY NextTypes, NextLine, NextBroken, NextCalls DEF IInv

(* However many threads share it, the connection is always in a state      *)
(* where what is under way belongs to the command that holds _mu.          *)
THEOREM Invariance == Spec => []IInv
<1>1. Init => IInv
  BY InitInv
<1>2. IInv /\ [Next]_vars => IInv'
  BY NextInv
<1> QED
  BY <1>1, <1>2, PTL DEF Spec

(* Every variable keeps its type, and _mu its one holder.                  *)
THEOREM TypeCorrect == Spec => []TypeOK
<1>1. IInv => TypeOK
  BY DEF IInv
<1> QED
  BY <1>1, Invariance, PTL

(* The two directions of the connection, while it is usable, hold one      *)
(* frame or one line between them, and it is that of the mutex's holder.   *)
LEMMA InFlightSuffices == IInv => OneInFlight
<1> SUFFICES ASSUME IInv, sock = "open"
             PROVE  /\ Len(wire \o inbox) <= 1
                    /\ \A c \in Calls :
                          wire \o inbox = <<c>> => /\ c = Current(c[1])
                                                   /\ mu = c[1] /\ pc[mu] \in {"read", "fail"}
  BY DEF OneInFlight
<1>1. wire \in Seq(Calls) /\ inbox \in Seq(Calls) /\ mu \in Threads \cup {Nobody}
  BY DEF IInv, TypeOK
<1>2. Len(wire) <= 1 /\ Len(inbox) <= 1 /\ (wire = <<>> \/ inbox = <<>>)
  BY DEF IInv, LineInv
<1>3. /\ wire # <<>> => wire \o inbox = wire /\ Written(Head(wire))
      /\ inbox # <<>> => wire \o inbox = inbox /\ Written(Head(inbox))
  BY <1>1, <1>2, MarksAreNoCalls DEF IInv, LineInv, BrokenInv
<1>4. ASSUME NEW c \in Calls, wire \o inbox = <<c>> PROVE Written(c)
  <2>1. wire # <<>> \/ inbox # <<>>
    BY <1>1, <1>4
  <2> QED
    BY <1>3, <1>4, <2>1
<1>5. Len(wire \o inbox) <= 1
  BY <1>1, <1>2
<1>6. ASSUME NEW c \in Calls, Written(c)
      PROVE  c = Current(c[1]) /\ mu = c[1] /\ pc[mu] \in {"read", "fail"}
  BY <1>6 DEF Written, Current
<1> QED
  BY <1>4, <1>5, <1>6

(* "Request/response bytes never interleave on the wire", whatever the     *)
(* number of threads and of their commands (SyncConn.command() and _mu).   *)
THEOREM OneUnderWay == Spec => []OneInFlight
  BY Invariance, InFlightSuffices, PTL

-----------------------------------------------------------------------------
(* The refinement: what became of a call, told from what the code keeps.   *)
Fate(c) ==
    IF c[2] > issued[c[1]] THEN "new"
    ELSE IF result[c] = Pending THEN "pending"
    ELSE IF result[c] = Failed THEN "failed" ELSE "answered"

(* No call has the answer to another.                                      *)
LEMMA StatusIsFate == IInv => Status = [c \in Calls |-> Fate(c)]
<1> SUFFICES ASSUME IInv, NEW c \in Calls
             PROVE  Fate(c) =
                      CASE c[2] > issued[c[1]]    -> "new"
                        [] c[2] <= issued[c[1]] /\ result[c] = Pending -> "pending"
                        [] result[c] = Failed     -> "failed"
                        [] result[c] = c          -> "answered"
                        [] result[c] \in Calls \ {c} -> "mispaired"
  BY DEF Status
<1>1. c[1] \in Threads /\ c[2] \in 1 .. MaxCalls /\ c = <<c[1], c[2]>>
  BY CallsArePairs
<1>2. /\ result[c] \in {Pending, Failed, c}
      /\ result[c] = Pending <=>
            c[2] > issued[c[1]] \/ (c[2] = issued[c[1]] /\ pc[c[1]] # "idle")
  BY <1>1 DEF IInv, CallInv, CallsOf
<1>3. issued[c[1]] \in 0 .. MaxCalls
  BY <1>1 DEF IInv, TypeOK
<1>4. /\ c # Pending /\ c # Failed /\ Pending # Failed
      /\ Pending \notin Calls \ {c} /\ Failed \notin Calls \ {c} /\ c \notin Calls \ {c}
  BY MarksAreNoCalls
<1>5. CASE c[2] > issued[c[1]]
  BY <1>1, <1>2, <1>3, <1>4, <1>5 DEF Fate
<1>6. CASE ~ (c[2] > issued[c[1]])
  BY <1>1, <1>2, <1>3, <1>4, <1>6 DEF Fate
<1> QED
  BY <1>5, <1>6

(* The same of the state a step leads to.                                  *)
LEMMA StatusIsFateNext == IInv' => Status' = [c \in Calls |-> Fate(c)']
<1>1. IInv' => (Status = [c \in Calls |-> Fate(c)])'
  BY StatusIsFate, PTL
<1> QED
  BY <1>1

(* A new connection has made no call.                                      *)
LEMMA InitRefines == Init => Channel!AInit
<1> SUFFICES ASSUME Init PROVE Channel!AInit
  OBVIOUS
<1>1. \A c \in Calls : Fate(c) = "new"
  BY CallsArePairs DEF Init, Fate
<1>2. Status = [c \in Calls |-> "new"]
  BY <1>1, InitInv, StatusIsFate
<1> QED
  BY <1>2 DEF Channel!AInit, Init, Channel!Calls, Calls, Channel!NoCall, NoCall

(* Issuing a call, when the ones before it are over.                       *)
LEMMA CommandRefines ==
    ASSUME IInv, IInv', NEW t \in Threads, Command(t)
    PROVE  \E c \in Calls : Channel!Issue(c)
<1>0. issued[t] \in 0 .. MaxCalls /\ issued[t] + 1 \in 1 .. MaxCalls
  BY MaxCallsAssumption DEF Command, IInv, TypeOK
<1>1. PICK n \in 1 .. MaxCalls : n = issued[t] + 1
  BY <1>0
<1>2. /\ pc[t] = "idle" /\ issued' = [issued EXCEPT ![t] = n] /\ result' = result
      /\ <<t, n>> \in Calls
  BY <1>1, CallsArePairs DEF Command
<1>3. Fate(<<t, n>>) = "new" /\ Fate(<<t, n>>)' = "pending"
  BY <1>0, <1>1, <1>2 DEF Fate, IInv, CallInv, CallsOf, TypeOK
<1>4. \A c \in Calls \ {<<t, n>>} : Fate(c)' = Fate(c)
  <2> SUFFICES ASSUME NEW c \in Calls \ {<<t, n>>} PROVE Fate(c)' = Fate(c)
    OBVIOUS
  <2>1. c[1] \in Threads /\ c[2] \in 1 .. MaxCalls /\ c = <<c[1], c[2]>>
    BY CallsArePairs
  <2>2. CASE c[1] # t
    BY <1>2, <2>1, <2>2 DEF Fate, IInv, TypeOK
  <2>3. CASE c[1] = t
    <3>1. c[2] # n
      BY <2>1, <2>3
    <3> QED
      BY <1>0, <1>1, <1>2, <2>1, <2>3, <3>1 DEF Fate, IInv, TypeOK
  <2> QED
    BY <2>2, <2>3
<1>5. Status' = [Status EXCEPT ![<<t, n>>] = "pending"]
  <2>1. Status = [c \in Calls |-> Fate(c)]
    BY StatusIsFate
  <2>2. Status' = [c \in Calls |-> Fate(c)']
    BY StatusIsFateNext
  <2> QED
    BY <1>3, <1>4, <2>1, <2>2
<1>6. \A k \in 1 .. n - 1 : Status[<<t, k>>] \in {"answered", "failed", "withdrawn"}
  <2> SUFFICES ASSUME NEW k \in 1 .. n - 1 PROVE Status[<<t, k>>] \in {"answered", "failed"}
    OBVIOUS
  <2>1. k \in 1 .. MaxCalls /\ k <= issued[t]
    BY <1>0, <1>1, MaxCallsAssumption
  <2>2. result[<<t, k>>] # Pending
    BY <1>0, <1>1, <1>2, <2>1 DEF IInv, CallInv, CallsOf
  <2> QED
    BY <1>0, <2>1, <2>2, StatusIsFate, CallsArePairs DEF Fate
<1>7. Channel!Issue(<<t, n>>)
  BY <1>2, <1>3, <1>5, <1>6, StatusIsFate DEF Channel!Issue, Channel!Over, Command, net
<1> QED
  BY <1>2, <1>7

(* A call that ends was pending, and the other calls fare as before.       *)
LEMMA EndOfCall ==
    ASSUME IInv, IInv', NEW t \in Threads, pc[t] # "idle", issued' = issued,
           NEW r \in {Failed, Current(t)}, result' = [result EXCEPT ![Current(t)] = r]
    PROVE  /\ Status[Current(t)] = "pending"
           /\ Status' = [Status EXCEPT ![Current(t)] =
                            IF r = Failed THEN "failed" ELSE "answered"]
<1>1. /\ Current(t) \in Calls /\ Current(t) = <<t, issued[t]>> /\ issued[t] \in 1 .. MaxCalls
      /\ result[Current(t)] = Pending
  BY CurrentIsCall, Zenon
<1>2. Fate(Current(t)) = "pending"
  BY <1>1 DEF Fate
<1>3. r # Pending /\ result \in [Calls -> Calls \cup {Pending, Failed}]
  <2>1. r # Pending
    BY <1>1, MarksAreNoCalls
  <2>2. result \in [Calls -> Calls \cup {Pending, Failed}]
    BY Zenon DEF IInv, TypeOK
  <2> QED
    BY <2>1, <2>2
<1>4. ~ (Current(t)[2] > issued[Current(t)[1]])
  BY <1>1
<1>5. ASSUME NEW c \in Calls
      PROVE  Fate(c)' = IF c = Current(t) THEN (IF r = Failed THEN "failed" ELSE "answered")
                        ELSE Fate(c)
  <2>1. CASE c = Current(t)
    BY <1>1, <1>3, <1>4, <2>1 DEF Fate
  <2>2. CASE c # Current(t)
    BY <1>1, <1>3, <2>2 DEF Fate
  <2> QED
    BY <2>1, <2>2
<1>6. Status' = [c \in Calls |-> Fate(c)'] /\ Status = [c \in Calls |-> Fate(c)]
  BY StatusIsFate, StatusIsFateNext
<1> QED
  BY <1>1, <1>2, <1>5, <1>6

(* The line a thread reads answers its own call, which ran and came before *)
(* any failure.                                                            *)
LEMMA ReadRefines ==
    ASSUME IInv, IInv', NEW t \in Threads, ReadLine(t) \/ ReadCutLine(t)
    PROVE  \E c \in Calls : Channel!Answer(c)
<1>1. pc[t] = "read" /\ sock # "closed" /\ inbox # <<>> /\ UNCHANGED <<issued, ran, broken>>
  BY DEF ReadLine, ReadCutLine, ReturnLine
<1>2. mu = t
  BY <1>1, NobodyAssumption DEF IInv, TypeOK
<1>3. Head(inbox) = Current(t) /\ Current(t) \in ran /\ broken = NoCall
  BY <1>1, <1>2 DEF IInv, LineInv, BrokenInv, Written
<1>4. Current(t) \in Calls
  BY <1>1, CurrentIsCall
<1>5. result' = [result EXCEPT ![Current(t)] = Current(t)]
  BY <1>3 DEF ReadLine, ReadCutLine, ReturnLine
<1>6. Status[Current(t)] = "pending" /\ Status' = [Status EXCEPT ![Current(t)] = "answered"]
  BY <1>1, <1>4, <1>5, EndOfCall, MarksAreNoCalls
<1>7. Channel!Answer(Current(t))
  BY <1>1, <1>3, <1>6 DEF Channel!Answer, Channel!NoCall, NoCall
<1> QED
  BY <1>4, <1>7

(* A command that raises fails its own call, and breaks the connection.    *)
LEMMA RaiseRefines ==
    ASSUME IInv, IInv', NEW t \in Threads, CloseAndRaise(t)
    PROVE  \E c \in Calls : Channel!Fail(c)
<1>1. /\ pc[t] = "fail" /\ UNCHANGED <<issued, ran>>
      /\ broken' = IF broken = NoCall THEN Current(t) ELSE broken
      /\ result' = [result EXCEPT ![Current(t)] = Failed]
  BY DEF CloseAndRaise, net
<1>2. Current(t) \in Calls
  BY <1>1, CurrentIsCall
<1>3. Status[Current(t)] = "pending" /\ Status' = [Status EXCEPT ![Current(t)] = "failed"]
  BY <1>1, <1>2, EndOfCall
<1>4. Channel!Fail(Current(t))
  BY <1>1, <1>3 DEF Channel!Fail, Channel!NoCall, NoCall
<1> QED
  BY <1>2, <1>4

(* The server runs the call of the mutex's holder, or, once the connection *)
(* is broken, what that very call left on the wire.                        *)
LEMMA ServeRefines ==
    ASSUME IInv, IInv', Serve
    PROVE  \E c \in Calls : Channel!Run(c)
<1>1. PICK c \in Calls : c = Head(wire)
  BY DEF Serve, IInv, TypeOK
<1>2. wire # <<>> /\ ran' = ran \cup {c} /\ UNCHANGED <<issued, result, broken>> /\ c \notin ran
  BY <1>1 DEF Serve, IInv, LineInv
<1>3. Status' = Status
  BY <1>2 DEF Status
<1>4. CASE broken = NoCall /\ Written(c)
  <2>1. mu \in Threads /\ pc[mu] # "idle" /\ c = Current(mu)
    BY <1>4 DEF Written
  <2>2. result[c] = Pending /\ issued[mu] \in 1 .. MaxCalls /\ c = <<mu, issued[mu]>>
    BY <2>1, CurrentIsCall
  <2>3. Fate(c) = "pending"
    BY <2>2 DEF Fate
  <2>4. Status[c] = "pending"
    BY <2>3, StatusIsFate
  <2> QED
    BY <1>2, <1>3, <1>4, <2>4 DEF Channel!Run, Channel!NoCall, NoCall
<1>5. CASE c = broken
  <2>1. result[c] = Failed /\ c # NoCall
    BY <1>5, MarksAreNoCalls DEF IInv, BrokenInv
  <2>2. c[1] \in Threads /\ c[2] \in 1 .. MaxCalls /\ c = <<c[1], c[2]>>
    BY CallsArePairs
  <2>3. ~ (c[2] > issued[c[1]])
    BY <2>1, <2>2, MarksAreNoCalls DEF IInv, CallInv, CallsOf
  <2>4. Fate(c) = "failed"
    BY <2>1, <2>3, MarksAreNoCalls DEF Fate
  <2>5. Status[c] = "failed"
    BY <2>4, StatusIsFate
  <2> QED
    BY <1>2, <1>3, <1>5, <2>5 DEF Channel!Run
<1> QED
  BY <1>1, <1>2, <1>4, <1>5 DEF IInv, LineInv

(* Every step of the connection is one of the promise, or none.            *)
LEMMA StepRefines ==
    IInv /\ IInv' /\ [Next]_vars => [Channel!ANext]_(Channel!avars)
<1> SUFFICES ASSUME IInv, IInv', [Next]_vars PROVE [Channel!ANext]_(Channel!avars)
  OBVIOUS
<1>1. Channel!Calls = Calls
  BY DEF Channel!Calls, Calls
<1>2. ASSUME NEW t \in Threads, Command(t) PROVE Channel!ANext
  BY <1>1, <1>2, CommandRefines DEF Channel!ANext
<1>3. ASSUME NEW t \in Threads, ReadLine(t) \/ ReadCutLine(t) PROVE Channel!ANext
  BY <1>1, <1>3, ReadRefines DEF Channel!ANext
<1>4. ASSUME NEW t \in Threads, CloseAndRaise(t) PROVE Channel!ANext
  BY <1>1, <1>4, RaiseRefines DEF Channel!ANext
<1>5. ASSUME Serve PROVE Channel!ANext
  BY <1>1, <1>5, ServeRefines DEF Channel!ANext
<1>6. ASSUME UNCHANGED <<issued, result, ran, broken>> PROVE UNCHANGED Channel!avars
  BY <1>6 DEF Channel!avars, Status
<1>7. ASSUME NEW t \in Threads,
             EnterMu(t) \/ Send(t) \/ SendFails(t) \/ RefuseLine(t) \/ ReadFails(t)
      PROVE  UNCHANGED Channel!avars
  BY <1>6, <1>7 DEF EnterMu, Send, SendFails, RefuseLine, ReadFails, net
<1>8. ASSUME ShutdownRead \/ CloseOutside \/ PeerGoes \/ Over \/ UNCHANGED vars
      PROVE  UNCHANGED Channel!avars
  BY <1>6, <1>8 DEF ShutdownRead, CloseOutside, PeerGoes, Over, vars, net
<1> QED
  BY <1>2, <1>3, <1>4, <1>5, <1>7, <1>8 DEF Next, Step

(* The connection keeps its promise to any number of threads with any      *)
(* number of commands: each is answered by the answer to itself or fails,  *)
(* takes effect once at most, and after the first failure nothing more is  *)
(* sent or answered (command(): _mu, and the close when it raises).        *)
THEOREM PromiseKept == Spec => KeepsPromise
<1>1. Init => Channel!AInit
  BY InitRefines
<1>2. IInv /\ IInv' /\ [Next]_vars => [Channel!ANext]_(Channel!avars)
  BY StepRefines
<1>3. Spec => []IInv
  BY Invariance
<1> QED
  BY <1>1, <1>2, <1>3, PTL DEF Spec, KeepsPromise, Channel!ASpec

=============================================================================
