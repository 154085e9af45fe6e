-------------------------- MODULE AsyncConnProofs ---------------------------
(***************************************************************************)
(* That an AsyncConn over plain TCP keeps its promise, for any number of   *)
(* tasks and of commands.  What the mutex and close_nowait() do for it is  *)
(* less obvious than in SyncConn, since a transport may flush and drain()  *)
(* may succeed after the failure; what saves it is that such a transport   *)
(* still holds the last frame, and has stopped reading.                    *)
(***************************************************************************)
EXTENDS AsyncConn, SequenceTheorems, TLAPS

(* The call was written: its task has not returned, or it has failed.      *)
Written(c) ==
    result[c] = Failed \/ (c = Current(c[1]) /\ pc[c[1]] \in {"drain", "read"})

(* Frames on the wire are of different calls, none of which has run; lines *)
(* on their way back are of calls that have.                               *)
WireInv ==
    /\ IsInjective(wire)
    /\ \A i \in DOMAIN wire : wire[i] \notin ran /\ Written(wire[i])
    /\ \A i \in DOMAIN inbox : inbox[i] \in ran
    /\ \A i \in DOMAIN buffer : buffer[i] \in ran

(* While the transport is open, one frame or line at most is under way:    *)
(* that of the task that holds _mu.                                        *)
OpenInv ==
    transport = "open" =>
        /\ broken = NoCall
        /\ mu = Nobody => wire = <<>> /\ inbox = <<>> /\ buffer = <<>>
        /\ mu \in Tasks =>
              \/ wire = <<Current(mu)>> /\ inbox = <<>> /\ buffer = <<>>
              \/ wire = <<>> /\ inbox = <<Current(mu)>> /\ buffer = <<>>
              \/ wire = <<>> /\ inbox = <<>> /\ buffer = <<Current(mu)>>
        /\ backlog => wire # <<>>

(* A task that reads finds its own line or none, and none once a command   *)
(* has failed; a transport that flushes had sent no whole frame when it    *)
(* was closed, so nothing has been read since.                             *)
ReadInv ==
    /\ transport = "flushing" => buffer = <<>>
    /\ \A t \in Tasks :
          pc[t] = "read" =>
              /\ buffer \in {<<>>, <<Current(t)>>}
              /\ broken # NoCall => buffer = <<>>

(* A task's calls are over up to the last, and that one is when it idles.  *)
CallsOf(t) ==
    /\ pc[t] # "idle" => issued[t] > 0
    /\ pc[t] = "lock" => Current(t) \notin ran
    /\ \A k \in 1 .. MaxCalls :
          /\ result[<<t, k>>] \in {Pending, Failed, Withdrawn, <<t, k>>}
          /\ result[<<t, k>>] = Pending <=>
                k > issued[t] \/ (k = issued[t] /\ pc[t] # "idle")
          /\ k > issued[t] => <<t, k>> \notin ran

CallInv == \A t \in Tasks : CallsOf(t)

IInv == TypeOK /\ WireInv /\ OpenInv /\ ReadInv /\ CallInv
-----------------------------------------------------------------------------
(* The queue for _mu.                                                      *)

(* A task joins the queue at its end.                                      *)
LEMMA Joining ==
    ASSUME NEW q \in Seq(Tasks), IsInjective(q), NEW t \in Tasks, ~ Contains(q, t)
    PROVE  /\ Append(q, t) \in Seq(Tasks) /\ IsInjective(Append(q, t))
           /\ \A u \in Tasks : Contains(Append(q, t), u) <=> Contains(q, u) \/ u = t
<1>1. /\ Append(q, t) \in Seq(Tasks) /\ Len(Append(q, t)) = Len(q) + 1
      /\ \A i \in 1 .. Len(q) : Append(q, t)[i] = q[i]
      /\ Append(q, t)[Len(q) + 1] = t
  OBVIOUS
<1>2. Len(q) \in Nat
  OBVIOUS
<1>3. IsInjective(Append(q, t))
  BY <1>1, <1>2 DEF IsInjective, Contains
<1>4. ASSUME NEW u \in Tasks
      PROVE  Contains(Append(q, t), u) <=> Contains(q, u) \/ u = t
  BY <1>1, <1>2 DEF Contains
<1> QED
  BY <1>1, <1>3, <1>4

(* A task leaves the queue, from wherever in it.                           *)
LEMMA Leaving ==
    ASSUME NEW q \in Seq(Tasks), IsInjective(q), NEW i \in DOMAIN q
    PROVE  /\ RemoveAt(q, i) \in Seq(Tasks) /\ IsInjective(RemoveAt(q, i))
           /\ \A u \in Tasks : Contains(RemoveAt(q, i), u) <=> Contains(q, u) /\ u # q[i]
<1> DEFINE r == RemoveAt(q, i)
<1>1. i \in 1 .. Len(q) /\ Len(q) \in Nat
  OBVIOUS
<1>2. /\ SubSeq(q, 1, i - 1) \in Seq(Tasks) /\ Len(SubSeq(q, 1, i - 1)) = i - 1
      /\ \A k \in 1 .. i - 1 : SubSeq(q, 1, i - 1)[k] = q[k]
      /\ SubSeq(q, i + 1, Len(q)) \in Seq(Tasks) /\ Len(SubSeq(q, i + 1, Len(q))) = Len(q) - i
      /\ \A k \in 1 .. Len(q) - i : SubSeq(q, i + 1, Len(q))[k] = q[i + k]
  <2>1. /\ \A k \in 1 .. i - 1 : q[k] \in Tasks
        /\ \A k \in i + 1 .. Len(q) : q[k] \in Tasks
    OBVIOUS
  <2> QED
    BY <1>1, <2>1, SubSeqProperties
<1>3. /\ r \in Seq(Tasks) /\ Len(r) = Len(q) - 1
      /\ \A k \in 1 .. Len(q) - 1 : r[k] = IF k < i THEN q[k] ELSE q[k + 1]
  <2>1. r = SubSeq(q, 1, i - 1) \o SubSeq(q, i + 1, Len(q))
    BY DEF RemoveAt
  <2> DEFINE a == SubSeq(q, 1, i - 1)
             b == SubSeq(q, i + 1, Len(q))
  <2>2. /\ r \in Seq(Tasks) /\ Len(r) = Len(q) - 1
        /\ \A k \in 1 .. Len(q) - 1 : r[k] = IF k <= i - 1 THEN a[k] ELSE b[k - (i - 1)]
    <3>1. a \in Seq(Tasks) /\ b \in Seq(Tasks) /\ Len(a) = i - 1 /\ Len(b) = Len(q) - i /\ r = a \o b
      BY <1>2, <2>1
    <3> HIDE DEF a, b, r
    <3>2. /\ r \in Seq(Tasks) /\ Len(r) = Len(a) + Len(b)
          /\ \A k \in 1 .. Len(a) + Len(b) : r[k] = IF k <= Len(a) THEN a[k] ELSE b[k - Len(a)]
      BY <3>1, ConcatProperties
    <3>3. Len(a) + Len(b) = Len(q) - 1
      BY <1>1, <3>1
    <3> QED
      BY <3>1, <3>2, <3>3
  <2>3. ASSUME NEW k \in 1 .. Len(q) - 1
        PROVE  r[k] = IF k < i THEN q[k] ELSE q[k + 1]
    <3>1. CASE k < i
      BY <1>1, <1>2, <2>2, <3>1
    <3>2. CASE ~ (k < i)
      <4>1. k - (i - 1) \in 1 .. Len(q) - i /\ i + (k - (i - 1)) = k + 1
        BY <1>1, <3>2
      <4>2. r[k] = b[k - (i - 1)]
        BY <1>1, <2>2, <3>2
      <4>3. b[k - (i - 1)] = q[i + (k - (i - 1))]
        BY <1>2, <4>1
      <4> QED
        BY <3>2, <4>1, <4>2, <4>3
    <3> QED
      BY <3>1, <3>2
  <2> QED
    BY <1>1, <2>2, <2>3
<1> HIDE DEF r
<1>4. DOMAIN r = 1 .. Len(q) - 1 /\ DOMAIN q = 1 .. Len(q)
  BY <1>1, <1>3
<1>5. IsInjective(r)
  <2>1. ASSUME NEW k \in 1 .. Len(q) - 1
        PROVE  \E j \in 1 .. Len(q) : j = (IF k < i THEN k ELSE k + 1) /\ r[k] = q[j]
    BY <1>1, <1>3
  <2>2. ASSUME NEW k \in DOMAIN r, NEW l \in DOMAIN r, r[k] = r[l] PROVE k = l
    <3>1. k \in 1 .. Len(q) - 1 /\ l \in 1 .. Len(q) - 1
      BY <1>4
    <3>2. PICK j \in 1 .. Len(q) : j = (IF k < i THEN k ELSE k + 1) /\ r[k] = q[j]
      BY <2>1, <3>1
    <3>3. PICK m \in 1 .. Len(q) : m = (IF l < i THEN l ELSE l + 1) /\ r[l] = q[m]
      BY <2>1, <3>1
    <3>4. j = m
      BY <1>4, <2>2, <3>2, <3>3 DEF IsInjective
    <3> QED
      BY <1>1, <3>1, <3>2, <3>3, <3>4
  <2> QED
    BY <2>2 DEF IsInjective
<1>6. ASSUME NEW u \in Tasks
      PROVE  Contains(r, u) <=> Contains(q, u) /\ u # q[i]
  <2>1. ASSUME NEW k \in 1 .. Len(q), q[k] = u, u # q[i]
        PROVE  Contains(r, u)
    <3>1. CASE k < i
      BY <1>1, <1>3, <2>1, <3>1 DEF Contains
    <3>2. CASE k > i
      <4>1. k - 1 \in 1 .. Len(q) - 1 /\ ~ (k - 1 < i) /\ (k - 1) + 1 = k
        BY <1>1, <3>2
      <4>2. r[k - 1] = u
        BY <1>3, <2>1, <4>1
      <4> QED
        BY <1>4, <4>1, <4>2 DEF Contains
    <3> QED
      BY <1>1, <2>1, <3>1, <3>2
  <2>2. ASSUME NEW k \in 1 .. Len(r), r[k] = u
        PROVE  Contains(q, u) /\ u # q[i]
    <3>0. k \in 1 .. Len(q) - 1
      BY <1>3
    <3>1. PICK j \in 1 .. Len(q) : q[j] = u /\ j # i
      <4>1. CASE k < i
        BY <1>1, <1>3, <2>2, <3>0, <4>1
      <4>2. CASE k >= i
        <5>1. k + 1 \in 1 .. Len(q) /\ k + 1 # i
          BY <1>1, <3>0, <4>2
        <5> QED
          BY <1>1, <1>3, <2>2, <3>0, <4>2, <5>1
      <4> QED
        BY <1>1, <3>0, <4>1, <4>2
    <3> QED
      BY <1>1, <1>4, <3>1 DEF Contains, IsInjective
  <2> QED
    BY <2>1, <2>2 DEF Contains
<1> QED
  BY <1>3, <1>5, <1>6 DEF r

(* The first in the queue leaves it.                                       *)
LEMMA LeavingFirst ==
    ASSUME NEW q \in Seq(Tasks), IsInjective(q), q # <<>>
    PROVE  /\ Tail(q) \in Seq(Tasks) /\ IsInjective(Tail(q))
           /\ \A u \in Tasks : Contains(Tail(q), u) <=> Contains(q, u) /\ u # Head(q)
<1>1. /\ Tail(q) \in Seq(Tasks) /\ Len(Tail(q)) = Len(q) - 1 /\ Len(q) \in Nat \ {0}
      /\ \A k \in 1 .. Len(q) - 1 : Tail(q)[k] = q[k + 1]
      /\ Head(q) = q[1]
  OBVIOUS
<1>2. DOMAIN Tail(q) = 1 .. Len(q) - 1 /\ DOMAIN q = 1 .. Len(q)
  BY <1>1
<1>3. IsInjective(Tail(q))
  BY <1>1, <1>2 DEF IsInjective
<1>4. ASSUME NEW u \in Tasks
      PROVE  Contains(Tail(q), u) <=> Contains(q, u) /\ u # Head(q)
  <2>1. ASSUME NEW k \in 1 .. Len(q), q[k] = u, u # Head(q)
        PROVE  Contains(Tail(q), u)
    <3>1. k - 1 \in 1 .. Len(q) - 1 /\ (k - 1) + 1 = k
      BY <1>1, <2>1
    <3> QED
      BY <1>1, <2>1, <3>1 DEF Contains
  <2>2. ASSUME NEW k \in 1 .. Len(Tail(q)), Tail(q)[k] = u
        PROVE  Contains(q, u) /\ u # Head(q)
    <3>1. k + 1 \in 1 .. Len(q) /\ q[k + 1] = u /\ k + 1 # 1
      BY <1>1, <2>2
    <3> QED
      BY <1>1, <1>2, <3>1 DEF Contains, IsInjective
  <2> QED
    BY <2>1, <2>2 DEF Contains
<1> QED
  BY <1>1, <1>3, <1>4

-----------------------------------------------------------------------------
(* The types, and who holds _mu or waits for it.                           *)

(* A call is a task and a number of one of its commands.                   *)
LEMMA CallsArePairs ==
    /\ \A t \in Tasks, k \in 1 .. MaxCalls : <<t, k>> \in Calls
    /\ \A c \in Calls : c[1] \in Tasks /\ c[2] \in 1 .. MaxCalls /\ c = <<c[1], c[2]>>
  BY DEF Calls

(* The marks of a result that is not a line are no calls.                  *)
LEMMA MarksAreNoCalls ==
    /\ Pending \notin Calls /\ Failed \notin Calls /\ Withdrawn \notin Calls /\ NoCall \notin Calls
    /\ Pending # Failed /\ Pending # Withdrawn /\ Failed # Withdrawn
<1>1. \A c \in Calls : \E t \in Tasks, k \in 1 .. MaxCalls : c = <<t, k>>
  BY DEF Calls
<1>2. /\ Pending # Failed /\ Pending # Withdrawn /\ Failed # Withdrawn
      /\ \A t, k : <<t, k>> # Pending /\ <<t, k>> # Failed /\ <<t, k>> # Withdrawn /\ <<t, k>> # NoCall
  BY DEF Pending, Failed, Withdrawn, NoCall
<1> QED
  BY <1>1, <1>2

(* A task inside command() has begun one.                                  *)
BegunInv == \A t \in Tasks : pc[t] # "idle" => issued[t] > 0

(* The call of a task inside command(), then, is one.                      *)
LEMMA CurrentIsCall ==
    ASSUME TypeOK, BegunInv, NEW t \in Tasks, pc[t] # "idle"
    PROVE  /\ issued[t] \in 1 .. MaxCalls
           /\ Current(t) \in Calls /\ Current(t) = <<t, issued[t]>>
  BY CallsArePairs, MaxCallsAssumption DEF TypeOK, BegunInv, Current

(* Nobody waits at first.                                                  *)
LEMMA InitTypes == Init => TypeOK /\ BegunInv
<1> SUFFICES ASSUME Init PROVE TypeOK /\ BegunInv
  OBVIOUS
<1>1. /\ waiters \in Seq(Tasks) /\ IsInjective(waiters)
      /\ \A t \in Tasks : ~ Contains(waiters, t)
  BY DEF Init, IsInjective, Contains
<1>2. backlog \in BOOLEAN /\ ownerClosed \in BOOLEAN
  BY Zenon DEF Init
<1> QED
  BY <1>1, <1>2, MaxCallsAssumption, NobodyAssumption DEF Init, TypeOK, BegunInv

(* Every step keeps the types.                                             *)
LEMMA NextTypes == TypeOK /\ BegunInv /\ [Next]_vars => TypeOK' /\ BegunInv'
<1> SUFFICES ASSUME TypeOK, BegunInv, [Next]_vars PROVE TypeOK' /\ BegunInv'
  OBVIOUS
<1> USE MaxCallsAssumption, NobodyAssumption DEF TypeOK, BegunInv, net, history
<1>1. ASSUME NEW t \in Tasks, Command(t) PROVE TypeOK' /\ BegunInv'
  <2>1. waiters' = Append(waiters, t) /\ ~ Contains(waiters, t)
    BY <1>1 DEF Command
  <2>2. /\ waiters' \in Seq(Tasks) /\ IsInjective(waiters')
        /\ \A u \in Tasks : Contains(waiters', u) <=> Contains(waiters, u) \/ u = t
    BY <2>1, Joining
  <2> QED
    BY <1>1, <2>2 DEF Command
<1>2. ASSUME NEW t \in Tasks, Write(t) PROVE TypeOK' /\ BegunInv'
  <2>1. mu = Nobody /\ waiters # <<>> /\ Head(waiters) = t /\ waiters' = Tail(waiters)
    BY <1>2 DEF Write, Turn
  <2>2. /\ waiters' \in Seq(Tasks) /\ IsInjective(waiters')
        /\ \A u \in Tasks : Contains(waiters', u) <=> Contains(waiters, u) /\ u # t
    BY <2>1, LeavingFirst
  <2>3. Contains(waiters, t)
    BY <2>1 DEF Contains
  <2>4. Current(t) \in Calls
    BY <2>3, CurrentIsCall
  <2>5. wire' \in Seq(Calls) /\ backlog' \in BOOLEAN
    <3>1. wire' \in {wire, Append(wire, Current(t))} /\ backlog' \in {TRUE, backlog}
      BY <1>2 DEF Write
    <3>2. wire \in Seq(Calls) /\ backlog \in BOOLEAN
      OBVIOUS
    <3>3. Append(wire, Current(t)) \in Seq(Calls)
      BY <2>4, <3>2
    <3>4. backlog' \in BOOLEAN
      BY <3>1, <3>2, Zenon
    <3> QED
      BY <3>1, <3>2, <3>3, <3>4
  <2> QED
    BY <1>2, <2>1, <2>2, <2>3, <2>5 DEF Write
<1>3. ASSUME NEW t \in Tasks, Withdraw(t) PROVE TypeOK' /\ BegunInv'
  <2>1. PICK i \in DOMAIN waiters : waiters[i] = t /\ waiters' = RemoveAt(waiters, i)
    BY <1>3 DEF Withdraw
  <2>2. /\ waiters' \in Seq(Tasks) /\ IsInjective(waiters')
        /\ \A u \in Tasks : Contains(waiters', u) <=> Contains(waiters, u) /\ u # t
    BY <2>1, Leaving
  <2> QED
    BY <1>3, <2>2 DEF Withdraw, TransportAfterWithdrawal
<1>4. ASSUME NEW t \in Tasks, Drained(t) PROVE TypeOK' /\ BegunInv'
  BY <1>4 DEF Drained
<1>5. ASSUME NEW t \in Tasks, ReadLine(t) PROVE TypeOK' /\ BegunInv'
  <2>1. Head(buffer) \in Calls /\ Tail(buffer) \in Seq(Calls)
    BY <1>5 DEF ReadLine
  <2> QED
    BY <1>5, <2>1 DEF ReadLine, ReturnLine
<1>6. ASSUME NEW t \in Tasks, ReadCutLine(t) PROVE TypeOK' /\ BegunInv'
  <2>1. Head(inbox) \in Calls
    BY <1>6 DEF ReadCutLine
  <2> QED
    BY <1>6, <2>1 DEF ReadCutLine, ReturnLine
<1>7. ASSUME NEW t \in Tasks, CommandFails(t) PROVE TypeOK' /\ BegunInv'
  <2>1. Current(t) \in Calls
    BY <1>7, CurrentIsCall DEF CommandFails
  <2>2. transport' \in {"open", "flushing", "closed"} /\ broken' \in Calls \cup {NoCall}
    BY <1>7, <2>1 DEF CommandFails, CloseNowait
  <2>3. buffer' \in Seq(Calls)
    <3>1. buffer' = buffer \/ (buffer # <<>> /\ buffer' = Tail(buffer))
      BY <1>7 DEF CommandFails
    <3>2. buffer \in Seq(Calls)
      OBVIOUS
    <3> HIDE DEF TypeOK, BegunInv, net, history
    <3> QED
      BY <3>1, <3>2
  <2> QED
    BY <1>7, <2>1, <2>2, <2>3 DEF CommandFails, ReleasedMu
<1>8. CASE OwnerCloses
  BY <1>8 DEF OwnerCloses, CloseNowait, local
<1>9. CASE Flush \/ ConnectionLost \/ PeerGoes \/ Over \/ UNCHANGED vars
  <2>1. /\ backlog' \in {backlog, FALSE} /\ transport' \in {transport, "closed"}
        /\ peer' \in {peer, "gone"}
    BY <1>9 DEF Flush, ConnectionLost, PeerGoes, Over, vars
  <2>2. UNCHANGED <<local, wire, inbox, ran, buffer, history>>
    BY <1>9 DEF Flush, ConnectionLost, PeerGoes, Over, vars
  <2> QED
    BY <2>1, <2>2 DEF local
<1>10. CASE Feed
  <2>1. Head(inbox) \in Calls /\ Tail(inbox) \in Seq(Calls)
    BY <1>10 DEF Feed
  <2> QED
    BY <1>10, <2>1 DEF Feed, local
<1>11. CASE Serve
  <2>1. Head(wire) \in Calls /\ Tail(wire) \in Seq(Calls)
    BY <1>11 DEF Serve
  <2> QED
    BY <1>11, <2>1 DEF Serve, local
<1> QED
  BY <1>1, <1>2, <1>3, <1>4, <1>5, <1>6, <1>7, <1>8, <1>9, <1>10, <1>11 DEF Next, InCommand

(* Every variable keeps its type; _mu is held by the task that has written *)
(* and not returned, and its queue is of the tasks that wait, each once.   *)
THEOREM TypeCorrect == Spec => []TypeOK
  BY InitTypes, NextTypes, PTL DEF Spec

-----------------------------------------------------------------------------
(* What is under way.                                                      *)

(* One line, taken from where it waits, leaves nothing behind.             *)
LEMMA OneLine ==
    ASSUME NEW c
    PROVE  /\ <<c>> # <<>> /\ Head(<<c>>) = c /\ Tail(<<c>>) = <<>> /\ Append(<<>>, c) = <<c>>
           /\ \A d : <<d>> = <<c>> => d = c
  OBVIOUS

(* The invariant holds of a connection that has made no call.              *)
LEMMA InitInv == Init => IInv
<1> SUFFICES ASSUME Init PROVE IInv
  OBVIOUS
<1>1. WireInv
  BY DEF Init, WireInv, IsInjective
<1>2. OpenInv
  BY NobodyAssumption DEF Init, OpenInv
<1>3. ReadInv
  BY DEF Init, ReadInv
<1>4. CallInv
  <2>1. \A t \in Tasks : pc[t] = "idle" /\ issued[t] = 0 /\ ran = {}
    BY DEF Init
  <2>2. \A t \in Tasks, k \in 1 .. MaxCalls : result[<<t, k>>] = Pending /\ k > 0
    <3>1. \A c \in Calls : result[c] = Pending
      BY DEF Init
    <3> SUFFICES ASSUME NEW t \in Tasks, NEW k \in 1 .. MaxCalls
                 PROVE  result[<<t, k>>] = Pending /\ k > 0
      OBVIOUS
    <3>2. <<t, k>> \in Calls
      BY CallsArePairs
    <3>3. k > 0
      BY MaxCallsAssumption
    <3> QED
      BY <3>1, <3>2, <3>3
  <2> QED
    BY <2>1, <2>2, MaxCallsAssumption DEF CallInv, CallsOf
<1> QED
  BY <1>1, <1>2, <1>3, <1>4, InitTypes DEF IInv

(* The call of a task inside command() is not over.                        *)
LEMMA CurrentIsPending ==
    ASSUME IInv
    PROVE  /\ BegunInv
           /\ \A t \in Tasks : pc[t] # "idle" =>
                 /\ Current(t) \in Calls /\ Current(t) = <<t, issued[t]>>
                 /\ issued[t] \in 1 .. MaxCalls /\ result[Current(t)] = Pending
<1>1. BegunInv
  BY DEF IInv, CallInv, CallsOf, BegunInv
<1>2. ASSUME NEW t \in Tasks, pc[t] # "idle"
      PROVE  /\ Current(t) \in Calls /\ Current(t) = <<t, issued[t]>>
             /\ issued[t] \in 1 .. MaxCalls /\ result[Current(t)] = Pending
  <2>1. Current(t) \in Calls /\ Current(t) = <<t, issued[t]>> /\ issued[t] \in 1 .. MaxCalls
    BY <1>1, <1>2, CurrentIsCall DEF IInv
  <2> QED
    BY <1>2, <2>1 DEF IInv, CallInv, CallsOf
<1> QED
  BY <1>1, <1>2

(* The task that reads has _mu, and reads its own line before any failure. *)
LEMMA ReadsOwnLine ==
    ASSUME ~ Tls, IInv, NEW t \in Tasks, ReadLine(t) \/ ReadCutLine(t)
    PROVE  /\ mu = t /\ pc[t] = "read" /\ broken = NoCall /\ Current(t) \in ran
           /\ result' = [result EXCEPT ![Current(t)] = Current(t)]
           /\ pc' = [pc EXCEPT ![t] = "idle"] /\ mu' = Nobody
           /\ UNCHANGED <<issued, transport, backlog, wire, ran, broken>>
           /\ inbox' \in {inbox, <<>>} /\ buffer' \in {buffer, <<>>}
           /\ transport = "open" => wire = <<>> /\ inbox' = <<>> /\ buffer' = <<>> /\ ~ backlog
<1>1. /\ pc[t] = "read" /\ pc' = [pc EXCEPT ![t] = "idle"] /\ mu' = Nobody
      /\ UNCHANGED <<issued, transport, backlog, wire, ran, broken>>
  BY DEF ReadLine, ReadCutLine, ReturnLine
<1>2. mu = t
  BY <1>1 DEF IInv, TypeOK
<1>3. CASE ReadLine(t)
  <2>1. buffer = <<Current(t)>> /\ broken = NoCall
    BY <1>1, <1>3 DEF ReadLine, IInv, ReadInv
  <2>2. buffer' = <<>> /\ inbox' = inbox /\ result' = [result EXCEPT ![Current(t)] = Current(t)]
    BY <1>3, <2>1, OneLine DEF ReadLine, ReturnLine
  <2>3. Current(t) \in ran
    BY <2>1 DEF IInv, WireInv
  <2>4. transport = "open" => wire = <<>> /\ inbox = <<>> /\ ~ backlog
    BY <1>2, <2>1, OneLine DEF IInv, OpenInv
  <2> QED
    BY <1>1, <1>2, <2>1, <2>2, <2>3, <2>4
<1>4. CASE ReadCutLine(t)
  <2>1. transport = "open" /\ inbox # <<>> /\ inbox' = <<>> /\ buffer = <<>> /\ buffer' = buffer
        /\ result' = [result EXCEPT ![Current(t)] = Head(inbox)]
    BY <1>4 DEF ReadCutLine, ReturnLine
  <2>2. inbox = <<Current(t)>> /\ wire = <<>> /\ broken = NoCall /\ ~ backlog
    BY <1>2, <2>1, OneLine DEF IInv, OpenInv
  <2>3. Current(t) \in ran
    BY <2>2 DEF IInv, WireInv
  <2> QED
    BY <1>1, <1>2, <2>1, <2>2, <2>3, OneLine
<1> QED
  BY <1>3, <1>4

(* While the transport is open, the one frame or line under way is that of *)
(* the task that holds _mu.                                                *)
LEMMA NextOpen == ASSUME ~ Tls, IInv, [Next]_vars PROVE OpenInv'
<1> SUFFICES ASSUME transport' = "open" PROVE OpenInv'
  BY DEF OpenInv
<1> USE NobodyAssumption DEF net, history
<1>1. ASSUME NEW t \in Tasks, Command(t) PROVE OpenInv'
  <2>1. UNCHANGED <<mu, transport, backlog, wire, inbox, buffer, broken>>
    BY <1>1 DEF Command
  <2>2. mu \in Tasks => Current(mu)' = Current(mu)
    BY <1>1 DEF Command, Current, IInv, TypeOK
  <2> QED
    BY <2>1, <2>2 DEF OpenInv, IInv
<1>2. ASSUME NEW t \in Tasks, Write(t) PROVE OpenInv'
  <2>1. transport = "open" /\ mu = Nobody /\ mu' = t /\ Current(t)' = Current(t)
        /\ wire' = Append(wire, Current(t)) /\ UNCHANGED <<inbox, buffer, broken>>
    BY <1>2 DEF Write, Turn, Current
  <2>2. wire = <<>> /\ inbox = <<>> /\ buffer = <<>> /\ broken = NoCall
    BY <2>1 DEF OpenInv, IInv
  <2>3. wire' = <<Current(t)>>
    BY <2>1, <2>2, OneLine
  <2> QED
    BY <2>1, <2>2, <2>3, OneLine DEF OpenInv
<1>3. ASSUME NEW t \in Tasks, Withdraw(t) \/ Drained(t) PROVE OpenInv'
  <2>1. UNCHANGED <<mu, issued, transport, backlog, wire, inbox, buffer, broken>>
    BY <1>3 DEF Withdraw, Drained, TransportAfterWithdrawal
  <2> QED
    BY <2>1 DEF OpenInv, IInv, Current
<1>4. ASSUME NEW t \in Tasks, ReadLine(t) \/ ReadCutLine(t) PROVE OpenInv'
  BY <1>4, ReadsOwnLine DEF OpenInv
<1>5. ASSUME NEW t \in Tasks, CommandFails(t) PROVE OpenInv'
  BY <1>5 DEF CommandFails, CloseNowait, OpenInv
<1>6. CASE OwnerCloses
  BY <1>6 DEF OwnerCloses, CloseNowait, OpenInv
<1>7. CASE Flush \/ ConnectionLost \/ PeerGoes \/ Over \/ UNCHANGED vars
  <2>1. /\ UNCHANGED <<mu, issued, wire, inbox, buffer, broken>> /\ transport = "open"
        /\ backlog' => backlog
    BY <1>7 DEF Flush, ConnectionLost, PeerGoes, Over, vars, local
  <2> QED
    BY <2>1 DEF OpenInv, IInv, Current
<1>8. CASE Feed
  <2>1. /\ transport = "open" /\ UNCHANGED <<mu, issued, backlog, wire, broken>>
        /\ inbox # <<>> /\ inbox' = Tail(inbox) /\ buffer' = Append(buffer, Head(inbox))
    BY <1>8 DEF Feed, local
  <2>2. mu \in Tasks /\ inbox = <<Current(mu)>> /\ wire = <<>> /\ buffer = <<>>
    BY <2>1, OneLine DEF OpenInv, IInv, TypeOK
  <2>3. inbox' = <<>> /\ buffer' = <<Current(mu)>>
    BY <2>1, <2>2, OneLine
  <2> QED
    BY <2>1, <2>2, <2>3 DEF OpenInv, IInv, Current
<1>9. CASE Serve
  <2>1. /\ transport = "open" /\ UNCHANGED <<mu, issued, backlog, buffer, broken>> /\ ~ backlog
        /\ wire # <<>> /\ wire' = Tail(wire) /\ inbox' = Append(inbox, Head(wire))
    BY <1>9 DEF Serve, local
  <2>2. mu \in Tasks /\ wire = <<Current(mu)>> /\ inbox = <<>> /\ buffer = <<>>
    BY <2>1, OneLine DEF OpenInv, IInv, TypeOK
  <2>3. wire' = <<>> /\ inbox' = <<Current(mu)>>
    BY <2>1, <2>2, OneLine
  <2> QED
    BY <2>1, <2>2, <2>3 DEF OpenInv, IInv, Current
<1> QED
  BY <1>1, <1>2, <1>3, <1>4, <1>5, <1>6, <1>7, <1>8, <1>9 DEF Next, InCommand

(* Nobody reads a line of another command, nor any after a failure.        *)
LEMMA NextRead == ASSUME ~ Tls, IInv, [Next]_vars PROVE ReadInv'
<1> USE NobodyAssumption DEF net, history
<1>0. \A t \in Tasks : pc[t] = "read" => mu = t
  BY DEF IInv, TypeOK
<1>1. ASSUME NEW t \in Tasks, Command(t) PROVE ReadInv'
  <2>1. UNCHANGED <<transport, buffer, broken>> /\ pc'[t] # "read"
        /\ \A u \in Tasks : u # t => pc'[u] = pc[u] /\ Current(u)' = Current(u)
    BY <1>1 DEF Command, Current, IInv, TypeOK
  <2> QED
    BY <2>1 DEF ReadInv, IInv
<1>2. ASSUME NEW t \in Tasks, Write(t) \/ Withdraw(t) PROVE ReadInv'
  <2>1. UNCHANGED <<transport, issued, buffer, broken>>
        /\ \A u \in Tasks : pc'[u] = "read" => pc[u] = "read"
    BY <1>2 DEF Write, Withdraw, TransportAfterWithdrawal, IInv, TypeOK
  <2> QED
    BY <2>1 DEF ReadInv, IInv, Current
<1>3. ASSUME NEW t \in Tasks, Drained(t) PROVE ReadInv'
  <2>1. /\ UNCHANGED <<transport, issued, buffer, broken>> /\ transport # "closed" /\ mu = t
        /\ \A u \in Tasks : u # t => pc'[u] = pc[u]
    BY <1>3 DEF Drained, IInv, TypeOK
  <2>2. CASE transport = "flushing"
    BY <2>1, <2>2 DEF ReadInv, IInv, Current
  <2>3. CASE transport = "open"
    <3>1. buffer \in {<<>>, <<Current(t)>>} /\ broken = NoCall
      BY <2>1, <2>3 DEF OpenInv, IInv
    <3> QED
      BY <2>1, <3>1 DEF ReadInv, IInv, Current
  <2> QED
    BY <2>1, <2>2, <2>3 DEF IInv, TypeOK
<1>4. ASSUME NEW t \in Tasks, ReadLine(t) \/ ReadCutLine(t) PROVE ReadInv'
  <2>1. /\ transport' = transport /\ buffer' \in {buffer, <<>>}
        /\ mu = t /\ pc' = [pc EXCEPT ![t] = "idle"]
    BY <1>4, ReadsOwnLine
  <2>2. \A u \in Tasks : pc'[u] # "read"
    BY <1>0, <2>1 DEF IInv, TypeOK
  <2> QED
    BY <2>1, <2>2 DEF ReadInv, IInv
<1>5. ASSUME NEW t \in Tasks, CommandFails(t) PROVE ReadInv'
  <2>1. /\ pc[t] \in {"drain", "read"} /\ pc' = [pc EXCEPT ![t] = "idle"]
        /\ transport' = CloseNowait
        /\ buffer' = buffer \/ (buffer # <<>> /\ buffer' = Tail(buffer))
    BY <1>5 DEF CommandFails
  <2>2. \A u \in Tasks : pc'[u] # "read"
    BY <2>1, <1>0 DEF IInv, TypeOK
  <2>3. transport' = "flushing" => buffer = <<>>
    <3>1. CASE transport = "open"
      BY <2>1, <3>1, OneLine DEF CloseNowait, OpenInv, IInv, TypeOK
    <3>2. CASE transport # "open"
      BY <2>1, <3>2 DEF CloseNowait, ReadInv, IInv
    <3> QED
      BY <3>1, <3>2
  <2> QED
    BY <2>1, <2>2, <2>3 DEF ReadInv
<1>6. CASE OwnerCloses
  <2>1. transport = "open" /\ UNCHANGED <<pc, issued, buffer, broken>> /\ transport' = CloseNowait
    BY <1>6 DEF OwnerCloses, local
  <2>2. transport' = "flushing" => buffer = <<>>
    BY <2>1, OneLine DEF CloseNowait, OpenInv, IInv, TypeOK
  <2> QED
    BY <2>1, <2>2 DEF ReadInv, IInv, Current
<1>7. CASE Flush \/ ConnectionLost \/ Serve \/ PeerGoes \/ Over \/ UNCHANGED vars
  <2>1. UNCHANGED <<pc, issued, buffer, broken>> /\ (transport' = "flushing" => transport = "flushing")
    BY <1>7 DEF Flush, ConnectionLost, Serve, PeerGoes, Over, vars, local
  <2> QED
    BY <2>1 DEF ReadInv, IInv, Current
<1>8. CASE Feed
  <2>1. /\ transport = "open" /\ UNCHANGED <<pc, issued, mu, transport, broken>>
        /\ inbox # <<>> /\ buffer' = Append(buffer, Head(inbox))
    BY <1>8 DEF Feed, local
  <2>2. mu \in Tasks /\ inbox = <<Current(mu)>> /\ buffer = <<>> /\ broken = NoCall
    BY <2>1, OneLine DEF OpenInv, IInv, TypeOK
  <2>3. buffer' = <<Current(mu)>>
    BY <2>1, <2>2, OneLine
  <2> QED
    BY <1>0, <2>1, <2>2, <2>3 DEF ReadInv, Current
<1> QED
  BY <1>1, <1>2, <1>3, <1>4, <1>5, <1>6, <1>7, <1>8 DEF Next, InCommand

-----------------------------------------------------------------------------
(* What becomes of each call.                                              *)

(* A call is its task's own business: a step that leaves the others'       *)
(* places, counts and results alone, and runs none of their calls, leaves  *)
(* their calls as they were.                                               *)
LEMMA OthersKeepTheirCalls ==
    ASSUME IInv, NEW t \in Tasks,
           \A u \in Tasks \ {t} :
              /\ pc'[u] = pc[u] /\ issued'[u] = issued[u]
              /\ \A k \in 1 .. MaxCalls :
                    /\ result'[<<u, k>>] = result[<<u, k>>]
                    /\ <<u, k>> \in ran' => <<u, k>> \in ran
    PROVE  \A u \in Tasks \ {t} : CallsOf(u)'
<1> SUFFICES ASSUME NEW u \in Tasks \ {t} PROVE CallsOf(u)'
  OBVIOUS
<1>1. CallsOf(u) /\ issued[u] \in 0 .. MaxCalls
  BY DEF IInv, TypeOK, CallInv
<1>2. /\ pc'[u] = pc[u] /\ issued'[u] = issued[u]
      /\ \A k \in 1 .. MaxCalls :
            /\ result'[<<u, k>>] = result[<<u, k>>]
            /\ <<u, k>> \in ran' => <<u, k>> \in ran
  OBVIOUS
<1>3. (pc[u] # "idle" => issued[u] > 0)'
  BY <1>1, <1>2 DEF CallsOf
<1>4. (pc[u] = "lock" => Current(u) \notin ran)'
  <2>1. SUFFICES ASSUME pc[u] = "lock" PROVE <<u, issued[u]>> \notin ran'
    BY <1>2 DEF Current
  <2>2. issued[u] \in 1 .. MaxCalls /\ <<u, issued[u]>> \notin ran
    BY <1>1, <2>1, MaxCallsAssumption DEF CallsOf, Current
  <2> QED
    BY <1>2, <2>2
<1>5. ASSUME NEW k \in 1 .. MaxCalls
      PROVE  /\ result'[<<u, k>>] \in {Pending, Failed, Withdrawn, <<u, k>>}
             /\ result'[<<u, k>>] = Pending <=>
                   k > issued'[u] \/ (k = issued'[u] /\ pc'[u] # "idle")
             /\ k > issued'[u] => <<u, k>> \notin ran'
  BY <1>1, <1>2 DEF CallsOf
<1> QED
  BY <1>3, <1>4, <1>5 DEF CallsOf

(* Whose turn it is waits for _mu.                                         *)
LEMMA TurnIsOfWaiter ==
    ASSUME IInv, NEW t \in Tasks, Turn(t)
    PROVE  pc[t] = "lock"
<1>1. waiters \in Seq(Tasks) /\ waiters # <<>> /\ Head(waiters) = t
  BY DEF Turn, IInv, TypeOK
<1>2. Contains(waiters, t)
  BY <1>1 DEF Contains
<1> QED
  BY <1>2 DEF IInv, TypeOK

(* A task's call ends with its own answer or with none.                    *)
LEMMA EndedCall ==
    ASSUME IInv, NEW t \in Tasks, pc[t] # "idle", pc' = [pc EXCEPT ![t] = "idle"],
           NEW r \in {Failed, Withdrawn, Current(t)}, result' = [result EXCEPT ![Current(t)] = r],
           UNCHANGED <<issued, ran>>
    PROVE  CallInv'
<1>1. /\ Current(t) \in Calls /\ Current(t) = <<t, issued[t]>> /\ issued[t] \in 1 .. MaxCalls
  BY CurrentIsPending
<1>2. r # Pending
  BY <1>1, MarksAreNoCalls
<1>3. CallsOf(t)'
  <2>1. CallsOf(t) /\ pc'[t] = "idle" /\ result \in [Calls -> Calls \cup {Pending, Failed, Withdrawn}]
    BY DEF IInv, CallInv, TypeOK
  <2>2. ASSUME NEW k \in 1 .. MaxCalls
        PROVE  /\ result'[<<t, k>>] \in {Pending, Failed, Withdrawn, <<t, k>>}
               /\ result'[<<t, k>>] = Pending <=>
                     k > issued'[t] \/ (k = issued'[t] /\ pc'[t] # "idle")
               /\ k > issued'[t] => <<t, k>> \notin ran'
    <3>1. <<t, k>> \in Calls
      BY CallsArePairs
    <3>2. CASE k = issued[t]
      BY <1>1, <1>2, <2>1, <3>1, <3>2 DEF CallsOf
    <3>3. CASE k # issued[t]
      <4>1. <<t, k>> # Current(t)
        BY <1>1, <3>3
      <4>2. result'[<<t, k>>] = result[<<t, k>>]
        BY <2>1, <3>1, <4>1
      <4> QED
        BY <2>1, <3>3, <4>2 DEF CallsOf
    <3> QED
      BY <3>2, <3>3
  <2> QED
    BY <2>1, <2>2 DEF CallsOf
<1>4. \A u \in Tasks \ {t} :
         /\ pc'[u] = pc[u] /\ issued'[u] = issued[u]
         /\ \A k \in 1 .. MaxCalls :
               /\ result'[<<u, k>>] = result[<<u, k>>]
               /\ <<u, k>> \in ran' => <<u, k>> \in ran
  BY <1>1, CallsArePairs DEF IInv, TypeOK
<1>5. \A u \in Tasks \ {t} : CallsOf(u)'
  BY <1>4, OthersKeepTheirCalls
<1> QED
  BY <1>3, <1>5 DEF CallInv

(* Each call is answered by its own line, and only when it is over does    *)
(* its task go on to the next.                                             *)
LEMMA NextCalls == ASSUME ~ Tls, IInv, [Next]_vars PROVE CallInv'
<1> USE MaxCallsAssumption DEF net, history
<1>1. ASSUME NEW t \in Tasks, Command(t) PROVE CallInv'
  <2>1. /\ issued[t] + 1 \in 1 .. MaxCalls /\ issued'[t] = issued[t] + 1 /\ pc'[t] = "lock"
        /\ \A u \in Tasks \ {t} : pc'[u] = pc[u] /\ issued'[u] = issued[u]
        /\ UNCHANGED <<result, ran>>
    BY <1>1 DEF Command, IInv, TypeOK
  <2>2. CallsOf(t)'
    <3>1. CallsOf(t) /\ pc[t] = "idle" /\ UNCHANGED <<result, ran>>
      BY <1>1 DEF Command, IInv, CallInv
    <3>2. <<t, issued'[t]>> \notin ran
      BY <2>1, <3>1 DEF CallsOf, IInv, TypeOK
    <3>3. ASSUME NEW k \in 1 .. MaxCalls
          PROVE  /\ result'[<<t, k>>] \in {Pending, Failed, Withdrawn, <<t, k>>}
                 /\ result'[<<t, k>>] = Pending <=>
                       k > issued'[t] \/ (k = issued'[t] /\ pc'[t] # "idle")
                 /\ k > issued'[t] => <<t, k>> \notin ran'
      BY <2>1, <3>1 DEF CallsOf, IInv, TypeOK
    <3> QED
      BY <2>1, <3>1, <3>2, <3>3 DEF CallsOf, Current
  <2>3. \A u \in Tasks \ {t} : CallsOf(u)'
    BY <2>1, OthersKeepTheirCalls
  <2> QED
    BY <2>2, <2>3 DEF CallInv
<1>2. ASSUME NEW t \in Tasks, Write(t) \/ Drained(t) PROVE CallInv'
  <2>1. UNCHANGED <<issued, result, ran>> /\ pc[t] # "idle"
        /\ (pc' = [pc EXCEPT ![t] = "drain"] \/ pc' = [pc EXCEPT ![t] = "read"])
    BY <1>2, TurnIsOfWaiter DEF Write, Drained
  <2> QED
    BY <2>1 DEF CallInv, CallsOf, Current, IInv, TypeOK
<1>3. ASSUME NEW t \in Tasks, Withdraw(t) PROVE CallInv'
  BY <1>3, EndedCall DEF Withdraw
<1>4. ASSUME NEW t \in Tasks, ReadLine(t) \/ ReadCutLine(t) PROVE CallInv'
  BY <1>4, ReadsOwnLine, EndedCall
<1>5. ASSUME NEW t \in Tasks, CommandFails(t) PROVE CallInv'
  BY <1>5, EndedCall DEF CommandFails
<1>6. CASE OwnerCloses \/ Flush \/ ConnectionLost \/ Feed \/ PeerGoes \/ Over \/ UNCHANGED vars
  <2>1. UNCHANGED <<pc, issued, result, ran>>
    BY <1>6 DEF OwnerCloses, Flush, ConnectionLost, Feed, PeerGoes, Over, vars, local
  <2> QED
    BY <2>1 DEF CallInv, CallsOf, Current, IInv
<1>7. CASE Serve
  <2>1. PICK c \in Calls : c = Head(wire) /\ wire # <<>> /\ ran' = ran \cup {c}
    BY <1>7 DEF Serve, IInv, TypeOK
  <2>2. Written(c)
    <3>1. 1 \in DOMAIN wire /\ c = wire[1]
      BY <2>1 DEF IInv, TypeOK
    <3> QED
      BY <3>1 DEF IInv, WireInv
  <2>3. UNCHANGED <<pc, issued, result>>
    BY <1>7 DEF Serve, local
  <2>4. PICK t \in Tasks, k \in 1 .. MaxCalls : c = <<t, k>>
    BY CallsArePairs
  <2>5. k <= issued[t] /\ (k = issued[t] => pc[t] # "lock")
    <3>1. CallsOf(t) /\ issued[t] \in 0 .. MaxCalls
      BY DEF IInv, CallInv, TypeOK
    <3>2. CASE result[<<t, k>>] = Failed
      <4>1. Failed # Pending
        BY MarksAreNoCalls
      <4> QED
        BY <3>1, <3>2, <4>1 DEF CallsOf
    <3>3. CASE <<t, k>> = Current(t) /\ pc[t] \in {"drain", "read"}
      BY <3>1, <3>3 DEF Current
    <3> QED
      BY <2>2, <2>4, <3>2, <3>3 DEF Written
  <2> SUFFICES ASSUME NEW u \in Tasks PROVE CallsOf(u)'
    BY DEF CallInv
  <2>6. CallsOf(u) /\ UNCHANGED <<pc, issued, result>> /\ ran' = ran \cup {<<t, k>>}
    BY <2>1, <2>3, <2>4 DEF IInv, CallInv
  <2>7. pc[u] = "lock" => <<u, issued[u]>> # <<t, k>>
    BY <2>5
  <2>8. \A j \in 1 .. MaxCalls : j > issued[u] => <<u, j>> # <<t, k>>
    BY <2>5 DEF IInv, TypeOK
  <2> QED
    BY <2>6, <2>7, <2>8 DEF CallsOf, Current
<1> QED
  BY <1>1, <1>2, <1>3, <1>4, <1>5, <1>6, <1>7 DEF Next, InCommand

(* Nothing that has run, been answered or been withdrawn is on the wire.   *)
LEMMA NextWire == ASSUME ~ Tls, IInv, [Next]_vars PROVE WireInv'
<1> USE DEF net, history
<1>0. /\ wire \in Seq(Calls) /\ inbox \in Seq(Calls) /\ buffer \in Seq(Calls)
      /\ result \in [Calls -> Calls \cup {Pending, Failed, Withdrawn}]
      /\ \A i \in DOMAIN wire : wire[i] \in Calls /\ wire[i] \notin ran /\ Written(wire[i])
      /\ \A i \in DOMAIN wire : wire[i][1] \in Tasks
  BY CallsArePairs DEF IInv, TypeOK, WireInv
<1>1. ASSUME NEW t \in Tasks, Command(t) PROVE WireInv'
  <2>1. /\ pc[t] = "idle" /\ UNCHANGED <<result, ran, wire, inbox, buffer>>
        /\ \A u \in Tasks \ {t} : pc'[u] = pc[u] /\ issued'[u] = issued[u]
    BY <1>1 DEF Command, IInv, TypeOK
  <2>2. \A i \in DOMAIN wire : Written(wire[i])'
    BY <1>0, <2>1 DEF Written, Current
  <2> QED
    BY <2>1, <2>2 DEF IInv, WireInv
<1>2. ASSUME NEW t \in Tasks, Write(t) PROVE WireInv'
  <2>1. /\ pc[t] = "lock" /\ pc' = [pc EXCEPT ![t] = "drain"]
        /\ UNCHANGED <<issued, result, ran, inbox, buffer>>
        /\ wire' \in {wire, Append(wire, Current(t))}
    BY <1>2, TurnIsOfWaiter DEF Write
  <2>2. Current(t) \in Calls /\ Current(t)[1] = t /\ result[Current(t)] = Pending
        /\ Current(t) \notin ran
    BY <2>1, CurrentIsPending DEF IInv, CallInv, CallsOf
  <2>3. ~ Written(Current(t))
    BY <2>1, <2>2, MarksAreNoCalls DEF Written
  <2>4. \A c : c[1] \in Tasks /\ Written(c) => Written(c)'
    BY <2>1 DEF Written, Current, IInv, TypeOK
  <2>5. Written(Current(t))'
    BY <2>1, <2>2 DEF Written, Current, IInv, TypeOK
  <2>6. CASE wire' = wire
    BY <1>0, <2>1, <2>4, <2>6 DEF IInv, WireInv
  <2>7. CASE wire' = Append(wire, Current(t))
    <3>1. /\ Len(wire') = Len(wire) + 1 /\ DOMAIN wire' = 1 .. Len(wire) + 1
          /\ wire'[Len(wire) + 1] = Current(t)
          /\ \A i \in 1 .. Len(wire) : wire'[i] = wire[i] /\ i \in DOMAIN wire
          /\ Len(wire) \in Nat
      BY <1>0, <2>2, <2>7
    <3>2. \A i \in 1 .. Len(wire) : wire[i] # Current(t)
      BY <1>0, <2>3, <3>1
    <3>3. IsInjective(wire')
      BY <3>1, <3>2 DEF IInv, WireInv, IsInjective
    <3>4. ASSUME NEW i \in DOMAIN wire' PROVE wire'[i] \notin ran /\ Written(wire[i])'
      <4>1. CASE i = Len(wire) + 1
        BY <2>1, <2>2, <2>5, <3>1, <4>1 DEF Written, Current
      <4>2. CASE i \in 1 .. Len(wire)
        <5>1. wire'[i] = wire[i] /\ Written(wire[i]) /\ wire[i][1] \in Tasks /\ wire[i] \notin ran
          BY <1>0, <3>1, <4>2
        <5> QED
          BY <2>4, <5>1 DEF Written, Current
      <4> QED
        BY <3>1, <4>1, <4>2
    <3> QED
      BY <2>1, <3>3, <3>4 DEF IInv, WireInv
  <2> QED
    BY <2>1, <2>6, <2>7
<1>3. ASSUME NEW t \in Tasks, pc[t] # "idle", pc' = [pc EXCEPT ![t] = "idle"],
             NEW r, result' = [result EXCEPT ![Current(t)] = r],
             r = Failed \/ \A i \in DOMAIN wire : wire[i] # Current(t),
             UNCHANGED <<issued, ran, wire>>,
             inbox' \in {inbox, <<>>}, buffer' = buffer \/ (buffer # <<>> /\ buffer' = Tail(buffer))
      PROVE  WireInv'
  <2>1. ASSUME NEW i \in DOMAIN wire PROVE Written(wire[i])'
    <3>1. CASE wire[i] = Current(t)
      BY <1>0, <1>3, <2>1, <3>1 DEF Written
    <3>2. CASE wire[i] # Current(t)
      BY <1>0, <1>3, <2>1, <3>2 DEF Written, Current, IInv, TypeOK
    <3> QED
      BY <3>1, <3>2
  <2>2. \A i \in DOMAIN inbox' : inbox'[i] \in ran
    BY <1>3 DEF IInv, WireInv
  <2>3. \A i \in DOMAIN buffer' : buffer'[i] \in ran
    <3>1. CASE buffer' = buffer
      BY <3>1 DEF IInv, WireInv
    <3>2. CASE buffer # <<>> /\ buffer' = Tail(buffer)
      BY <1>0, <3>2 DEF IInv, WireInv
    <3> QED
      BY <1>3, <3>1, <3>2
  <2> QED
    BY <1>3, <2>1, <2>2, <2>3 DEF IInv, WireInv
<1>4. ASSUME NEW t \in Tasks, Withdraw(t) PROVE WireInv'
  <2>1. \A i \in DOMAIN wire : wire[i] # Current(t)
    <3>1. pc[t] = "lock" /\ Current(t)[1] = t /\ result[Current(t)] = Pending
      BY <1>4, CurrentIsPending DEF Withdraw
    <3> QED
      BY <1>0, <3>1, MarksAreNoCalls DEF Written
  <2> QED
    BY <1>3, <1>4, <2>1 DEF Withdraw
<1>5. ASSUME NEW t \in Tasks, ReadLine(t) \/ ReadCutLine(t) PROVE WireInv'
  <2>1. \A i \in DOMAIN wire : wire[i] # Current(t)
    BY <1>0, <1>5, ReadsOwnLine
  <2>2. buffer' = buffer \/ (buffer # <<>> /\ buffer' = Tail(buffer))
    BY <1>5 DEF ReadLine, ReadCutLine
  <2> QED
    BY <1>3, <1>5, <2>1, <2>2, ReadsOwnLine
<1>6. ASSUME NEW t \in Tasks, CommandFails(t) PROVE WireInv'
  BY <1>3, <1>6 DEF CommandFails
<1>7. ASSUME NEW t \in Tasks, Drained(t) PROVE WireInv'
  <2>1. \A i \in DOMAIN wire : Written(wire[i])'
    BY <1>0, <1>7 DEF Drained, Written, Current, IInv, TypeOK
  <2> QED
    BY <1>7, <2>1 DEF Drained, IInv, WireInv
<1>8. CASE OwnerCloses \/ Flush \/ ConnectionLost \/ PeerGoes \/ Over \/ UNCHANGED vars
  <2>1. UNCHANGED <<pc, issued, result, ran, wire, inbox, buffer>>
    BY <1>8 DEF OwnerCloses, Flush, ConnectionLost, PeerGoes, Over, vars, local
  <2> QED
    BY <2>1 DEF IInv, WireInv, Written, Current
<1>9. CASE Feed
  <2>1. /\ UNCHANGED <<pc, issued, result, ran, wire>>
        /\ inbox # <<>> /\ inbox' = Tail(inbox) /\ buffer' = Append(buffer, Head(inbox))
    BY <1>9 DEF Feed, local
  <2>2. \A i \in DOMAIN wire : Written(wire[i])'
    BY <1>0, <2>1 DEF Written, Current
  <2>3. Head(inbox) \in ran /\ \A i \in DOMAIN inbox' : inbox'[i] \in ran
    BY <1>0, <2>1 DEF IInv, WireInv
  <2>4. \A i \in DOMAIN buffer' : buffer'[i] \in ran
    BY <1>0, <2>1, <2>3 DEF IInv, WireInv
  <2> QED
    BY <2>1, <2>2, <2>3, <2>4 DEF IInv, WireInv
<1>10. CASE Serve
  <2>1. /\ UNCHANGED <<pc, issued, result, buffer>> /\ wire # <<>> /\ wire' = Tail(wire)
        /\ ran' = ran \cup {Head(wire)} /\ inbox' = Append(inbox, Head(wire))
    BY <1>10 DEF Serve, local
  <2>2. /\ DOMAIN wire' = 1 .. Len(wire) - 1 /\ Head(wire) = wire[1] /\ DOMAIN wire = 1 .. Len(wire)
        /\ \A i \in 1 .. Len(wire) - 1 : wire'[i] = wire[i + 1] /\ i + 1 \in DOMAIN wire
        /\ Len(wire) \in Nat \ {0}
    BY <1>0, <2>1
  <2>3. IsInjective(wire')
    BY <2>2 DEF IInv, WireInv, IsInjective
  <2>4. \A i \in DOMAIN wire' : wire'[i] # Head(wire)
    BY <2>2 DEF IInv, WireInv, IsInjective
  <2>5. \A c : Written(c)' <=> Written(c)
    BY <2>1 DEF Written, Current
  <2>6. \A i \in DOMAIN wire' : wire'[i] \notin ran' /\ Written(wire'[i])
    BY <1>0, <2>1, <2>2, <2>4
  <2>7. \A i \in DOMAIN inbox' : inbox'[i] \in ran'
    BY <1>0, <2>1, <2>2 DEF IInv, WireInv
  <2> QED
    BY <2>1, <2>3, <2>5, <2>6, <2>7 DEF IInv, WireInv
<1> QED
  BY <1>1, <1>2, <1>4, <1>5, <1>6, <1>7, <1>8, <1>9, <1>10 DEF Next, InCommand

(* Every step over plain TCP keeps the invariant.                          *)
LEMMA NextInv == ASSUME ~ Tls, IInv, [Next]_vars PROVE IInv'
  BY NextTypes, NextWire, NextOpen, NextRead, NextCalls, CurrentIsPending DEF IInv

(* Over plain TCP the connection is always in a state of the invariant.    *)
THEOREM Invariance == ~ Tls => (Spec => []IInv)
<1> SUFFICES ASSUME ~ Tls PROVE Spec => []IInv
  OBVIOUS
<1>1. Init => IInv
  BY InitInv
<1>2. IInv /\ [Next]_vars => IInv'
  BY NextInv
<1> QED
  BY <1>1, <1>2, PTL DEF Spec

(* Over plain TCP no task is given the line that answers another task's    *)
(* command, whatever is cancelled, closed or lost meanwhile.               *)
THEOREM AnswersAreOwn == ~ Tls => (Spec => []OwnAnswer)
<1> SUFFICES ASSUME ~ Tls PROVE Spec => []OwnAnswer
  OBVIOUS
<1>1. IInv => OwnAnswer
  BY CallsArePairs DEF IInv, CallInv, CallsOf, OwnAnswer
<1> QED
  BY <1>1, Invariance, PTL

(* Over TCP or TLS: a connection is lost only by a command that failed     *)
(* after it had written, or by its owner.                                  *)
THEOREM LossesHaveCauses == Spec => []LossHasCause
<1>1. Init => LossHasCause
  BY DEF Init, LossHasCause
<1>2. LossHasCause /\ [Next]_vars => LossHasCause'
  <2> SUFFICES ASSUME LossHasCause, [Next]_vars PROVE LossHasCause'
    OBVIOUS
  <2> USE DEF LossHasCause, net, history, local
  <2>1. ASSUME NEW t \in Tasks, Command(t) \/ Withdraw(t) \/ Write(t) \/ Drained(t)
                                \/ ReadLine(t) \/ ReadCutLine(t)
        PROVE  LossHasCause'
    BY <2>1 DEF Command, Withdraw, TransportAfterWithdrawal, Write, Drained, ReadLine,
                ReadCutLine, ReturnLine
  <2>2. ASSUME NEW t \in Tasks, CommandFails(t) PROVE LossHasCause'
    <3>1. Current(t) # NoCall
      BY DEF Current, NoCall
    <3> QED
      BY <2>2, <3>1 DEF CommandFails
  <2>3. CASE OwnerCloses \/ Flush \/ ConnectionLost \/ Feed \/ Serve \/ PeerGoes \/ Over
             \/ UNCHANGED vars
    BY <2>3 DEF OwnerCloses, Flush, ConnectionLost, Feed, Serve, PeerGoes, Over, vars
  <2> QED
    BY <2>1, <2>2, <2>3 DEF Next, InCommand
<1> QED
  BY <1>1, <1>2, PTL DEF Spec

-----------------------------------------------------------------------------
(* The refinement of RpcChannel.                                           *)

(* What RpcChannel calls the state of a call.                              *)
Fate(c) ==
    IF c[2] > issued[c[1]] THEN "new"
    ELSE IF result[c] = Pending THEN "pending"
    ELSE IF result[c] = Failed THEN "failed"
    ELSE IF result[c] = Withdrawn THEN "withdrawn" ELSE "answered"

(* The cases of Status exclude each other, and no call is mispaired.       *)
LEMMA StatusIsFate == IInv => Status = [c \in Calls |-> Fate(c)]
<1> SUFFICES ASSUME IInv, NEW c \in Calls
             PROVE  Fate(c) =
                      CASE c[2] > issued[c[1]]  -> "new"
                        [] c[2] <= issued[c[1]] /\ result[c] = Pending -> "pending"
                        [] result[c] = Failed    -> "failed"
                        [] result[c] = Withdrawn -> "withdrawn"
                        [] result[c] = c         -> "answered"
                        [] result[c] \in Calls \ {c} -> "mispaired"
  BY DEF Status
<1>1. c[1] \in Tasks /\ c[2] \in 1 .. MaxCalls /\ c = <<c[1], c[2]>>
  BY CallsArePairs
<1>2. /\ result[c] \in {Pending, Failed, Withdrawn, c}
      /\ result[c] = Pending <=>
            c[2] > issued[c[1]] \/ (c[2] = issued[c[1]] /\ pc[c[1]] # "idle")
  BY <1>1 DEF IInv, CallInv, CallsOf
<1>3. issued[c[1]] \in 0 .. MaxCalls
  BY <1>1 DEF IInv, TypeOK
<1>4. /\ c # Pending /\ c # Failed /\ c # Withdrawn
      /\ Pending # Failed /\ Pending # Withdrawn /\ Failed # Withdrawn
      /\ Pending \notin Calls \ {c} /\ Failed \notin Calls \ {c} /\ Withdrawn \notin Calls \ {c}
      /\ c \notin Calls \ {c}
  BY MarksAreNoCalls
<1>5. CASE c[2] > issued[c[1]]
  BY <1>1, <1>2, <1>3, <1>4, <1>5 DEF Fate
<1>6. CASE ~ (c[2] > issued[c[1]])
  BY <1>1, <1>2, <1>3, <1>4, <1>6 DEF Fate
<1> QED
  BY <1>5, <1>6

(* The same of the state a step leads to.                                  *)
LEMMA StatusIsFateNext == IInv' => Status' = [c \in Calls |-> Fate(c)']
<1>1. IInv' => (Status = [c \in Calls |-> Fate(c)])'
  BY StatusIsFate, PTL
<1> QED
  BY <1>1

(* A new connection has made no call.                                      *)
LEMMA InitRefines == Init => Channel!AInit
<1> SUFFICES ASSUME Init PROVE Channel!AInit
  OBVIOUS
<1>1. \A c \in Calls : Fate(c) = "new"
  BY CallsArePairs DEF Init, Fate
<1>2. Status = [c \in Calls |-> "new"]
  BY <1>1, InitInv, StatusIsFate
<1> QED
  BY <1>2 DEF Channel!AInit, Init, Channel!Calls, Calls, Channel!NoCall, NoCall

(* Issuing a call, when the ones before it are over.                       *)
LEMMA CommandRefines ==
    ASSUME IInv, IInv', NEW t \in Tasks, Command(t)
    PROVE  \E c \in Calls : Channel!Issue(c)
<1>0. issued[t] \in 0 .. MaxCalls /\ issued[t] + 1 \in 1 .. MaxCalls
  BY MaxCallsAssumption DEF Command, IInv, TypeOK
<1>1. PICK n \in 1 .. MaxCalls : n = issued[t] + 1
  BY <1>0
<1>2. /\ pc[t] = "idle" /\ issued' = [issued EXCEPT ![t] = n]
      /\ UNCHANGED <<result, ran, broken>> /\ <<t, n>> \in Calls
  BY <1>1, CallsArePairs DEF Command, net, history
<1>3. Fate(<<t, n>>) = "new" /\ Fate(<<t, n>>)' = "pending"
  BY <1>0, <1>1, <1>2 DEF Fate, IInv, CallInv, CallsOf, TypeOK
<1>4. \A c \in Calls \ {<<t, n>>} : Fate(c)' = Fate(c)
  <2> SUFFICES ASSUME NEW c \in Calls \ {<<t, n>>} PROVE Fate(c)' = Fate(c)
    OBVIOUS
  <2>1. c[1] \in Tasks /\ c[2] \in 1 .. MaxCalls /\ c = <<c[1], c[2]>>
    BY CallsArePairs
  <2>2. CASE c[1] # t
    BY <1>2, <2>1, <2>2 DEF Fate, IInv, TypeOK
  <2>3. CASE c[1] = t
    <3>1. c[2] # n
      BY <2>1, <2>3
    <3>2. issued[c[1]] = n - 1 /\ issued'[c[1]] = n /\ result' = result
      BY <1>0, <1>1, <1>2, <2>3 DEF IInv, TypeOK
    <3>3. c[2] > n - 1 <=> c[2] > n
      BY <2>1, <3>1
    <3> QED
      BY <3>2, <3>3 DEF Fate
  <2> QED
    BY <2>2, <2>3
<1>5. Status' = [Status EXCEPT ![<<t, n>>] = "pending"]
  <2>1. Status = [c \in Calls |-> Fate(c)]
    BY StatusIsFate
  <2>2. Status' = [c \in Calls |-> Fate(c)']
    BY StatusIsFateNext
  <2> QED
    BY <1>3, <1>4, <2>1, <2>2
<1>6. \A k \in 1 .. n - 1 : Status[<<t, k>>] \in {"answered", "failed", "withdrawn"}
  <2> SUFFICES ASSUME NEW k \in 1 .. n - 1
               PROVE  Status[<<t, k>>] \in {"answered", "failed", "withdrawn"}
    OBVIOUS
  <2>1. k \in 1 .. MaxCalls /\ k <= issued[t]
    BY <1>0, <1>1, MaxCallsAssumption
  <2>2. result[<<t, k>>] # Pending
    <3>1. CallsOf(t) /\ pc[t] = "idle" /\ ~ (k > issued[t])
      BY <1>0, <1>2, <2>1 DEF IInv, CallInv
    <3> QED
      BY <2>1, <3>1 DEF CallsOf
  <2> QED
    BY <1>0, <2>1, <2>2, StatusIsFate, CallsArePairs DEF Fate
<1>7. Channel!Issue(<<t, n>>)
  BY <1>2, <1>3, <1>5, <1>6, StatusIsFate DEF Channel!Issue, Channel!Over
<1> QED
  BY <1>2, <1>7

(* A call that ends was pending, and the other calls fare as before.       *)
LEMMA EndOfCall ==
    ASSUME IInv, IInv', NEW t \in Tasks, pc[t] # "idle", issued' = issued,
           NEW r \in {Failed, Withdrawn, Current(t)},
           result' = [result EXCEPT ![Current(t)] = r]
    PROVE  /\ Status[Current(t)] = "pending"
           /\ Status' = [Status EXCEPT ![Current(t)] =
                            IF r = Failed THEN "failed"
                            ELSE IF r = Withdrawn THEN "withdrawn" ELSE "answered"]
<1>1. /\ Current(t) \in Calls /\ Current(t) = <<t, issued[t]>> /\ issued[t] \in 1 .. MaxCalls
      /\ result[Current(t)] = Pending
  BY CurrentIsPending
<1>2. Fate(Current(t)) = "pending"
  BY <1>1 DEF Fate
<1>3. r # Pending /\ result \in [Calls -> Calls \cup {Pending, Failed, Withdrawn}]
  BY <1>1, MarksAreNoCalls DEF IInv, TypeOK
<1>4. ~ (Current(t)[2] > issued[Current(t)[1]])
  BY <1>1
<1>5. ASSUME NEW c \in Calls
      PROVE  Fate(c)' = IF c = Current(t)
                        THEN (IF r = Failed THEN "failed"
                              ELSE IF r = Withdrawn THEN "withdrawn" ELSE "answered")
                        ELSE Fate(c)
  <2>1. CASE c = Current(t)
    BY <1>1, <1>3, <1>4, <2>1 DEF Fate
  <2>2. CASE c # Current(t)
    BY <1>1, <1>3, <2>2 DEF Fate
  <2> QED
    BY <2>1, <2>2
<1>6. Status' = [c \in Calls |-> Fate(c)'] /\ Status = [c \in Calls |-> Fate(c)]
  BY StatusIsFate, StatusIsFateNext
<1> QED
  BY <1>1, <1>2, <1>5, <1>6

(* The line a task reads answers its own call, which ran and came before   *)
(* any failure.                                                            *)
LEMMA ReadRefines ==
    ASSUME ~ Tls, IInv, IInv', NEW t \in Tasks, ReadLine(t) \/ ReadCutLine(t)
    PROVE  \E c \in Calls : Channel!Answer(c)
<1>1. /\ pc[t] = "read" /\ broken = NoCall /\ Current(t) \in ran
      /\ result' = [result EXCEPT ![Current(t)] = Current(t)]
      /\ UNCHANGED <<issued, ran, broken>>
  BY ReadsOwnLine
<1>2. Current(t) \in Calls
  BY <1>1, CurrentIsPending
<1>3. Status[Current(t)] = "pending" /\ Status' = [Status EXCEPT ![Current(t)] = "answered"]
  BY <1>1, <1>2, EndOfCall, MarksAreNoCalls
<1>4. Channel!Answer(Current(t))
  BY <1>1, <1>3 DEF Channel!Answer, Channel!NoCall, NoCall
<1> QED
  BY <1>2, <1>4

(* A command that raises fails its own call; one that raises before it has *)
(* written withdraws it, and it has not run.                               *)
LEMMA RaiseRefines ==
    ASSUME IInv, IInv', NEW t \in Tasks, CommandFails(t) \/ Withdraw(t)
    PROVE  \E c \in Calls : Channel!Fail(c) \/ Channel!Withdraw(c)
<1>1. pc[t] # "idle" /\ UNCHANGED <<issued, ran>>
  BY DEF CommandFails, Withdraw, net
<1>2. Current(t) \in Calls
  BY <1>1, CurrentIsPending
<1>3. CASE CommandFails(t)
  <2>1. /\ broken' = IF broken = NoCall THEN Current(t) ELSE broken
        /\ result' = [result EXCEPT ![Current(t)] = Failed]
    BY <1>3 DEF CommandFails
  <2>2. Status[Current(t)] = "pending" /\ Status' = [Status EXCEPT ![Current(t)] = "failed"]
    BY <1>1, <2>1, EndOfCall
  <2>3. Channel!Fail(Current(t))
    BY <1>1, <2>1, <2>2 DEF Channel!Fail, Channel!NoCall, NoCall
  <2> QED
    BY <1>2, <2>3
<1>4. CASE Withdraw(t)
  <2>1. pc[t] = "lock" /\ broken' = broken /\ result' = [result EXCEPT ![Current(t)] = Withdrawn]
    BY <1>4 DEF Withdraw
  <2>2. Status[Current(t)] = "pending" /\ Status' = [Status EXCEPT ![Current(t)] = "withdrawn"]
    BY <1>1, <2>1, EndOfCall, MarksAreNoCalls
  <2>3. Current(t) \notin ran
    BY <2>1 DEF IInv, CallInv, CallsOf
  <2>4. Channel!Withdraw(Current(t))
    BY <1>1, <2>1, <2>2, <2>3 DEF Channel!Withdraw
  <2> QED
    BY <1>2, <2>4
<1> QED
  BY <1>3, <1>4

(* The server runs a call once, and only one that has been sent.           *)
LEMMA ServeRefines ==
    ASSUME IInv, IInv', Serve
    PROVE  \E c \in Calls : Channel!Run(c)
<1>1. PICK c \in Calls : c = Head(wire)
  BY DEF Serve, IInv, TypeOK
<1>2. c \notin ran /\ Written(c)
  <2>1. wire \in Seq(Calls) /\ wire # <<>>
    BY DEF Serve, IInv, TypeOK
  <2>2. 1 \in DOMAIN wire /\ c = wire[1]
    BY <1>1, <2>1
  <2> QED
    BY <2>2 DEF IInv, WireInv
<1>3. ran' = ran \cup {c} /\ UNCHANGED <<issued, result, broken>>
  BY <1>1 DEF Serve, local, history
<1>4. Status' = Status
  BY <1>3 DEF Status
<1>5. c[1] \in Tasks /\ c[2] \in 1 .. MaxCalls /\ c = <<c[1], c[2]>>
  BY CallsArePairs
<1>6. Status[c] \in {"pending", "failed"}
  <2>1. CASE result[c] = Failed
    <3>1. ~ (c[2] > issued[c[1]])
      BY <1>5, <2>1, MarksAreNoCalls DEF IInv, CallInv, CallsOf
    <3>2. Fate(c) = "failed"
      BY <2>1, <3>1, MarksAreNoCalls DEF Fate
    <3> QED
      BY <3>2, StatusIsFate
  <2>2. CASE c = Current(c[1]) /\ pc[c[1]] \in {"drain", "read"}
    <3>1. result[c] = Pending /\ c = <<c[1], issued[c[1]]>> /\ issued[c[1]] \in 1 .. MaxCalls
      BY <1>5, <2>2, CurrentIsPending
    <3>2. Fate(c) = "pending"
      BY <1>5, <3>1 DEF Fate
    <3> QED
      BY <3>2, StatusIsFate
  <2> QED
    BY <1>2, <2>1, <2>2 DEF Written
<1> QED
  BY <1>2, <1>3, <1>4, <1>6 DEF Channel!Run

(* Every step of the connection is one of the promise, or none.            *)
LEMMA StepRefines ==
    ASSUME ~ Tls, IInv, IInv', [Next]_vars
    PROVE  [Channel!ANext]_(Channel!avars)
<1>1. Channel!Calls = Calls
  BY DEF Channel!Calls, Calls
<1>2. ASSUME NEW t \in Tasks, Command(t) PROVE Channel!ANext
  BY <1>1, <1>2, CommandRefines DEF Channel!ANext
<1>3. ASSUME NEW t \in Tasks, ReadLine(t) \/ ReadCutLine(t) PROVE Channel!ANext
  BY <1>1, <1>3, ReadRefines DEF Channel!ANext
<1>4. ASSUME NEW t \in Tasks, CommandFails(t) \/ Withdraw(t) PROVE Channel!ANext
  BY <1>1, <1>4, RaiseRefines DEF Channel!ANext
<1>5. ASSUME Serve PROVE Channel!ANext
  BY <1>1, <1>5, ServeRefines DEF Channel!ANext
<1>6. ASSUME UNCHANGED <<issued, result, ran, broken>> PROVE UNCHANGED Channel!avars
  BY <1>6 DEF Channel!avars, Status
<1>7. ASSUME NEW t \in Tasks, Write(t) \/ Drained(t) PROVE UNCHANGED Channel!avars
  BY <1>6, <1>7 DEF Write, Drained, net, history
<1>8. ASSUME \/ OwnerCloses \/ Flush \/ ConnectionLost \/ Feed \/ PeerGoes \/ Over
             \/ UNCHANGED vars
      PROVE  UNCHANGED Channel!avars
  BY <1>6, <1>8 DEF OwnerCloses, Flush, ConnectionLost, Feed, PeerGoes, Over, vars, net, history,
                    local
<1> QED
  BY <1>2, <1>3, <1>4, <1>5, <1>7, <1>8 DEF Next, InCommand

(* Over plain TCP the connection keeps its promise to any number of tasks  *)
(* with any number of commands: each is answered by the answer to itself,  *)
(* fails or is withdrawn, takes effect once at most and never if it was    *)
(* withdrawn, and none is answered after the first failure.                *)
THEOREM PromiseKept == ~ Tls => (Spec => KeepsPromise)
<1> SUFFICES ASSUME ~ Tls PROVE Spec => KeepsPromise
  OBVIOUS
<1>1. Init => Channel!AInit
  BY InitRefines
<1>2. IInv /\ IInv' /\ [Next]_vars => [Channel!ANext]_(Channel!avars)
  BY StepRefines
<1>3. Spec => []IInv
  BY Invariance
<1> QED
  BY <1>1, <1>2, <1>3, PTL DEF Spec, KeepsPromise, Channel!ASpec

=============================================================================
