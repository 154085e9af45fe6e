-------------------------- MODULE LockServiceProofs --------------------------
(***************************************************************************)
(* What the clients of one key may rely on together, for any number of     *)
(* them, of servers, of slots and of attempts: how many are in the body at *)
(* a time, which writes the resource lets pass, and that each has a        *)
(* LockHandle.                                                             *)
(***************************************************************************)
EXTENDS LockService, FiniteSetTheorems, SequenceTheorems, WellFoundedInduction, TLAPS

(* The clients agree where the key is: all whose strategy is not refused   *)
(* name the same server ("the same key always lands on the same server").  *)
Agreed ==
    \A c, d \in Clients :
        ValidateShardIndex(ShardIndex(c)) /\ ValidateShardIndex(ShardIndex(d)) =>
            ShardIndex(c) = ShardIndex(d)

TypeOK ==
    /\ op \in [Clients -> {"none", "acquire", "release"}]
    /\ at \in [Clients -> {"idle", "rearm", "open", "await", "relwait"}]
    /\ body \in [Clients -> BOOLEAN]
    /\ number \in [Clients -> 0 .. MaxAttempts]
    /\ conn \in [Clients -> Conns \cup {None}]
    /\ token = [c \in Clients |-> token[c]]
    /\ line \in [Conns -> {"none", "up", "down"}]
    /\ server \in [Conns -> Servers]
    /\ msg = [n \in Conns |-> msg[n]]
    /\ queue \in [Servers -> Seq(Conns)]
    /\ holders \in [Servers -> SUBSET Conns]
    /\ counter \in [Servers -> Nat]
    /\ order \in Seq(Conns)

(* A client has a connection from its dial to its hang-up, a token only    *)
(* with it, and is in the body only after a grant to that attempt.         *)
AClient(c) ==
    /\ op[c] = "none" <=> at[c] = "idle"
    /\ op[c] = "acquire" <=> at[c] \in {"rearm", "open", "await"}
    /\ conn[c] \in {None, Mine(c)}
    /\ conn[c] # None => body[c] \/ at[c] \in {"await", "relwait"}
    /\ conn[c] # None => number[c] > 0 /\ line[Mine(c)] # "none"
    /\ token[c] # None => conn[c] # None
    /\ at[c] = "await" => conn[c] = Mine(c)
    /\ at[c] \in {"open", "await"} => number[c] > 0 /\ token[c] = None
    /\ at[c] = "rearm" => number[c] < MaxAttempts
    /\ body[c] => at[c] = "idle" /\ Mine(c) \in Granteds

ClientInv == \A c \in Clients : AClient(c)

(* A connection that waits or holds is one that was opened, to the server  *)
(* that its client picked, and a server gives no slot away twice.          *)
ServerInv ==
    /\ \A n \in Conns :
          /\ msg[n].kind = "acquire" => line[n] # "none"
          /\ line[n] # "none" => /\ ValidateShardIndex(ShardIndex(n[1]))
                                 /\ server[n] = PickServer(n[1])
          /\ msg[n].kind = "granted" => n \in Granteds /\ msg[n].token # None
    /\ \A s \in Servers :
          /\ \A n \in ToSet(queue[s]) \cup holders[s] : line[n] # "none" /\ server[n] = s
          /\ IsFiniteSet(holders[s]) /\ Cardinality(holders[s]) <= Limit

IInv == TypeOK /\ ClientInv /\ ServerInv

-----------------------------------------------------------------------------
(* Taking a connection out of a queue brings no other in.                  *)
LEMMA WithoutIsTyped ==
    ASSUME NEW q \in Seq(Conns), NEW n
    PROVE  Without(q, n) \in Seq(Conns) /\ ToSet(Without(q, n)) \subseteq ToSet(q)
<1>1. CASE n \notin ToSet(q)
  BY <1>1 DEF Without
<1>2. CASE n \in ToSet(q)
  <2>1. PICK i \in DOMAIN q : i = CHOOSE j \in DOMAIN q : q[j] = n
    BY <1>2 DEF ToSet
  <2>2. Without(q, n) = SubSeq(q, 1, i - 1) \o SubSeq(q, i + 1, Len(q))
    BY <1>2, <2>1 DEF Without, RemoveAt
  <2>3. SubSeq(q, 1, i - 1) \in Seq(ToSet(q)) /\ SubSeq(q, i + 1, Len(q)) \in Seq(ToSet(q))
    <3>1. /\ \A k \in 1 .. i - 1 : q[k] \in ToSet(q)
          /\ \A k \in i + 1 .. Len(q) : q[k] \in ToSet(q)
      BY DEF ToSet
    <3>2. i \in 1 .. Len(q) /\ Len(q) \in Nat
      OBVIOUS
    <3> HIDE DEF ToSet
    <3> QED
      BY <3>1, <3>2, SubSeqProperties
  <2>4. Without(q, n) \in Seq(ToSet(q))
    BY <2>2, <2>3, ConcatProperties
  <2>5. ToSet(q) \subseteq Conns
    BY DEF ToSet
  <2>6. \A k \in DOMAIN Without(q, n) : Without(q, n)[k] \in ToSet(q)
    BY <2>4
  <2> QED
    BY <2>4, <2>5, <2>6 DEF ToSet
<1> QED
  BY <1>1, <1>2

(* A token is a number's digits and a salt, never the empty one.           *)
LEMMA TokensAreSomething ==
    ASSUME NEW k \in Nat, NEW salt \in Salts
    PROVE  Digits(k) \o salt # None
<1> DEFINE All == {Digits(k)[i] : i \in 1 .. Width} \cup 0 .. Base - 1
<1>1. Digits(k) \in [1 .. Width -> All] /\ salt \in [1 .. Width -> All] /\ Width \in Nat \ {0}
  BY ServiceAssumption DEF Digits
<1> HIDE DEF All
<1>2. /\ Digits(k) \in Seq(All) /\ Len(Digits(k)) = Width
      /\ salt \in Seq(All) /\ Len(salt) = Width
  BY <1>1, SeqDef
<1>3. Len(Digits(k) \o salt) > 0
  BY <1>1, <1>2, ConcatProperties
<1> QED
  BY <1>3 DEF None

(* The server of a strategy that is not refused exists.                    *)
LEMMA PickedServerExists ==
    ASSUME NEW c \in Clients, ValidateShardIndex(ShardIndex(c))
    PROVE  PickServer(c) \in Servers
  BY ServiceAssumption DEF PickServer, Servers, ValidateShardIndex

(* Nobody has entered, and nothing is under way or held.                   *)
LEMMA InitInv == Init => IInv
<1> SUFFICES ASSUME Init PROVE IInv
  OBVIOUS
<1>1. TypeOK
  BY ServiceAssumption DEF Init, TypeOK, Servers
<1>2. ClientInv
  BY ServiceAssumption DEF Init, ClientInv, AClient
<1>3. ServerInv
  <2>1. \A s \in Servers : ToSet(queue[s]) = {} /\ holders[s] = {}
    BY DEF Init, ToSet
  <2>2. IsFiniteSet({}) /\ Cardinality({}) <= Limit
    BY FS_EmptySet, ServiceAssumption
  <2>3. \A n \in Conns : line[n] = "none" /\ msg[n].kind = "quiet"
    BY DEF Init, Quiet, Plain
  <2> QED
    BY <2>1, <2>2, <2>3 DEF ServerInv
<1> QED
  BY <1>1, <1>2, <1>3 DEF IInv

-----------------------------------------------------------------------------
(* The types.                                                              *)

(* An attempt that has begun has a connection of its own.                  *)
LEMMA MineIsConn ==
    ASSUME IInv, NEW c \in Clients, number[c] > 0
    PROVE  Mine(c) \in Conns /\ Mine(c)[1] = c /\ Mine(c) # None
  BY DEF IInv, TypeOK, Mine, Conns, None

(* A connection is a client and a number, which None is not.               *)
LEMMA NoneIsNoConn == None \notin Conns
  BY DEF None, Conns

(* A client's steps keep the types.                                        *)
LEMMA ClientTypes ==
    ASSUME IInv, NEW c \in Clients, ClientStep(c)
    PROVE  TypeOK'
<1> USE ServiceAssumption DEF IInv, TypeOK, service, resource, client, Finish, Hangup
<1>1. CASE Enter(c)
  BY <1>1 DEF Enter
<1>2. CASE Rearm(c)
  <2>1. number[c] < MaxAttempts
    BY <1>2 DEF Rearm, ClientInv, AClient
  <2>2. /\ number' = [number EXCEPT ![c] = @ + 1] /\ at' = [at EXCEPT ![c] = "open"]
        /\ UNCHANGED <<op, body, conn, token, service, resource>>
    BY <1>2 DEF Rearm
  <2>3. number' \in [Clients -> 0 .. MaxAttempts]
    BY <2>1, <2>2
  <2> QED
    BY <2>2, <2>3
<1>3. CASE OpenFails(c)
  BY <1>3 DEF OpenFails
<1>4. CASE Open(c)
  <2>1. Mine(c) \in Conns
    BY <1>4, MineIsConn DEF Open, ClientInv, AClient
  <2>2. PickServer(c) \in Servers
    BY <1>4, PickedServerExists DEF Open
  <2> QED
    BY <1>4, <2>1, <2>2 DEF Open
<1>5. CASE Granted(c)
  BY <1>5 DEF Granted
<1>6. CASE NotGranted(c)
  BY <1>6 DEF NotGranted
<1>7. CASE Exit(c)
  BY <1>7 DEF Exit
<1>8. CASE Exited(c)
  BY <1>8 DEF Exited
<1>9. CASE Lose(c)
  BY <1>9 DEF Lose
<1>10. CASE Write(c)
  BY <1>10 DEF Write
<1> QED
  BY <1>1, <1>2, <1>3, <1>4, <1>5, <1>6, <1>7, <1>8, <1>9, <1>10 DEF ClientStep

(* Freeing a slot leaves every other connection where it was.              *)
LEMMA FreeKeeps ==
    ASSUME IInv, NEW n \in Conns, Free(n)
    PROVE  /\ queue' \in [Servers -> Seq(Conns)] /\ holders' \in [Servers -> SUBSET Conns]
           /\ \A s \in Servers : /\ ToSet(queue'[s]) \subseteq ToSet(queue[s])
                                 /\ holders'[s] \subseteq holders[s]
  BY WithoutIsTyped DEF Free, IInv, TypeOK

(* A connection at the head of a queue is one that was opened to there.    *)
LEMMA HeadIsConn ==
    ASSUME IInv, NEW s \in Servers, queue[s] # <<>>
    PROVE  /\ Head(queue[s]) \in Conns /\ Tail(queue[s]) \in Seq(Conns)
           /\ Head(queue[s]) \in ToSet(queue[s])
           /\ ToSet(Tail(queue[s])) \subseteq ToSet(queue[s])
  BY DEF IInv, TypeOK, ToSet

(* The steps of the servers and of the resource keep them, too.            *)
LEMMA ServiceTypes ==
    ASSUME IInv,
           \/ \E n \in Conns : SrvQueue(n) \/ SrvTimeout(n) \/ SrvRelease(n) \/ SrvExpire(n)
                              \/ SrvDisconnect(n)
           \/ \E s \in Servers : SrvGrant(s) \/ Restart(s)
           \/ \E w \in wire : Arrive(w)
    PROVE  TypeOK'
<1> USE DEF IInv, TypeOK, service, resource, client
<1>1. ASSUME NEW n \in Conns, SrvQueue(n) PROVE TypeOK'
  <2>1. server[n] \in Servers /\ Append(queue[server[n]], n) \in Seq(Conns)
    OBVIOUS
  <2> QED
    BY <1>1, <2>1 DEF SrvQueue
<1>2. ASSUME NEW n \in Conns, SrvTimeout(n) \/ SrvRelease(n) \/ SrvExpire(n) \/ SrvDisconnect(n)
      PROVE  TypeOK'
  <2>1. Free(n) /\ UNCHANGED <<client, line, server, counter, order>>
    BY <1>2 DEF SrvTimeout, SrvRelease, SrvExpire, SrvDisconnect, Free
  <2>2. queue' \in [Servers -> Seq(Conns)] /\ holders' \in [Servers -> SUBSET Conns]
    BY <2>1, FreeKeeps
  <2>3. msg' = [m \in Conns |-> msg'[m]]
    BY <1>2 DEF SrvTimeout, SrvRelease, SrvExpire, SrvDisconnect
  <2> QED
    BY <2>1, <2>2, <2>3
<1>3. ASSUME NEW s \in Servers, SrvGrant(s) PROVE TypeOK'
  <2>1. Head(queue[s]) \in Conns /\ Tail(queue[s]) \in Seq(Conns)
    BY <1>3, HeadIsConn DEF SrvGrant
  <2>2. msg' = [m \in Conns |-> msg'[m]]
    BY <1>3 DEF SrvGrant
  <2>3. queue' \in [Servers -> Seq(Conns)] /\ holders' \in [Servers -> SUBSET Conns]
    BY <1>3, <2>1 DEF SrvGrant
  <2>4. counter' = [counter EXCEPT ![s] = @ + 1] /\ order' = Append(order, Head(queue[s]))
    BY <1>3 DEF SrvGrant
  <2>5. counter' \in [Servers -> Nat]
    <3>1. counter \in [Servers -> Nat]
      OBVIOUS
    <3> HIDE DEF IInv, TypeOK
    <3> QED
      BY <2>4, <3>1
  <2>6. order' \in Seq(Conns)
    BY <2>1, <2>4
  <2>7. UNCHANGED <<client, line, server>>
    BY <1>3 DEF SrvGrant
  <2> QED
    BY <2>2, <2>3, <2>5, <2>6, <2>7
<1>4. ASSUME NEW s \in Servers, Restart(s) PROVE TypeOK'
  BY <1>4 DEF Restart
<1>5. ASSUME NEW w \in wire, Arrive(w) PROVE TypeOK'
  BY <1>5 DEF Arrive
<1> QED
  BY <1>1, <1>2, <1>3, <1>4, <1>5

-----------------------------------------------------------------------------
(* The clients.                                                            *)

(* The service changes nothing a client keeps, and takes no grant back     *)
(* from the history.                                                       *)
LEMMA ServiceKeepsClients ==
    ASSUME IInv, UNCHANGED client, Granteds \subseteq Granteds',
           \A n \in Conns : line[n] # "none" => line'[n] # "none"
    PROVE  ClientInv'
<1> SUFFICES ASSUME NEW c \in Clients PROVE AClient(c)'
  BY DEF ClientInv
<1>1. AClient(c) /\ (number[c] > 0 => Mine(c) \in Conns)
  BY MineIsConn DEF IInv, ClientInv
<1>2. Mine(c)' = Mine(c)
  BY DEF client, Mine
<1> QED
  BY <1>1, <1>2 DEF AClient, client

(* A line that was opened never counts as unopened again.                  *)
LEMMA LinesStay ==
    ASSUME IInv, NEW c \in Clients, ClientStep(c)
    PROVE  /\ \A n \in Conns : line[n] # "none" => line'[n] # "none"
           /\ \A d \in Clients : number[d] > 0 /\ line[Mine(d)] # "none" => line'[Mine(d)] # "none"
<1>1. \A n \in Conns : line[n] # "none" => line'[n] # "none"
  BY DEF ClientStep, Enter, Rearm, OpenFails, Open, Granted, NotGranted, Exit, Exited, Lose,
         Write, Hangup, service, client, IInv, TypeOK
<1> QED
  BY <1>1, MineIsConn

(* A client's own steps.                                                   *)
LEMMA ClientKeepsClients ==
    ASSUME IInv, NEW c \in Clients, ClientStep(c)
    PROVE  ClientInv'
<1>1. Granteds' = Granteds
  BY DEF ClientStep, Enter, Rearm, OpenFails, Open, Granted, NotGranted, Exit, Exited, Lose,
         Write, service, client, Granteds
<1>2. /\ \A n \in Conns : line[n] # "none" => line'[n] # "none"
      /\ \A d \in Clients : number[d] > 0 /\ line[Mine(d)] # "none" => line'[Mine(d)] # "none"
  BY LinesStay
<1>3. ASSUME NEW d \in Clients, d # c PROVE AClient(d)'
  <2>1. /\ op'[d] = op[d] /\ at'[d] = at[d] /\ body'[d] = body[d] /\ number'[d] = number[d]
        /\ conn'[d] = conn[d] /\ token'[d] = token[d]
    <3>1. CASE Enter(c) \/ Rearm(c) \/ OpenFails(c) \/ Open(c) \/ Write(c)
      BY <1>3, <3>1 DEF Enter, Rearm, OpenFails, Open, Write, Finish, client, IInv, TypeOK
    <3>2. CASE Granted(c) \/ NotGranted(c) \/ Lose(c)
      BY <1>3, <3>2 DEF Granted, NotGranted, Lose, Finish, Hangup, IInv, TypeOK
    <3>3. CASE Exit(c) \/ Exited(c)
      BY <1>3, <3>3 DEF Exit, Exited, Finish, Hangup, IInv, TypeOK
    <3> QED
      BY <3>1, <3>2, <3>3 DEF ClientStep
  <2>2. Mine(d)' = Mine(d)
    BY <2>1 DEF Mine
  <2>3. AClient(d) /\ number[d] \in 0 .. MaxAttempts
    BY DEF IInv, TypeOK, ClientInv
  <2> QED
    BY <1>1, <1>2, <2>1, <2>2, <2>3 DEF AClient
<1>4. AClient(c)'
  <2> USE ServiceAssumption, <1>1, <1>2 DEF IInv, TypeOK, ClientInv, AClient, service, resource,
          client, Finish, Hangup, Mine
  <2>1. CASE Enter(c)
    BY <2>1 DEF Enter
  <2>2. CASE Rearm(c)
    <3>1. /\ conn[c] = None /\ token[c] = None /\ ~ body[c] /\ op[c] = "acquire"
          /\ number[c] \in 0 .. MaxAttempts
      BY <2>2 DEF Rearm
    <3>2. /\ number'[c] = number[c] + 1 /\ at'[c] = "open"
          /\ conn'[c] = None /\ token'[c] = None /\ ~ body'[c] /\ op'[c] = "acquire"
      BY <2>2, <3>1 DEF Rearm
    <3>3. number'[c] > 0
      BY <3>1, <3>2
    <3> QED
      BY <3>2, <3>3 DEF AClient
  <2>3. CASE OpenFails(c)
    BY <2>3 DEF OpenFails
  <2>4. CASE Open(c)
    <3>1. line'[Mine(c)] = "up"
      BY <2>4 DEF Open, Conns
    <3>2. conn' = [conn EXCEPT ![c] = Mine(c)] /\ at' = [at EXCEPT ![c] = "await"]
          /\ UNCHANGED <<op, body, number, token>>
      BY <2>4 DEF Open
    <3> QED
      BY <2>4, <3>1, <3>2 DEF Open
  <2>5. CASE Granted(c)
    <3>1. number[c] > 0 /\ conn[c] = Mine(c) /\ msg[Mine(c)].kind = "granted"
      BY <2>5 DEF Granted
    <3>2. Mine(c) \in Conns
      BY <3>1 DEF Conns
    <3>3. Mine(c) \in Granteds
      BY <3>1, <3>2 DEF ServerInv
    <3>4. Mine(c) # None
      BY DEF None
    <3>5. body' = [body EXCEPT ![c] = TRUE] /\ at' = [at EXCEPT ![c] = "idle"]
          /\ op' = [op EXCEPT ![c] = "none"] /\ UNCHANGED <<number, conn>>
      BY <2>5 DEF Granted
    <3> QED
      BY <3>1, <3>3, <3>4, <3>5
  <2>6. CASE NotGranted(c)
    BY <2>6 DEF NotGranted
  <2>7. CASE Exit(c)
    BY <2>7 DEF Exit
  <2>8. CASE Exited(c)
    BY <2>8 DEF Exited
  <2>9. CASE Lose(c)
    BY <2>9 DEF Lose
  <2>10. CASE Write(c)
    BY <2>10 DEF Write
  <2> QED
    BY <2>1, <2>2, <2>3, <2>4, <2>5, <2>6, <2>7, <2>8, <2>9, <2>10 DEF ClientStep
<1> QED
  BY <1>3, <1>4, Zenon DEF ClientInv

-----------------------------------------------------------------------------
(* The servers.                                                            *)

(* What a client sends, drops or takes in leaves the queues and the holders*)
(* alone, and adds no grant and no acquire but that of a fresh connection. *)
LEMMA ClientKeepsServers ==
    ASSUME IInv, NEW c \in Clients, ClientStep(c)
    PROVE  ServerInv'
<1>0. conn[c] \in Conns => line[conn[c]] # "none"
  BY NoneIsNoConn DEF IInv, ClientInv, AClient
<1> USE DEF IInv, TypeOK, ServerInv, service, resource, client, Hangup, Plain, Quiet
<1>1. CASE Enter(c) \/ Rearm(c) \/ OpenFails(c) \/ Write(c)
  <2>1. UNCHANGED service
    BY <1>1 DEF Enter, Rearm, OpenFails, Write
  <2> QED
    BY <2>1 DEF ToSet, Granteds
<1>2. CASE Open(c)
  <2>1. Mine(c) \in Conns /\ Mine(c)[1] = c
    BY <1>2, MineIsConn DEF Open, ClientInv, AClient
  <2>2. ValidateShardIndex(ShardIndex(c)) /\ PickServer(c) \in Servers
    BY <1>2, PickedServerExists DEF Open
  <2>3. /\ line' = [line EXCEPT ![Mine(c)] = "up"]
        /\ server' = [server EXCEPT ![Mine(c)] = PickServer(c)]
        /\ msg' = [msg EXCEPT ![Mine(c)] = Plain("acquire")]
        /\ UNCHANGED <<queue, holders, order>>
    BY <1>2 DEF Open
  <2>4. \A n \in Conns : /\ line[n] # "none" => line'[n] # "none" /\ server'[n] = server[n]
                         /\ n # Mine(c) => line'[n] = line[n] /\ msg'[n] = msg[n]
    BY <2>1, <2>2, <2>3
  <2>5. \A s \in Servers : ToSet(queue[s]) \cup holders[s] \subseteq Conns
    BY DEF ToSet
  <2>6. msg'[Mine(c)].kind = "acquire" /\ line'[Mine(c)] = "up" /\ server'[Mine(c)] = PickServer(c)
    BY <2>1, <2>3
  <2>7. \A n \in Conns :
          /\ msg'[n].kind = "acquire" => line'[n] # "none"
          /\ line'[n] # "none" => /\ ValidateShardIndex(ShardIndex(n[1]))
                                  /\ server'[n] = PickServer(n[1])
          /\ msg'[n].kind = "granted" => n \in Granteds' /\ msg'[n].token # None
    BY <2>1, <2>2, <2>3, <2>4, <2>6 DEF Granteds
  <2>8. \A s \in Servers :
          /\ \A n \in ToSet(queue'[s]) \cup holders'[s] : line'[n] # "none" /\ server'[n] = s
          /\ IsFiniteSet(holders'[s]) /\ Cardinality(holders'[s]) <= Limit
    <3> SUFFICES ASSUME NEW s \in Servers
                 PROVE  /\ \A n \in ToSet(queue[s]) \cup holders[s] :
                              line'[n] # "none" /\ server'[n] = s
                        /\ IsFiniteSet(holders[s]) /\ Cardinality(holders[s]) <= Limit
      BY <2>3
    <3>1. \A n \in ToSet(queue[s]) \cup holders[s] : n \in Conns /\ line[n] # "none" /\ server[n] = s
      BY <2>5
    <3>2. IsFiniteSet(holders[s]) /\ Cardinality(holders[s]) <= Limit
      OBVIOUS
    <3>3. ASSUME NEW n \in ToSet(queue[s]) \cup holders[s]
          PROVE  line'[n] # "none" /\ server'[n] = s
      <4>1. n \in Conns /\ line[n] # "none" /\ server[n] = s
        BY <3>1
      <4> QED
        BY <2>4, <4>1
    <3> QED
      BY <3>2, <3>3
  <2> QED
    BY <2>7, <2>8
<1>3. CASE Granted(c)
  <2>1. \A n \in Conns : msg'[n] = msg[n] \/ msg'[n].kind = "quiet"
    BY <1>3 DEF Granted
  <2> QED
    BY <1>3, <2>1 DEF Granted, ToSet, Granteds
<1>4. CASE NotGranted(c) \/ Exited(c) \/ Lose(c)
  <2>1. \A n \in Conns : line'[n] # "none" <=> (line[n] # "none" \/ n = conn[c])
    BY <1>4 DEF NotGranted, Exited, Lose
  <2>2. conn[c] \in Conns => line[conn[c]] # "none"
    BY <1>0
  <2> QED
    BY <1>4, <2>1, <2>2 DEF NotGranted, Exited, Lose, ToSet, Granteds
<1>5. CASE Exit(c)
  <2>1. \A n \in Conns : msg'[n] = msg[n] \/ msg'[n].kind = "release"
    BY <1>5 DEF Exit
  <2> QED
    BY <1>5, <2>1 DEF Exit, ToSet, Granteds
<1> QED
  BY <1>1, <1>2, <1>3, <1>4, <1>5 DEF ClientStep

(* A step of the servers that only takes connections out of queues and     *)
(* slots, or loses lines and messages, leaves the rest as it was.          *)
LEMMA FewerIsFine ==
    ASSUME IInv, UNCHANGED <<server, order>>,
           \A n \in Conns : line'[n] # "none" <=> line[n] # "none",
           \A n \in Conns : msg'[n] = msg[n] \/ msg'[n].kind \notin {"acquire", "granted"},
           \A s \in Servers : /\ ToSet(queue'[s]) \subseteq ToSet(queue[s])
                              /\ holders'[s] \subseteq holders[s]
    PROVE  ServerInv'
<1>1. ASSUME NEW n \in Conns
      PROVE  /\ msg'[n].kind = "acquire" => line'[n] # "none"
             /\ line'[n] # "none" => /\ ValidateShardIndex(ShardIndex(n[1]))
                                     /\ server'[n] = PickServer(n[1])
             /\ msg'[n].kind = "granted" => n \in Granteds' /\ msg'[n].token # None
  BY DEF IInv, ServerInv, Granteds
<1>2. ASSUME NEW s \in Servers
      PROVE  /\ \A n \in ToSet(queue'[s]) \cup holders'[s] : line'[n] # "none" /\ server'[n] = s
             /\ IsFiniteSet(holders'[s]) /\ Cardinality(holders'[s]) <= Limit
  <2>1. ToSet(queue[s]) \cup holders[s] \subseteq Conns
    BY DEF IInv, TypeOK, ToSet
  <2>2. \A n \in ToSet(queue[s]) \cup holders[s] : line[n] # "none" /\ server[n] = s
    BY DEF IInv, ServerInv
  <2>3. IsFiniteSet(holders[s]) /\ Cardinality(holders[s]) <= Limit
    BY DEF IInv, ServerInv
  <2>4. /\ IsFiniteSet(holders'[s]) /\ Cardinality(holders'[s]) <= Cardinality(holders[s])
        /\ Cardinality(holders'[s]) \in Nat /\ Cardinality(holders[s]) \in Nat
    BY <2>3, FS_Subset, FS_CardinalityType
  <2>5. ASSUME NEW n \in ToSet(queue'[s]) \cup holders'[s]
        PROVE  line'[n] # "none" /\ server'[n] = s
    <3>1. n \in Conns /\ line[n] # "none" /\ server[n] = s
      BY <2>1, <2>2
    <3> QED
      BY <3>1
  <2>6. Cardinality(holders'[s]) <= Limit
    BY <2>3, <2>4, ServiceAssumption
  <2> QED
    BY <2>4, <2>5, <2>6
<1> QED
  BY <1>1, <1>2, Zenon DEF ServerInv

(* The head of the queue gets the free slot, and a token.                  *)
LEMMA GrantKeepsServers ==
    ASSUME IInv, NEW s \in Servers, SrvGrant(s)
    PROVE  ServerInv' /\ Granteds \subseteq Granteds'
<1> DEFINE h == Head(queue[s])
<1>1. /\ h \in Conns /\ h \in ToSet(queue[s])
      /\ Tail(queue[s]) \in Seq(Conns) /\ ToSet(Tail(queue[s])) \subseteq ToSet(queue[s])
  BY HeadIsConn DEF SrvGrant
<1>2. /\ queue' = [queue EXCEPT ![s] = Tail(queue[s])]
      /\ holders' = [holders EXCEPT ![s] = holders[s] \cup {h}]
      /\ order' = Append(order, h)
      /\ Cardinality(holders[s]) < Limit
      /\ UNCHANGED <<line, server>>
  BY DEF SrvGrant, client
<1>3. PICK salt \in Salts :
        msg' = [msg EXCEPT ![h] = [kind |-> "granted", token |-> Digits(counter[s] + 1) \o salt]]
  BY DEF SrvGrant
<1>4. Digits(counter[s] + 1) \o salt # None
  <2>1. counter[s] + 1 \in Nat
    BY DEF IInv, TypeOK
  <2> QED
    BY <2>1, TokensAreSomething
<1>5. msg'[h].kind = "granted" /\ msg'[h].token # None
  BY <1>1, <1>3, <1>4 DEF IInv, TypeOK
<1>6. \A n \in Conns : n # h => msg'[n] = msg[n]
  BY <1>3 DEF IInv, TypeOK
<1>7. Granteds' = Granteds \cup {h}
  <2>1. order \in Seq(Conns) /\ order' = Append(order, h)
    BY <1>2 DEF IInv, TypeOK
  <2> HIDE DEF h
  <2> QED
    BY <1>1, <2>1 DEF Granteds, ToSet
<1>8. ASSUME NEW n \in Conns
      PROVE  /\ msg'[n].kind = "acquire" => line'[n] # "none"
             /\ line'[n] # "none" => /\ ValidateShardIndex(ShardIndex(n[1]))
                                     /\ server'[n] = PickServer(n[1])
             /\ msg'[n].kind = "granted" => n \in Granteds' /\ msg'[n].token # None
  <2>1. CASE n = h
    BY <2>1, <1>2, <1>5, <1>7 DEF IInv, ServerInv
  <2>2. CASE n # h
    BY <2>2, <1>2, <1>6, <1>7 DEF IInv, ServerInv
  <2> QED
    BY <2>1, <2>2
<1>9. ASSUME NEW r \in Servers
      PROVE  /\ \A n \in ToSet(queue'[r]) \cup holders'[r] : line'[n] # "none" /\ server'[n] = r
             /\ IsFiniteSet(holders'[r]) /\ Cardinality(holders'[r]) <= Limit
  <2>1. /\ \A n \in ToSet(queue[r]) \cup holders[r] : line[n] # "none" /\ server[n] = r
        /\ IsFiniteSet(holders[r]) /\ Cardinality(holders[r]) <= Limit
    BY DEF IInv, ServerInv
  <2>2. CASE r # s
    <3>1. queue'[r] = queue[r] /\ holders'[r] = holders[r]
      BY <1>2, <2>2 DEF IInv, TypeOK
    <3> QED
      BY <2>1, <3>1, <1>2
  <2>3. CASE r = s
    <3>1. queue'[r] = Tail(queue[s]) /\ holders'[r] = holders[s] \cup {h}
      BY <1>2, <2>3 DEF IInv, TypeOK
    <3>2. IsFiniteSet(holders'[r]) /\ Cardinality(holders'[r]) <= Cardinality(holders[s]) + 1
      <4>1. /\ IsFiniteSet(holders[s] \cup {h})
            /\ Cardinality(holders[s] \cup {h}) =
                 IF h \in holders[s] THEN Cardinality(holders[s]) ELSE Cardinality(holders[s]) + 1
        BY <2>1, <2>3, FS_AddElement
      <4> QED
        BY <2>1, <2>3, <3>1, <4>1, FS_CardinalityType
    <3>3. Cardinality(holders'[r]) \in Nat /\ Cardinality(holders[s]) \in Nat
      BY <2>1, <2>3, <3>2, FS_CardinalityType
    <3>4. \A n \in ToSet(queue'[r]) \cup holders'[r] : n \in ToSet(queue[r]) \cup holders[r]
      BY <1>1, <2>3, <3>1
    <3> QED
      BY <1>2, <2>1, <3>2, <3>3, <3>4, ServiceAssumption
  <2> QED
    BY <2>2, <2>3
<1> QED
  BY <1>7, <1>8, <1>9 DEF ServerInv

(* A server takes in an acquire: its connection was opened to this server. *)
LEMMA QueueKeepsServers ==
    ASSUME IInv, NEW n \in Conns, SrvQueue(n)
    PROVE  ServerInv'
<1> DEFINE r == server[n]
<1>1. line[n] # "none" /\ r \in Servers /\ queue[r] \in Seq(Conns)
  BY DEF SrvQueue, IInv, TypeOK, ServerInv
<1>2. /\ queue' = [queue EXCEPT ![r] = Append(queue[r], n)]
      /\ msg' = [msg EXCEPT ![n] = Quiet]
      /\ UNCHANGED <<line, server, holders, order>>
  BY DEF SrvQueue, client
<1>3. \A m \in Conns : msg'[m] = msg[m] \/ msg'[m].kind = "quiet"
  BY <1>2 DEF IInv, TypeOK, Quiet, Plain
<1>4. \A s \in Servers : ToSet(queue'[s]) \subseteq
                           IF s = r THEN ToSet(queue[s]) \cup {n} ELSE ToSet(queue[s])
  BY <1>1, <1>2 DEF IInv, TypeOK, ToSet
<1>5. ASSUME NEW m \in Conns
      PROVE  /\ msg'[m].kind = "acquire" => line'[m] # "none"
             /\ line'[m] # "none" => /\ ValidateShardIndex(ShardIndex(m[1]))
                                     /\ server'[m] = PickServer(m[1])
             /\ msg'[m].kind = "granted" => m \in Granteds' /\ msg'[m].token # None
  BY <1>2, <1>3 DEF IInv, ServerInv, Granteds
<1>6. ASSUME NEW s \in Servers
      PROVE  /\ \A m \in ToSet(queue'[s]) \cup holders'[s] : line'[m] # "none" /\ server'[m] = s
             /\ IsFiniteSet(holders'[s]) /\ Cardinality(holders'[s]) <= Limit
  <2>1. /\ \A m \in ToSet(queue[s]) \cup holders[s] : line[m] # "none" /\ server[m] = s
        /\ IsFiniteSet(holders[s]) /\ Cardinality(holders[s]) <= Limit
    BY DEF IInv, ServerInv
  <2> QED
    BY <2>1, <1>1, <1>2, <1>4
<1> QED
  BY <1>5, <1>6 DEF ServerInv

(* The steps of the servers and of the resource keep the invariant.        *)
LEMMA ServiceKeeps ==
    ASSUME IInv,
           \/ \E n \in Conns : SrvQueue(n) \/ SrvTimeout(n) \/ SrvRelease(n) \/ SrvExpire(n)
                              \/ SrvDisconnect(n)
           \/ \E s \in Servers : SrvGrant(s) \/ Restart(s)
           \/ \E w \in wire : Arrive(w)
    PROVE  ServerInv' /\ ClientInv'
<1> DEFINE Same == /\ UNCHANGED client /\ Granteds \subseteq Granteds'
                   /\ \A n \in Conns : line[n] # "none" => line'[n] # "none"
<1>1. ASSUME NEW n \in Conns, SrvQueue(n) PROVE ServerInv' /\ Same
  BY <1>1, QueueKeepsServers DEF SrvQueue, Granteds
<1>2. ASSUME NEW n \in Conns, SrvTimeout(n) \/ SrvRelease(n) \/ SrvExpire(n) \/ SrvDisconnect(n)
      PROVE  ServerInv' /\ Same
  <2>1. Free(n) /\ UNCHANGED <<client, line, server, order>>
    BY <1>2 DEF SrvTimeout, SrvRelease, SrvExpire, SrvDisconnect, Free
  <2>2. \A m \in Conns : msg'[m] = msg[m] \/ msg'[m].kind \notin {"acquire", "granted"}
    BY <1>2 DEF SrvTimeout, SrvRelease, SrvExpire, SrvDisconnect, IInv, TypeOK, Plain, Quiet
  <2>3. ServerInv'
    BY <2>1, <2>2, FreeKeeps, FewerIsFine
  <2> QED
    BY <2>1, <2>3 DEF Granteds
<1>3. ASSUME NEW s \in Servers, SrvGrant(s) PROVE ServerInv' /\ Same
  BY <1>3, GrantKeepsServers DEF SrvGrant
<1>4. ASSUME NEW s \in Servers, Restart(s) PROVE ServerInv' /\ Same
  <2>1. /\ UNCHANGED <<client, server, order>>
        /\ \A m \in Conns : line'[m] # "none" <=> line[m] # "none"
        /\ \A m \in Conns : msg'[m] = msg[m] \/ msg'[m].kind \notin {"acquire", "granted"}
    BY <1>4 DEF Restart, Plain, Quiet
  <2>2. \A r \in Servers : ToSet(queue'[r]) \subseteq ToSet(queue[r]) /\ holders'[r] \subseteq holders[r]
    BY <1>4 DEF Restart, ToSet, IInv, TypeOK
  <2>3. ServerInv'
    BY <2>1, <2>2, FewerIsFine
  <2> QED
    BY <2>1, <2>3 DEF Granteds
<1>5. ASSUME NEW w \in wire, Arrive(w) PROVE ServerInv' /\ Same
  <2>1. UNCHANGED <<client, line, server, msg, queue, holders, order>>
    BY <1>5 DEF Arrive, service
  <2> QED
    BY <2>1 DEF IInv, ServerInv, Granteds
<1>6. ServerInv' /\ Same
  BY <1>1, <1>2, <1>3, <1>4, <1>5
<1> QED
  BY <1>6, ServiceKeepsClients

(* Every step keeps the invariant.                                         *)
LEMMA NextInv == IInv /\ [Next]_vars => IInv'
<1> SUFFICES ASSUME IInv, [Next]_vars PROVE IInv'
  OBVIOUS
<1>1. CASE \E c \in Clients : ClientStep(c)
  BY <1>1, ClientTypes, ClientKeepsClients, ClientKeepsServers DEF IInv
<1>2. CASE \/ \E n \in Conns : SrvQueue(n) \/ SrvTimeout(n) \/ SrvRelease(n) \/ SrvExpire(n)
                                \/ SrvDisconnect(n)
           \/ \E s \in Servers : SrvGrant(s) \/ Restart(s)
           \/ \E w \in wire : Arrive(w)
  BY <1>2, ServiceTypes, ServiceKeeps DEF IInv
<1>3. CASE UNCHANGED vars
  BY <1>3 DEF vars, client, service, resource, IInv, TypeOK, ClientInv, AClient, ServerInv,
              Mine, Granteds
<1> QED
  BY <1>1, <1>2, <1>3 DEF Next

(* Whatever the clients and the servers do, in whatever order, the         *)
(* invariant holds.                                                        *)
THEOREM Invariance == Spec => []IInv
  BY InitInv, NextInv, PTL DEF Spec

-----------------------------------------------------------------------------
(* Mutual exclusion.                                                       *)

(* Clients whose connections hold slots picked the same server; their      *)
(* connections are as many different holders of it, so at most Limit.      *)
LEMMA ExclusionInv ==
    ASSUME Agreed, IInv
    PROVE  BodiesExclude
<1> DEFINE B == {c \in Clients : body[c] /\ (Mine(c) \in Held \/ Mine(c) \notin Granteds)}
           f == [c \in B |-> Mine(c)]
<1>1. ASSUME NEW c \in B
      PROVE  /\ c \in Clients /\ ValidateShardIndex(ShardIndex(c))
             /\ PickServer(c) \in Servers /\ Mine(c) \in holders[PickServer(c)]
  <2>1. c \in Clients /\ Mine(c) \in Held
    BY DEF IInv, ClientInv, AClient
  <2>2. PICK s \in Servers : Mine(c) \in holders[s]
    BY <2>1 DEF Held
  <2>3. Mine(c) \in Conns /\ Mine(c)[1] = c
    BY <2>2 DEF IInv, TypeOK, Mine
  <2>4. line[Mine(c)] # "none" /\ server[Mine(c)] = s
    BY <2>2 DEF IInv, ServerInv
  <2> QED
    BY <2>1, <2>2, <2>3, <2>4 DEF IInv, ServerInv
<1>2. CASE B = {}
  <2>1. Cardinality(B) = 0
    BY <1>2, FS_EmptySet
  <2>2. Limit \in Nat
    BY ServiceAssumption
  <2> QED
    BY <2>1, <2>2 DEF BodiesExclude
<1>3. CASE B # {}
  <2>1. PICK c \in B : TRUE
    BY <1>3
  <2> DEFINE s == PickServer(c)
  <2>2. \A d \in B : PickServer(d) = s
    BY <1>1, <2>1 DEF Agreed, PickServer
  <2>3. IsFiniteSet(holders[s]) /\ Cardinality(holders[s]) <= Limit
    BY <1>1, <2>1 DEF IInv, ServerInv
  <2>4. f \in [B -> holders[s]]
    BY <1>1, <2>2
  <2>5. \A d, e \in B : f[d] = f[e] => d = e
    BY DEF Mine
  <2>6. f \in Injection(B, holders[s])
    <3> HIDE DEF B, f, s
    <3> QED
      BY <2>4, <2>5 DEF Injection, IsInjective
  <2>7. IsFiniteSet(B) /\ Cardinality(B) <= Cardinality(holders[s])
    BY <2>3, <2>6, FS_Injection
  <2>8. Cardinality(B) \in Nat /\ Cardinality(holders[s]) \in Nat
    BY <2>3, <2>7, FS_CardinalityType
  <2> QED
    BY <2>3, <2>7, <2>8, ServiceAssumption DEF BodiesExclude
<1> QED
  BY <1>2, <1>3

(* However many clients and servers there are: while the clients agree on  *)
(* the shard of the key, at most Limit of them are in the body at a time.  *)
THEOREM AtMostLimit == Agreed => (Spec => []BodiesExclude)
<1> SUFFICES ASSUME Agreed PROVE Spec => []BodiesExclude
  OBVIOUS
<1>1. IInv => BodiesExclude
  BY ExclusionInv
<1> QED
  BY <1>1, Invariance, PTL

-----------------------------------------------------------------------------
(* Tokens and fences.  What a fold or a recursive function computes is     *)
(* shown by induction, and induction by the least number that it fails for.*)

(* A set of natural numbers that is not empty has a least member.          *)
LEMMA LeastMember ==
    ASSUME NEW S \in SUBSET Nat, S # {}
    PROVE  \E x \in S : \A y \in S : x <= y
<1> DEFINE Less == OpToRel(<, Nat)
<1>1. \A x, y \in Nat : x < y => <<x, y>> \in Less
  BY Zenon DEF OpToRel
<1>2. IsWellFoundedOn(Less, Nat)
  BY NatLessThanWellFounded
<1> HIDE DEF Less
<1>3. PICK x \in S : \A y \in S : ~ (<<y, x>> \in Less)
  BY <1>2, WFMin
<1>4. \A y \in S : ~ (y < x)
  BY <1>1, <1>3, Zenon
<1> QED
  BY <1>4

(* A set that has 0, and each number up to n after the one before, has all.*)
LEMMA Upwards ==
    ASSUME NEW n \in Nat, NEW S, 0 \in S, \A i \in 1 .. n : i - 1 \in S => i \in S
    PROVE  0 .. n \subseteq S
<1> DEFINE Rest == (0 .. n) \ S
<1> SUFFICES ASSUME Rest # {} PROVE FALSE
  OBVIOUS
<1>1. Rest \in SUBSET Nat
  OBVIOUS
<1> HIDE DEF Rest
<1>2. PICK x \in Rest : \A y \in Rest : x <= y
  BY <1>1, LeastMember
<1>3. x \in 1 .. n /\ x \notin S
  BY <1>2 DEF Rest
<1>4. x - 1 \notin Rest
  BY <1>1, <1>2, <1>3
<1>5. x - 1 \in S
  BY <1>3, <1>4 DEF Rest
<1> QED
  BY <1>3, <1>5

(* The part of the assumption that is about tokens.                        *)
LEMMA BaseAndWidth == Base \in Nat \ {0, 1} /\ Width \in Nat \ {0}
  BY ServiceAssumption

(* The recursive function Power exists: it is the one its equation names.  *)
PowerUpTo(n, f) == f = [i \in 0 .. n |-> IF i = 0 THEN 1 ELSE Base * f[i - 1]]

LEMMA PowerExists == \E f : PowerUpTo(Width, f)
<1> DEFINE S == {n \in Nat : \E f : PowerUpTo(n, f)}
<1>1. 0 \in S
  <2>1. PowerUpTo(0, [i \in 0 .. 0 |-> 1])
    BY DEF PowerUpTo
  <2> QED
    BY <2>1
<1>2. ASSUME NEW n \in 1 .. Width, n - 1 \in S PROVE n \in S
  <2>1. PICK f : PowerUpTo(n - 1, f)
    BY <1>2
  <2> DEFINE g == [i \in 0 .. n |-> IF i = n THEN Base * f[n - 1] ELSE f[i]]
  <2>2. \A i \in 0 .. n : g[i] = IF i = 0 THEN 1 ELSE Base * g[i - 1]
    <3> SUFFICES ASSUME NEW i \in 0 .. n PROVE g[i] = IF i = 0 THEN 1 ELSE Base * g[i - 1]
      OBVIOUS
    <3>1. CASE i = n
      BY <3>1
    <3>2. CASE i < n
      <4>1. f[i] = IF i = 0 THEN 1 ELSE Base * f[i - 1]
        BY <2>1, <3>2 DEF PowerUpTo
      <4>2. g[i] = f[i] /\ (i > 0 => g[i - 1] = f[i - 1])
        BY <3>2
      <4> QED
        BY <4>1, <4>2
    <3> QED
      BY <3>1, <3>2
  <2>3. PowerUpTo(n, g)
    <3> HIDE DEF g
    <3>1. g = [i \in 0 .. n |-> g[i]]
      BY DEF g
    <3> QED
      BY <2>2, <3>1 DEF PowerUpTo
  <2> QED
    BY <2>3
<1> HIDE DEF S
<1>3. Width \in S
  BY <1>1, <1>2, Upwards, BaseAndWidth
<1> QED
  BY <1>3 DEF S

(* So Power satisfies its equation ...                                     *)
LEMMA PowerDef == PowerUpTo(Width, Power)
<1>1. Power = CHOOSE f : PowerUpTo(Width, f)
  BY DEF Power, PowerUpTo
<1> QED
  BY <1>1, PowerExists

(* ... and its values are the powers of Base.                              *)
LEMMA Powers ==
    /\ Power[0] = 1
    /\ \A i \in 1 .. Width : Power[i] = Base * Power[i - 1]
    /\ \A i \in 0 .. Width : Power[i] \in Nat \ {0}
<1>1. \A i \in 0 .. Width : Power[i] = IF i = 0 THEN 1 ELSE Base * Power[i - 1]
  BY PowerDef DEF PowerUpTo
<1>2. Power[0] = 1 /\ \A i \in 1 .. Width : Power[i] = Base * Power[i - 1]
  BY <1>1, BaseAndWidth
<1> DEFINE S == {i \in 0 .. Width : Power[i] \in Nat \ {0}}
<1>3. 0 \in S /\ \A i \in 1 .. Width : i - 1 \in S => i \in S
  BY <1>2, BaseAndWidth
<1> HIDE DEF S
<1>4. 0 .. Width \subseteq S
  BY <1>3, Upwards, BaseAndWidth
<1> QED
  BY <1>2, <1>4 DEF S

-----------------------------------------------------------------------------
(* The quotient is the number whose multiple is closest below.             *)
LEMMA QuotientIs ==
    ASSUME NEW n \in Nat, NEW m \in Nat \ {0}, NEW q \in Nat, m * q <= n, n < m * (q + 1)
    PROVE  n \div m = q
<1>1. n \div m \in Nat /\ n = m * (n \div m) + (n % m) /\ n % m \in 0 .. m - 1
  OBVIOUS
<1>2. ASSUME n \div m < q PROVE FALSE
  <2>1. m * (n \div m + 1) <= m * q
    BY <1>1, <1>2
  <2> QED
    BY <1>1, <2>1
<1>3. ASSUME n \div m > q PROVE FALSE
  <2>1. m * (q + 1) <= m * (n \div m)
    BY <1>1, <1>3
  <2> QED
    BY <1>1, <2>1
<1> QED
  BY <1>1, <1>2, <1>3

(* Dividing by a product is dividing by its factors in turn.               *)
LEMMA QuotientTwice ==
    ASSUME NEW n \in Nat, NEW p \in Nat \ {0}, NEW b \in Nat \ {0}
    PROVE  n \div (b * p) = (n \div p) \div b
<1> DEFINE q == n \div p
           u == q \div b
<1>1. q \in Nat /\ n = p * q + (n % p) /\ n % p \in 0 .. p - 1
  OBVIOUS
<1> HIDE DEF q
<1>2. u \in Nat /\ q = b * u + (q % b) /\ q % b \in 0 .. b - 1
  BY <1>1
<1> HIDE DEF u
<1>3. p * q <= n /\ n < p * (q + 1) /\ b * u <= q /\ q + 1 <= b * (u + 1)
  BY <1>1, <1>2
<1>4. (b * p) * u <= n
  <2>1. p * (b * u) <= p * q
    BY <1>1, <1>2, <1>3
  <2>2. p * (b * u) = (b * p) * u
    BY <1>2
  <2> QED
    BY <1>1, <1>2, <1>3, <2>1, <2>2
<1>5. n < (b * p) * (u + 1)
  <2>1. p * (q + 1) <= p * (b * (u + 1))
    BY <1>1, <1>2, <1>3
  <2>2. p * (b * (u + 1)) = (b * p) * (u + 1)
    BY <1>2
  <2> QED
    BY <1>1, <1>2, <1>3, <2>1, <2>2
<1>6. b * p \in Nat \ {0}
  OBVIOUS
<1>7. n \div (b * p) = u
  BY <1>2, <1>4, <1>5, <1>6, QuotientIs
<1> QED
  BY <1>7 DEF u, q

(* One step of the fold that Number is: the digits before the last, and it.*)
OneDigit(digits, s, f) == IF s = {} THEN 0 ELSE f[s \ {Max(s)}] * Base + digits[Max(s)]

(* f is what the fold makes of every set of places up to n.                *)
Folded(digits, n, f) == f = [s \in SUBSET (1 .. n) |-> OneDigit(digits, s, f)]

(* There is such a function: one place more is one step more.              *)
LEMMA FoldExists ==
    ASSUME NEW digits
    PROVE  \E f : Folded(digits, Width, f)
<1> DEFINE S == {n \in Nat : \E f : Folded(digits, n, f)}
<1>1. 0 \in S
  <2> DEFINE f == [s \in SUBSET (1 .. 0) |-> 0]
  <2>1. \A s \in SUBSET (1 .. 0) : s = {}
    OBVIOUS
  <2>2. Folded(digits, 0, f)
    BY <2>1 DEF Folded, OneDigit
  <2> QED
    BY <2>2
<1>2. ASSUME NEW n \in 1 .. Width, n - 1 \in S PROVE n \in S
  <2>1. PICK f : Folded(digits, n - 1, f)
    BY <1>2
  <2> DEFINE g == [s \in SUBSET (1 .. n) |->
                      IF n \in s THEN f[s \ {n}] * Base + digits[n] ELSE f[s]]
  <2>2. ASSUME NEW s \in SUBSET (1 .. n) PROVE g[s] = OneDigit(digits, s, g)
    <3>1. CASE n \in s
      <4>1. Max(s) = n
        <5>1. n \in s /\ \A j \in s : n >= j
          BY <3>1
        <5>2. \A i \in s : (\A j \in s : i >= j) => i = n
          BY <5>1
        <5> QED
          BY <5>1, <5>2 DEF Max
      <4>2. n \notin s \ {n} /\ s \ {n} \in SUBSET (1 .. n)
        OBVIOUS
      <4>3. g[s \ {n}] = f[s \ {n}]
        BY <4>2
      <4>4. g[s] = f[s \ {n}] * Base + digits[n] /\ s # {}
        BY <3>1
      <4> HIDE DEF g
      <4> QED
        BY <4>1, <4>3, <4>4 DEF OneDigit
    <3>2. CASE n \notin s
      <4>0. s \in SUBSET (1 .. n - 1)
        BY <3>2
      <4>1. s \ {Max(s)} \in SUBSET (1 .. n) /\ n \notin s \ {Max(s)}
        BY <3>2
      <4>2. g[s] = f[s] /\ g[s \ {Max(s)}] = f[s \ {Max(s)}]
        BY <3>2, <4>1
      <4>3. f[s] = OneDigit(digits, s, f)
        BY <2>1, <4>0 DEF Folded
      <4> HIDE DEF g
      <4> QED
        BY <4>2, <4>3 DEF OneDigit
    <3> QED
      BY <3>1, <3>2
  <2>3. g = [s \in SUBSET (1 .. n) |-> g[s]]
    OBVIOUS
  <2> HIDE DEF g
  <2>4. Folded(digits, n, g)
    BY <2>2, <2>3 DEF Folded
  <2> QED
    BY <2>4
<1> HIDE DEF S
<1>3. Width \in S
  BY <1>1, <1>2, Upwards, BaseAndWidth
<1> QED
  BY <1>3 DEF S

(* Number is its value for all the places.                                 *)
LEMMA NumberFolds ==
    ASSUME NEW digits, DOMAIN digits = 1 .. Width
    PROVE  \E f : Folded(digits, Width, f) /\ Number(digits) = f[1 .. Width]
<1> DEFINE f == CHOOSE f : Folded(digits, Width, f)
<1>1. Number(digits) = f[1 .. Width]
  BY Zenon DEF Number, FoldLeft, MapThenFoldSet, Folded, OneDigit
<1> QED
  BY <1>1, FoldExists

(* int(_, 16): times Base, plus the next digit, from the first to the last.*)
LEMMA Horner ==
    ASSUME NEW digits, DOMAIN digits = 1 .. Width
    PROVE  \E h : /\ h[0] = 0
                  /\ \A i \in 1 .. Width : h[i] = h[i - 1] * Base + digits[i]
                  /\ Number(digits) = h[Width]
<1>1. PICK f : Folded(digits, Width, f) /\ Number(digits) = f[1 .. Width]
  BY NumberFolds
<1> DEFINE h == [i \in 0 .. Width |-> f[1 .. i]]
<1>2. \A s \in SUBSET (1 .. Width) : f[s] = OneDigit(digits, s, f)
  BY <1>1 DEF Folded
<1>3. f[{}] = 0
  BY <1>2 DEF OneDigit
<1>4. h[0] = 0
  BY <1>3, BaseAndWidth
<1>5. ASSUME NEW i \in 1 .. Width PROVE h[i] = h[i - 1] * Base + digits[i]
  <2>1. Max(1 .. i) = i
    <3>1. i \in 1 .. i /\ \A j \in 1 .. i : i >= j
      BY BaseAndWidth
    <3>2. \A x \in 1 .. i : (\A j \in 1 .. i : x >= j) => x = i
      BY <3>1
    <3> QED
      BY <3>1, <3>2 DEF Max
  <2>2. (1 .. i) \ {i} = 1 .. (i - 1) /\ 1 .. i # {} /\ 1 .. i \in SUBSET (1 .. Width)
    BY BaseAndWidth
  <2>3. f[1 .. i] = f[1 .. (i - 1)] * Base + digits[i]
    BY <1>2, <2>1, <2>2 DEF OneDigit
  <2>4. h[i] = f[1 .. i] /\ h[i - 1] = f[1 .. (i - 1)]
    BY BaseAndWidth
  <2> QED
    BY <2>3, <2>4
<1>6. h[Width] = f[1 .. Width]
  BY BaseAndWidth
<1> HIDE DEF h
<1> QED
  BY <1>1, <1>4, <1>5, <1>6

(* The first i digits of n read as n without its last Width - i digits.    *)
LEMMA DigitsReadBack ==
    ASSUME NEW n \in 0 .. Power[Width] - 1
    PROVE  Number(Digits(n)) = n
<1>0. n \in Nat /\ n < Power[Width]
  BY Powers, BaseAndWidth
<1>1. PICK h : /\ h[0] = 0
               /\ \A i \in 1 .. Width : h[i] = h[i - 1] * Base + Digits(n)[i]
               /\ Number(Digits(n)) = h[Width]
  <2>1. DOMAIN Digits(n) = 1 .. Width
    BY DEF Digits
  <2> QED
    BY <2>1, Horner
<1> DEFINE Read == {i \in 0 .. Width : h[i] = n \div Power[Width - i]}
<1>2. 0 \in Read
  <2>1. Power[Width] \in Nat \ {0} /\ Power[Width] * 0 <= n /\ n < Power[Width] * (0 + 1)
    BY <1>0, Powers, BaseAndWidth
  <2>2. n \div Power[Width] = 0
    BY <1>0, <2>1, QuotientIs
  <2> QED
    BY <1>1, <2>2, BaseAndWidth
<1>3. ASSUME NEW i \in 1 .. Width, i - 1 \in Read PROVE i \in Read
  <2> DEFINE p == Power[Width - i]
             q == n \div p
  <2>1. p \in Nat \ {0} /\ Power[Width - (i - 1)] = Base * p
    <3>1. Width - i \in 0 .. Width /\ Width - (i - 1) \in 1 .. Width
          /\ (Width - (i - 1)) - 1 = Width - i
      BY BaseAndWidth
    <3> QED
      BY <3>1, Powers
  <2>2. h[i - 1] = n \div (Base * p)
    BY <1>3, <2>1
  <2> HIDE DEF p
  <2>3. h[i - 1] = q \div Base
    <3>1. n \in Nat /\ p \in Nat \ {0} /\ Base \in Nat \ {0}
      BY <1>0, <2>1, BaseAndWidth
    <3>2. n \div (Base * p) = (n \div p) \div Base
      BY <3>1, QuotientTwice, Zenon
    <3> QED
      BY <2>2, <3>2, Zenon
  <2>4. h[i] = (q \div Base) * Base + (q % Base)
    BY <1>1, <2>3 DEF Digits, p
  <2>5. q \in Nat
    BY <1>0, <2>1
  <2> HIDE DEF q
  <2>6. (q \div Base) * Base + (q % Base) = q
    BY <2>5, BaseAndWidth
  <2> QED
    BY <2>4, <2>6 DEF p, q
<1> HIDE DEF Read
<1>4. Width \in Read
  BY <1>2, <1>3, Upwards, BaseAndWidth
<1>5. h[Width] = n \div Power[0]
  BY <1>4, BaseAndWidth DEF Read
<1> QED
  BY <1>0, <1>1, <1>5, Powers

(* fence_from_token reads the counter back out of a token it fits in,      *)
(* whatever the base, the width and the random half.                       *)
THEOREM FencesReadBack ==
    ASSUME NEW n \in 0 .. Power[Width] - 1, NEW salt \in Salts
    PROVE  FenceFromToken(Digits(n) \o salt) = n
<1>1. Digits(n) \in Seq(Int) /\ Len(Digits(n)) = Width /\ salt \in Seq(Int)
  <2>1. \A i \in 1 .. Width : Digits(n)[i] \in Int
    <3> SUFFICES ASSUME NEW i \in 1 .. Width PROVE (n \div Power[Width - i]) % Base \in Int
      BY DEF Digits
    <3>1. Power[Width - i] \in Nat \ {0} /\ n \in Nat
      BY Powers, BaseAndWidth
    <3> QED
      BY <3>1, BaseAndWidth
  <2>2. Digits(n) \in [1 .. Width -> Int] /\ salt \in [1 .. Width -> Int]
    BY <2>1, ServiceAssumption DEF Digits
  <2> QED
    BY <2>2, BaseAndWidth
<1>2. SubSeq(Digits(n) \o salt, 1, Width) = Digits(n)
  <2> DEFINE d == Digits(n)
  <2> HIDE DEF d
  <2>1. SubSeq(d \o salt, 1, Width) = d
    BY <1>1, BaseAndWidth DEF d
  <2> QED
    BY <2>1 DEF d
<1> QED
  BY <1>2, DigitsReadBack DEF FenceFromToken

-----------------------------------------------------------------------------
(* Fencing.                                                                *)

(* No grant counter has run out of its half of the token.                  *)
CountersFit == \A s \in Servers : counter[s] < Power[Width]

(* t is a token that was minted when n was granted.                        *)
GrantOf(grants, t, n) ==
    \E i \in DOMAIN grants, salt \in Salts : grants[i] = n /\ t = Digits(i) \o salt

(* The counter of the server that the clients picked numbers the grants,   *)
(* a fence is the number of the grant it was made under, and the resource  *)
(* remembers the number of the last one it let pass.                       *)
FenceInv ==
    /\ \A c \in Clients :
          ValidateShardIndex(ShardIndex(c)) => counter[PickServer(c)] = Len(order)
    /\ \A n \in Conns : msg[n].kind = "granted" => GrantOf(order, msg[n].token, n)
    /\ \A c \in Clients : token[c] # None => GrantOf(order, token[c], Mine(c))
    /\ \A w \in wire : w.fence \in DOMAIN order /\ order[w.fence] = w.from
    /\ (seen = 0 /\ last = None) \/ (seen \in DOMAIN order /\ order[seen] = last)

(* What was minted stays minted.                                           *)
LEMMA GrantsStay ==
    ASSUME order \in Seq(Conns), order' = order \/ \E h \in Conns : order' = Append(order, h)
    PROVE  /\ \A i \in DOMAIN order : i \in DOMAIN order' /\ order'[i] = order[i]
           /\ \A t, n : GrantOf(order, t, n) => GrantOf(order', t, n)
<1>1. \A i \in DOMAIN order : i \in DOMAIN order' /\ order'[i] = order[i]
  OBVIOUS
<1> QED
  BY <1>1 DEF GrantOf

(* The client of a connection that is not unopened picked its server.      *)
LEMMA GrantsAreNumbered ==
    ASSUME Agreed, IInv, FenceInv, NEW c \in Clients, ValidateShardIndex(ShardIndex(c))
    PROVE  Len(order) = counter[PickServer(c)] /\ PickServer(c) \in Servers
  BY PickedServerExists DEF FenceInv

(* A grant is numbered by the server's counter.                            *)
LEMMA GrantFences ==
    ASSUME Agreed, IInv, FenceInv, NEW s \in Servers, SrvGrant(s)
    PROVE  FenceInv'
<1> DEFINE h == Head(queue[s])
<1>1. h \in Conns /\ line[h] # "none" /\ server[h] = s
  BY HeadIsConn DEF SrvGrant, IInv, ServerInv
<1>2. h[1] \in Clients /\ ValidateShardIndex(ShardIndex(h[1])) /\ PickServer(h[1]) = s
  BY <1>1 DEF IInv, ServerInv, Conns
<1>3. \A c \in Clients : ValidateShardIndex(ShardIndex(c)) => PickServer(c) = s
  BY <1>2 DEF Agreed, PickServer
<1>4. counter[s] = Len(order) /\ order \in Seq(Conns)
  BY <1>2 DEF FenceInv, IInv, TypeOK
<1>5. /\ order' = Append(order, h)
      /\ counter' = [counter EXCEPT ![s] = counter[s] + 1]
      /\ UNCHANGED <<client, resource>>
  BY DEF SrvGrant
<1>6. PICK salt \in Salts :
        msg' = [msg EXCEPT ![h] = [kind |-> "granted", token |-> Digits(counter[s] + 1) \o salt]]
  BY DEF SrvGrant
<1> HIDE DEF h
<1>7. /\ \A i \in DOMAIN order : i \in DOMAIN order' /\ order'[i] = order[i]
      /\ \A t, n : GrantOf(order, t, n) => GrantOf(order', t, n)
  BY <1>1, <1>4, <1>5, GrantsStay
<1>8. Len(order') = Len(order) + 1 /\ Len(order) + 1 \in DOMAIN order' /\ order'[Len(order) + 1] = h
  BY <1>1, <1>4, <1>5
<1>9. \A c \in Clients : ValidateShardIndex(ShardIndex(c)) => counter'[PickServer(c)] = Len(order')
  BY <1>3, <1>4, <1>5, <1>8 DEF IInv, TypeOK
<1>10. \A n \in Conns : msg'[n].kind = "granted" => GrantOf(order', msg'[n].token, n)
  <2>1. SUFFICES ASSUME NEW n \in Conns, msg'[n].kind = "granted"
                 PROVE  GrantOf(order', msg'[n].token, n)
    OBVIOUS
  <2>2. CASE n = h
    <3>1. msg'[n].token = Digits(Len(order) + 1) \o salt
      BY <1>1, <1>4, <1>6, <2>2 DEF IInv, TypeOK
    <3> QED
      BY <1>8, <2>2, <3>1 DEF GrantOf
  <2>3. CASE n # h
    <3>1. msg'[n] = msg[n]
      BY <1>6, <2>3 DEF IInv, TypeOK
    <3> QED
      BY <1>7, <2>1, <3>1 DEF FenceInv
  <2> QED
    BY <2>2, <2>3
<1>11. \A c \in Clients : token'[c] # None => GrantOf(order', token'[c], Mine(c)')
  BY <1>5, <1>7 DEF FenceInv, client, Mine
<1>12. /\ \A w \in wire' : w.fence \in DOMAIN order' /\ order'[w.fence] = w.from
       /\ (seen' = 0 /\ last' = None) \/ (seen' \in DOMAIN order' /\ order'[seen'] = last')
  BY <1>5, <1>7 DEF FenceInv, resource
<1> QED
  BY <1>9, <1>10, <1>11, <1>12 DEF FenceInv

(* A client takes the token it was granted, and writes with its fence.     *)
LEMMA ClientFences ==
    ASSUME Agreed, CountersFit, IInv, FenceInv,
           NEW c \in Clients, ClientStep(c)
    PROVE  FenceInv'
<1>1. UNCHANGED <<counter, order, seen, last>>
  BY DEF ClientStep, Enter, Rearm, OpenFails, Open, Granted, NotGranted, Exit, Exited, Lose,
         Write, service, resource
<1>2. \A t, n : GrantOf(order', t, n) <=> GrantOf(order, t, n)
  BY <1>1 DEF GrantOf
<1>3. \A n \in Conns : msg'[n].kind = "granted" => GrantOf(order', msg'[n].token, n)
  <2>1. \A n \in Conns : msg'[n] = msg[n] \/ msg'[n].kind # "granted"
    BY DEF ClientStep, Enter, Rearm, OpenFails, Open, Granted, NotGranted, Exit, Exited, Lose,
           Write, service, IInv, TypeOK, Plain, Quiet
  <2> QED
    BY <1>2, <2>1 DEF FenceInv
<1>4. \A d \in Clients : token'[d] # None => GrantOf(order', token'[d], Mine(d)')
  <2>1. CASE Granted(c)
    <3>1. number[c] > 0 /\ conn[c] = Mine(c) /\ msg[Mine(c)].kind = "granted"
      BY <2>1 DEF Granted, IInv, ClientInv, AClient
    <3>2. GrantOf(order, msg[Mine(c)].token, Mine(c))
      BY <3>1, MineIsConn DEF FenceInv
    <3>3. token' = [token EXCEPT ![c] = msg[Mine(c)].token] /\ number' = number
      BY <2>1, <3>1 DEF Granted
    <3> QED
      BY <1>2, <3>2, <3>3 DEF FenceInv, Mine, IInv, TypeOK
  <2>2. CASE Rearm(c)
    <3>1. token[c] = None /\ token' = token /\ \A d \in Clients : d # c => number'[d] = number[d]
      BY <2>2 DEF Rearm, IInv, ClientInv, AClient, TypeOK
    <3> QED
      BY <1>2, <3>1 DEF FenceInv, Mine
  <2>3. CASE \/ Enter(c) \/ OpenFails(c) \/ Open(c) \/ NotGranted(c) \/ Exit(c) \/ Exited(c)
             \/ Lose(c) \/ Write(c)
    <3>1. number' = number /\ \A d \in Clients : token'[d] \in {token[d], None}
      BY <2>3 DEF Enter, OpenFails, Open, NotGranted, Exit, Exited, Lose, Write, Hangup,
                  client, IInv, TypeOK
    <3> QED
      BY <1>2, <3>1 DEF FenceInv, Mine
  <2> QED
    BY <2>1, <2>2, <2>3 DEF ClientStep
<1>5. \A w \in wire' : w.fence \in DOMAIN order /\ order[w.fence] = w.from
  <2>1. CASE Write(c)
    <3>1. token[c] # None /\ wire' = wire \cup {[fence |-> FenceFromToken(token[c]), from |-> Mine(c)]}
      BY <2>1 DEF Write
    <3>2. PICK i \in DOMAIN order, salt \in Salts :
            order[i] = Mine(c) /\ token[c] = Digits(i) \o salt
      BY <3>1 DEF FenceInv, GrantOf
    <3>3. Mine(c) \in Conns /\ line[Mine(c)] # "none" /\ Mine(c)[1] = c
      BY <3>1, MineIsConn DEF IInv, ClientInv, AClient
    <3>4. ValidateShardIndex(ShardIndex(c))
      BY <3>3 DEF IInv, ServerInv
    <3>5. Len(order) < Power[Width] /\ order \in Seq(Conns)
      BY <3>4, GrantsAreNumbered DEF CountersFit, IInv, TypeOK
    <3>6. i \in 0 .. Power[Width] - 1
      <4>1. Power[Width] \in Nat
        BY Powers, ServiceAssumption
      <4> QED
        BY <3>5, <4>1
    <3>7. FenceFromToken(token[c]) = i
      BY <3>2, <3>6, FencesReadBack
    <3> QED
      BY <3>1, <3>2, <3>7 DEF FenceInv
  <2>2. CASE ~ Write(c)
    <3>1. wire' = wire
      BY <2>2 DEF ClientStep, Enter, Rearm, OpenFails, Open, Granted, NotGranted, Exit, Exited,
                  Lose, resource
    <3> QED
      BY <3>1 DEF FenceInv
  <2> QED
    BY <2>1, <2>2
<1> QED
  BY <1>1, <1>3, <1>4, <1>5 DEF FenceInv

(* Nothing else mints a token or writes.                                   *)
LEMMA NextFences ==
    ASSUME Agreed, CountersFit, IInv, FenceInv, [Next]_vars
    PROVE  FenceInv'
<1> DEFINE Same == /\ UNCHANGED <<number, token, counter, order>>
                   /\ \A m \in Conns : msg'[m] = msg[m] \/ msg'[m].kind # "granted"
<1>1. ASSUME Same, \A w \in wire' : w \in wire,
             UNCHANGED <<seen, last>> \/ \E w \in wire : seen' = w.fence /\ last' = w.from
      PROVE  FenceInv'
  <2>1. \A c \in Clients :
          ValidateShardIndex(ShardIndex(c)) => counter'[PickServer(c)] = Len(order')
    BY <1>1 DEF FenceInv
  <2>2. /\ \A n \in Conns : msg'[n].kind = "granted" => GrantOf(order', msg'[n].token, n)
        /\ \A c \in Clients : token'[c] # None => GrantOf(order', token'[c], Mine(c)')
    BY <1>1 DEF FenceInv, Mine
  <2>3. /\ \A w \in wire' : w.fence \in DOMAIN order' /\ order'[w.fence] = w.from
        /\ (seen' = 0 /\ last' = None) \/ (seen' \in DOMAIN order' /\ order'[seen'] = last')
    BY <1>1 DEF FenceInv
  <2> QED
    BY <2>1, <2>2, <2>3 DEF FenceInv
<1>2. CASE UNCHANGED vars
  BY <1>1, <1>2 DEF vars, client, service, resource
<1>3. ASSUME NEW n \in Conns, \/ SrvQueue(n) \/ SrvTimeout(n) \/ SrvRelease(n) \/ SrvExpire(n)
                              \/ SrvDisconnect(n)
      PROVE  FenceInv'
  <2>1. Same /\ UNCHANGED resource
    BY <1>3 DEF SrvQueue, SrvTimeout, SrvRelease, SrvExpire, SrvDisconnect, Free, client,
                IInv, TypeOK, Plain, Quiet
  <2> QED
    BY <1>1, <2>1 DEF resource
<1>4. ASSUME NEW s \in Servers, Restart(s) PROVE FenceInv'
  <2>1. Same /\ UNCHANGED resource
    BY <1>4 DEF Restart, client, Plain, Quiet
  <2> QED
    BY <1>1, <2>1 DEF resource
<1>5. ASSUME NEW w \in wire, Arrive(w) PROVE FenceInv'
  <2>1. Same /\ wire' \subseteq wire
    BY <1>5 DEF Arrive, client, service
  <2>2. UNCHANGED <<seen, last>> \/ (seen' = w.fence /\ last' = w.from)
    BY <1>5 DEF Arrive
  <2> QED
    BY <1>1, <2>1, <2>2
<1> QED
  BY <1>2, <1>3, <1>4, <1>5, ClientFences, GrantFences DEF Next

(* No write is on its way, and none has been observed, before the first    *)
(* grant.                                                                  *)
LEMMA InitFences == Init => FenceInv
<1> SUFFICES ASSUME Init PROVE FenceInv
  OBVIOUS
<1>1. \A n \in Conns : msg[n].kind = "quiet"
  BY DEF Init, Quiet, Plain
<1>2. \A c \in Clients : ValidateShardIndex(ShardIndex(c)) => counter[PickServer(c)] = 0
  BY PickedServerExists DEF Init
<1> QED
  BY <1>1, <1>2 DEF Init, FenceInv

(* A write that the resource lets pass was made under the grant of the     *)
(* last one or under a later grant.                                        *)
LEMMA FencesOrderWrites ==
    ASSUME IInv, FenceInv, [Next]_vars, last' # last, last # None
    PROVE  \E i, j \in DOMAIN order : i < j /\ order[i] = last /\ order[j] = last'
<1>1. ASSUME ~ \E w \in wire : Arrive(w) PROVE last' = last
  BY <1>1 DEF Next, vars, ClientStep, Enter, Rearm, OpenFails, Open, Granted, NotGranted, Exit,
              Exited, Lose, Write, SrvQueue, SrvTimeout, SrvRelease, SrvExpire, SrvDisconnect,
              SrvGrant, Restart, Free, resource
<1>2. PICK w \in wire : Arrive(w)
  BY <1>1
<1>3. last' = w.from /\ w.fence >= seen
  BY <1>2 DEF Arrive
<1>4. seen \in DOMAIN order /\ order[seen] = last /\ w.fence \in DOMAIN order /\ order[w.fence] = w.from
  BY DEF FenceInv
<1>5. seen # w.fence
  BY <1>3, <1>4
<1> QED
  BY <1>3, <1>4, <1>5 DEF IInv, TypeOK

(* While the clients agree on the shard of the key and no counter has run  *)
(* out of its 64 bits, no write under an earlier grant passes the resource *)
(* after one under a later grant.                                          *)
THEOREM StaleWritesStop ==
    Agreed => (Spec /\ []CountersFit => NoStaleWrite)
<1> SUFFICES ASSUME Agreed PROVE Spec /\ []CountersFit => NoStaleWrite
  OBVIOUS
<1> DEFINE Accepts == last' # last /\ last # None =>
                        \E i, j \in DOMAIN order : i < j /\ order[i] = last /\ order[j] = last'
<1>1. Init => FenceInv
  BY InitFences
<1>2. CountersFit /\ IInv /\ FenceInv /\ [Next]_vars => FenceInv'
  BY NextFences
<1>3. IInv /\ FenceInv /\ [Next]_vars => [Accepts]_vars
  BY FencesOrderWrites
<1> QED
  BY <1>1, <1>2, <1>3, Invariance, PTL DEF Spec, NoStaleWrite

-----------------------------------------------------------------------------
(* Each client has a LockHandle.                                           *)

(* What LockHandle sees of a client.                                       *)
Has(c) == IF token[c] # None THEN "held" ELSE IF conn[c] # None THEN "connected" ELSE "free"

Fresh(c) == at[c] \in {"open", "await"}

(* A step that changes nothing LockHandle sees is no step of it.           *)
LEMMA Unseen ==
    ASSUME NEW c \in Clients, UNCHANGED <<op[c], number[c], at[c], conn[c], token[c]>>
    PROVE  UNCHANGED Handle(c)!hvars
  BY DEF Handle!hvars

(* A client's own step is one of its LockHandle, or none.                  *)
LEMMA ClientRefines ==
    ASSUME IInv, NEW c \in Clients, ClientStep(c)
    PROVE  [Handle(c)!HNext]_(Handle(c)!hvars)
<1>0. AClient(c) /\ (number[c] > 0 => Mine(c) \in Conns /\ Mine(c) # None)
  BY MineIsConn DEF IInv, ClientInv
<1> USE DEF IInv, TypeOK
<1>1. ASSUME Enter(c) \/ Exit(c) PROVE Handle(c)!Begin
  <2>1. /\ op[c] = "none" /\ op'[c] \in {"acquire", "release"} /\ number'[c] = number[c]
        /\ Has(c)' = Has(c)
    BY <1>0, <1>1 DEF Enter, Exit, Has, AClient
  <2>2. ~ Fresh(c) /\ ~ Fresh(c)'
    BY <1>1 DEF Enter, Exit, Fresh
  <2>3. Fresh(c)' = Fresh(c)
    BY <2>2 DEF Fresh
  <2> QED
    BY <2>1, <2>3 DEF Handle!Begin, Handle!Calls, Handle!Asking, Has, Fresh
<1>2. ASSUME Rearm(c) PROVE Handle(c)!BeginAttempt
  <2>1. /\ op[c] = "acquire" /\ op'[c] = op[c] /\ number'[c] = number[c] + 1
        /\ Has(c) = "free" /\ Has(c)' = Has(c)
    BY <1>0, <1>2 DEF Rearm, Has, AClient
  <2>2. ~ Fresh(c) /\ Fresh(c)'
    BY <1>2 DEF Rearm, Fresh
  <2>3. Fresh(c)' = TRUE
    BY <2>2 DEF Fresh
  <2> QED
    BY <2>1, <2>2, <2>3 DEF Handle!BeginAttempt, Handle!Asking, Has, Fresh
<1>3. ASSUME Open(c) PROVE Handle(c)!Connect
  <2>1. /\ op'[c] = op[c] /\ number'[c] = number[c]
        /\ Has(c) = "free" /\ Has(c)' = "connected"
    BY <1>0, <1>3 DEF Open, Has, AClient
  <2>2. Fresh(c) /\ Fresh(c)'
    BY <1>3 DEF Open, Fresh
  <2>3. Fresh(c)' = Fresh(c)
    BY <2>2 DEF Fresh
  <2> QED
    BY <2>1, <2>2, <2>3 DEF Handle!Connect, Has, Fresh
<1>4. ASSUME OpenFails(c) \/ Granted(c) \/ NotGranted(c) \/ Exited(c) PROVE Handle(c)!Finish
  <2>1. op[c] \in {"acquire", "release"} /\ op'[c] = "none" /\ number'[c] = number[c]
    BY <1>0, <1>4 DEF OpenFails, Granted, NotGranted, Exited, Finish, AClient
  <2>2. ~ Fresh(c)'
    BY <1>4 DEF OpenFails, Granted, NotGranted, Exited, Finish, Fresh
  <2>3. Fresh(c)' = FALSE
    BY <2>2 DEF Fresh
  <2>4. \/ Has(c)' = "free"
        \/ Has(c)' = "held" /\ Has(c) = "connected" /\ op[c] = "acquire" /\ Fresh(c)
    <3>1. CASE Granted(c)
      <4>1. /\ at[c] = "await" /\ number[c] > 0 /\ conn[c] = Mine(c) /\ token[c] = None
            /\ msg[Mine(c)].kind = "granted" /\ op[c] = "acquire"
        BY <1>0, <3>1 DEF Granted, AClient
      <4>2. msg[Mine(c)].token # None
        BY <1>0, <4>1 DEF ServerInv
      <4>3. token'[c] = msg[Mine(c)].token
        BY <3>1, <4>1 DEF Granted
      <4> QED
        BY <1>0, <4>1, <4>2, <4>3 DEF Has, Fresh
    <3>2. CASE OpenFails(c)
      BY <1>0, <3>2 DEF OpenFails, Has, AClient
    <3>3. CASE NotGranted(c) \/ Exited(c)
      BY <3>3 DEF NotGranted, Exited, Hangup, Has
    <3> QED
      BY <1>4, <3>1, <3>2, <3>3
  <2>5. Handle(c)!Changes
    BY <2>4 DEF Handle!Changes, Handle!Asking, Has
  <2>6. Has(c)' \in Handle(c)!Leaves(op[c])
    BY <2>1, <2>4 DEF Handle!Leaves, Has, Fresh
  <2> QED
    BY <2>1, <2>3, <2>5, <2>6 DEF Handle!Finish, Has, Fresh
<1>5. ASSUME Lose(c) PROVE Handle(c)!Lose
  <2>1. /\ op'[c] = op[c] /\ number'[c] = number[c] /\ at'[c] = at[c]
        /\ Has(c) = "held" /\ Has(c)' = "free"
    BY <1>5 DEF Lose, Hangup, Has
  <2>2. Fresh(c)' = Fresh(c)
    BY <2>1 DEF Fresh
  <2> QED
    BY <2>1, <2>2 DEF Handle!Lose, Has, Fresh
<1>6. ASSUME Write(c) PROVE UNCHANGED Handle(c)!hvars
  BY <1>6, Unseen DEF Write, client
<1> QED
  BY <1>1, <1>2, <1>3, <1>4, <1>5, <1>6 DEF ClientStep, Handle!HNext

(* No step of one client is visible to another's LockHandle, and none of   *)
(* the servers or of the resource to any.                                  *)
LEMMA StepRefines ==
    ASSUME IInv, [Next]_vars, NEW d \in Clients
    PROVE  [Handle(d)!HNext]_(Handle(d)!hvars)
<1>1. ASSUME NEW c \in Clients, ClientStep(c) PROVE [Handle(d)!HNext]_(Handle(d)!hvars)
  <2>1. CASE c = d
    BY <1>1, <2>1, ClientRefines
  <2>2. CASE c # d
    BY <1>1, <2>2, Unseen
       DEF ClientStep, Enter, Rearm, OpenFails, Open, Granted, NotGranted, Exit, Exited, Lose,
           Write, Finish, Hangup, client, IInv, TypeOK
  <2> QED
    BY <2>1, <2>2
<1>2. CASE UNCHANGED client
  BY <1>2, Unseen DEF client
<1>3. ASSUME \/ \E n \in Conns : SrvQueue(n) \/ SrvTimeout(n) \/ SrvRelease(n) \/ SrvExpire(n)
                                 \/ SrvDisconnect(n)
             \/ \E s \in Servers : SrvGrant(s) \/ Restart(s)
             \/ \E w \in wire : Arrive(w)
      PROVE  UNCHANGED client
  BY <1>3 DEF SrvQueue, SrvTimeout, SrvRelease, SrvExpire, SrvDisconnect, Free, SrvGrant, Restart,
              Arrive
<1> QED
  BY <1>1, <1>2, <1>3 DEF Next, vars

(* A client begins with nothing.                                           *)
LEMMA InitRefines == Init => \A c \in Clients : Handle(c)!HInit
<1> SUFFICES ASSUME Init, NEW c \in Clients PROVE Handle(c)!HInit
  OBVIOUS
<1>1. op[c] = "none" /\ number[c] = 0 /\ Has(c) = "free" /\ at[c] = "idle"
  BY DEF Init, Has
<1>2. Fresh(c) = FALSE
  BY <1>1 DEF Fresh
<1> QED
  BY <1>1, <1>2 DEF Handle!HInit, Has, Fresh

(* Whatever the other clients and the servers do, each client's object     *)
(* gives its application what LockHandle promises.                         *)
THEOREM PromisesKept == Spec => ClientsKeepPromise
<1> DEFINE Inits == \A c \in Clients : Handle(c)!HInit
           Steps == \A c \in Clients : [Handle(c)!HNext]_(Handle(c)!hvars)
<1>1. Init => Inits
  BY InitRefines
<1>2. IInv /\ [Next]_vars => [Steps]_vars
  BY StepRefines
<1> QED
  BY <1>1, <1>2, Invariance, PTL DEF Spec, ClientsKeepPromise

=============================================================================
