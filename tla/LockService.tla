---------------------------- MODULE LockService ----------------------------
(***************************************************************************)
(* Several clients that guard one key with `with lock:', the servers they  *)
(* shard it over, and the resource that checks their fences.  A client is  *)
(* what LockHandle says of one object; here it is seen in its setting:     *)
(* the servers queue and grant, expire leases, notice lost connections and *)
(* restart; a write may reach the resource long after its lock is gone.    *)
(*                                                                         *)
(* A client's attempt number names its connection, as in SyncLock.  A      *)
(* grant token is 2 * Width digits (32 hex digits in the code): the        *)
(* server's grant counter, big-endian, then random digits.                 *)
(***************************************************************************)
EXTENDS Integers, FiniteSets, SequencesExt

CONSTANTS
    Clients,
    NumServers,   \* len(servers)
    KeyHash,      \* crc32 of the key
    Custom,       \* the clients that were given a sharding strategy
    CustomIndex,  \* what it returns for the key
    Limit,        \* 1 for a lock, more for a semaphore
    Base, Width,  \* digits of a token: 16 and 16 in the code
    Salts,        \* bound: the random halves of the tokens
    MaxAttempts   \* bound: how many attempts the clients begin in all

(* What a digit counts for at each place.                                  *)
Power[i \in 0 .. Width] == IF i = 0 THEN 1 ELSE Base * Power[i - 1]

ASSUME ServiceAssumption ==
    /\ NumServers \in Nat \ {0} /\ KeyHash \in Nat /\ CustomIndex \in Int
    /\ Custom \subseteq Clients
    /\ Limit \in Nat \ {0} /\ MaxAttempts \in Nat \ {0}
    /\ Base \in Nat \ {0, 1} /\ Width \in Nat \ {0}
    /\ Salts \subseteq [1 .. Width -> 0 .. Base - 1]
    /\ Power[Width] > MaxAttempts

Servers == 0 .. NumServers - 1
Conns == Clients \X (1 .. MaxAttempts)
None == <<>>
Plain(kind) == [kind |-> kind]
Quiet == Plain("quiet")

VARIABLES
    op,      \* each client's public call in progress
    at,      \* where it is in it
    body,    \* is it in the body of its `with' statement?
    number,  \* how many attempts it has begun
    conn,    \* its _conn
    token,   \* its token
    line,    \* each connection: "none", "up", or "down"
    server,  \* the server it was opened to
    msg,     \* the request or answer in flight on it
    queue,   \* each server's FIFO queue of connections
    holders, \* the connections that hold a slot there
    counter, \* its grant counter
    order,   \* all connections that were ever granted, in that order
    wire,    \* writes on their way to the resource
    seen,    \* the highest fence the resource has observed
    last     \* the connection whose grant its last accepted write was made under

client == <<op, at, body, number, conn, token>>
service == <<line, server, msg, queue, holders, counter, order>>
resource == <<wire, seen, last>>
vars == <<client, service, resource>>

Init ==
    /\ op = [c \in Clients |-> "none"] /\ at = [c \in Clients |-> "idle"]
    /\ body = [c \in Clients |-> FALSE]
    /\ number = [c \in Clients |-> 0]
    /\ conn = [c \in Clients |-> None] /\ token = [c \in Clients |-> None]
    /\ line = [n \in Conns |-> "none"]
    /\ server = [n \in Conns |-> 0]
    /\ msg = [n \in Conns |-> Quiet]
    /\ queue = [s \in Servers |-> <<>>]
    /\ holders = [s \in Servers |-> {}]
    /\ counter = [s \in Servers |-> 0]
    /\ order = <<>>
    /\ wire = {} /\ seen = 0 /\ last = None

-----------------------------------------------------------------------------
(* Tokens, fences and shards.                                              *)

Digits(n) == [i \in 1 .. Width |-> (n \div Power[Width - i]) % Base]

Number(digits) == FoldLeft(LAMBDA n, d : n * Base + d, 0, digits)

FenceFromSalt(t) == Number(SubSeq(t, Width + 1, 2 * Width))   \* mutant: int(token[16:], 16)

FenceFromToken(t) == Number(SubSeq(t, 1, Width))

StableHashShard == KeyHash % NumServers

ShardIndex(c) == IF c \in Custom THEN CustomIndex ELSE StableHashShard

Unvalidated(i) == TRUE   \* mutant: self.servers[strategy(...)], unchecked

ValidateShardIndex(i) == i \in Servers

(* servers[i]: Python counts a negative index from the end.                *)
PickServer(c) == ShardIndex(c) % NumServers

-----------------------------------------------------------------------------
(* A client.                                                               *)

Mine(c) == <<c, number[c]>>

Finish(c) ==
    /\ op' = [op EXCEPT ![c] = "none"]
    /\ at' = [at EXCEPT ![c] = "idle"]

HalfHangup(c) ==   \* mutant: `self._conn = None' is forgotten
    /\ token' = [token EXCEPT ![c] = None]
    /\ line' = [n \in Conns |-> IF n = conn[c] THEN "down" ELSE line[n]]
    /\ UNCHANGED conn

Hangup(c) ==
    /\ conn' = [conn EXCEPT ![c] = None]
    /\ token' = [token EXCEPT ![c] = None]
    /\ line' = [n \in Conns |-> IF n = conn[c] THEN "down" ELSE line[n]]

Begun ==
    FoldFunction(+, 0, number) + Cardinality({c \in Clients : at[c] = "rearm"})

(* __enter__: acquire() tears down what is left, then begins an attempt.   *)
Enter(c) ==
    /\ at[c] = "idle" /\ ~ body[c]
    /\ number[c] < MaxAttempts /\ Begun < MaxAttempts
    /\ op' = [op EXCEPT ![c] = "acquire"]
    /\ at' = [at EXCEPT ![c] = "rearm"]
    /\ UNCHANGED <<body, number, conn, token, service, resource>>

Rearm(c) ==
    /\ at[c] = "rearm"
    /\ number' = [number EXCEPT ![c] = @ + 1]
    /\ at' = [at EXCEPT ![c] = "open"]
    /\ UNCHANGED <<op, body, conn, token, service, resource>>

(* The strategy's index is refused, or the dial or the auth fails.         *)
OpenFails(c) ==
    /\ at[c] = "open"
    /\ Finish(c)
    /\ UNCHANGED <<body, number, conn, token, service, resource>>

Open(c) ==
    /\ at[c] = "open"
    /\ ValidateShardIndex(ShardIndex(c))
    /\ conn' = [conn EXCEPT ![c] = Mine(c)]
    /\ line' = [line EXCEPT ![Mine(c)] = "up"]
    /\ server' = [server EXCEPT ![Mine(c)] = PickServer(c)]
    /\ msg' = [msg EXCEPT ![Mine(c)] = Plain("acquire")]
    /\ at' = [at EXCEPT ![c] = "await"]
    /\ UNCHANGED <<op, body, number, token, queue, holders, counter, order, resource>>

Granted(c) ==
    /\ at[c] = "await"
    /\ msg[conn[c]].kind = "granted"
    /\ token' = [token EXCEPT ![c] = msg[conn[c]].token]
    /\ msg' = [msg EXCEPT ![conn[c]] = Quiet]
    /\ body' = [body EXCEPT ![c] = TRUE]
    /\ Finish(c)
    /\ UNCHANGED <<number, conn, line, server, queue, holders, counter, order, resource>>

(* A timeout, or a command that failed: acquire() closes what it opened,   *)
(* __enter__ raises, and the body does not run.                            *)
NotGranted(c) ==
    /\ at[c] = "await"
    /\ Hangup(c)
    /\ Finish(c)
    /\ UNCHANGED <<body, number, server, msg, queue, holders, counter, order, resource>>

(* __exit__: release() sends the token if there is one ...                 *)
Exit(c) ==
    /\ at[c] = "idle" /\ body[c]
    /\ body' = [body EXCEPT ![c] = FALSE]
    /\ op' = [op EXCEPT ![c] = "release"]
    /\ at' = [at EXCEPT ![c] = "relwait"]
    /\ msg' = [n \in Conns |->
                 IF n = conn[c] /\ line[n] = "up" THEN Plain("release") ELSE msg[n]]
    /\ UNCHANGED <<number, conn, token, line, server, queue, holders, counter, order, resource>>

(* ... and closes, whatever came of it.                                    *)
Exited(c) ==
    /\ at[c] = "relwait"
    /\ Hangup(c)
    /\ Finish(c)
    /\ UNCHANGED <<body, number, server, msg, queue, holders, counter, order, resource>>

(* A renewal failed: the grant is given up, and the body runs on.          *)
Lose(c) ==
    /\ token[c] # None
    /\ Hangup(c)
    /\ UNCHANGED <<op, at, body, number, server, msg, queue, holders, counter, order, resource>>

(* The body sends a write with fence_from_token(lock.token).               *)
Write(c) ==
    /\ body[c] /\ at[c] = "idle" /\ token[c] # None
    /\ wire' = wire \cup {[fence |-> FenceFromToken(token[c]), from |-> Mine(c)]}
    /\ UNCHANGED <<client, service, seen, last>>

-----------------------------------------------------------------------------
(* The servers and the resource (external).                                *)

SrvQueue(n) ==
    /\ msg[n].kind = "acquire"
    /\ msg' = [msg EXCEPT ![n] = Quiet]
    /\ queue' = [queue EXCEPT ![server[n]] = Append(@, n)]
    /\ UNCHANGED <<client, line, server, holders, counter, order, resource>>

SrvGrant(s) ==
    /\ queue[s] # <<>> /\ Cardinality(holders[s]) < Limit
    /\ counter' = [counter EXCEPT ![s] = @ + 1]
    /\ \E salt \in Salts :
          msg' = [msg EXCEPT ![Head(queue[s])] =
                    [kind |-> "granted", token |-> Digits(counter[s] + 1) \o salt]]
    /\ holders' = [holders EXCEPT ![s] = @ \cup {Head(queue[s])}]
    /\ queue' = [queue EXCEPT ![s] = Tail(@)]
    /\ order' = Append(order, Head(queue[s]))
    /\ UNCHANGED <<client, line, server, resource>>

(* A connection is in a queue once at most: it sends one acquire.          *)
Without(q, n) ==
    IF n \in ToSet(q) THEN RemoveAt(q, CHOOSE i \in DOMAIN q : q[i] = n) ELSE q

(* The slot of n is free again, and n waits no more.                       *)
Free(n) ==
    /\ holders' = [s \in Servers |-> holders[s] \ {n}]
    /\ queue' = [s \in Servers |-> Without(queue[s], n)]
    /\ UNCHANGED <<client, line, server, counter, order, resource>>

SrvTimeout(n) ==
    /\ \E s \in Servers : n \in ToSet(queue[s])
    /\ msg' = [msg EXCEPT ![n] = Plain("timeout")]
    /\ Free(n)

SrvRelease(n) ==
    /\ msg[n].kind = "release"
    /\ msg' = [msg EXCEPT ![n] = Plain("ok")]
    /\ Free(n)

SrvExpire(n) ==
    /\ \E s \in Servers : n \in holders[s]
    /\ UNCHANGED msg
    /\ Free(n)

SrvDisconnect(n) ==
    /\ line[n] = "down"
    /\ msg' = [msg EXCEPT ![n] = Quiet]
    /\ Free(n)

(* A server restarts: it forgets everything but its counter.               *)
Restart(s) ==
    /\ queue' = [queue EXCEPT ![s] = <<>>]
    /\ holders' = [holders EXCEPT ![s] = {}]
    /\ line' = [n \in Conns |-> IF line[n] = "up" /\ server[n] = s THEN "down" ELSE line[n]]
    /\ msg' = [n \in Conns |-> IF server[n] = s THEN Quiet ELSE msg[n]]
    /\ UNCHANGED <<client, server, counter, order, resource>>

(* "stores the highest fence it has seen for a key and rejects any write   *)
(* whose fence compares less".                                             *)
Arrive(w) ==
    /\ wire' = wire \ {w}
    /\ seen' = IF w.fence >= seen THEN w.fence ELSE seen
    /\ last' = IF w.fence >= seen THEN w.from ELSE last
    /\ UNCHANGED <<client, service>>

-----------------------------------------------------------------------------
ClientStep(c) ==
    \/ Enter(c) \/ Rearm(c) \/ OpenFails(c) \/ Open(c) \/ Granted(c) \/ NotGranted(c)
    \/ Exit(c) \/ Exited(c) \/ Lose(c) \/ Write(c)

Next ==
    \/ \E c \in Clients : ClientStep(c)
    \/ \E n \in Conns : SrvQueue(n) \/ SrvTimeout(n) \/ SrvRelease(n) \/ SrvExpire(n)
                        \/ SrvDisconnect(n)
    \/ \E s \in Servers : SrvGrant(s) \/ Restart(s)
    \/ \E w \in wire : Arrive(w)

Spec == Init /\ [][Next]_vars

-----------------------------------------------------------------------------
Granteds == ToSet(order)
Held == UNION {holders[s] : s \in Servers}

(* At most Limit clients are in the body of a `with' statement at a time,  *)
(* not counting one whose grant its server took away (lease expired, line  *)
(* lost, restart): however the key is sharded, whoever times out, and      *)
(* whatever an earlier attempt's connection still does at the server.      *)
BodiesExclude ==
    Cardinality({c \in Clients :
        body[c] /\ (Mine(c) \in Held \/ Mine(c) \notin Granteds)}) <= Limit

(* "rejects any write whose fence compares less": after a write under one  *)
(* grant of the key no write under an earlier grant is accepted, however   *)
(* late it arrives and whoever sent it (fence_from_token).                 *)
NoStaleWrite ==
    [][ last' # last /\ last # None =>
          \E i, j \in DOMAIN order : i < j /\ order[i] = last /\ order[j] = last' ]_vars

(* Every client keeps the promise of LockHandle, in the presence of the    *)
(* others.                                                                 *)
Handle(c) ==
    INSTANCE LockHandle WITH
        busy <- op[c], number <- number[c],
        status <- IF token[c] # None THEN "held"
                  ELSE IF conn[c] # None THEN "connected" ELSE "free",
        fresh <- at[c] \in {"open", "await"}

ClientsKeepPromise ==
    /\ \A c \in Clients : Handle(c)!HInit
    /\ [][ \A c \in Clients : [Handle(c)!HNext]_(Handle(c)!hvars) ]_vars
=============================================================================
