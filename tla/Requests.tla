------------------------------ MODULE Requests ------------------------------
(***************************************************************************)
(* The way of one request out: the validators and encoders of              *)
(* src/src/dflockd_client/_protocol.py, as acquire, release, renew,        *)
(* enqueue, wait, authenticate and stats of _sync.py (and _async.py) call  *)
(* them, and the server (external), which reads a frame of three lines     *)
(* back by position.                                                       *)
(*                                                                         *)
(* A text is a sequence of lines and a line a sequence of words, so that a *)
(* blank or a newline within an argument is what it is on the wire: a      *)
(* boundary.  A word is [s, n]: a numeral with its value, a string with    *)
(* its length, or a command's name.                                        *)
(***************************************************************************)
EXTENDS Integers, Sequences, FiniteSetsExt

CONSTANTS MaxSeconds,  \* MAX_PROTOCOL_SECONDS
          MaxLine,     \* MAX_LINE_BYTES
          MaxAuth      \* MAX_AUTH_TOKEN_BYTES

VARIABLES asked,   \* the call: an operation and its arguments
          phase,   \* "new", "refused" (the call raised), "sent" or "read"
          wire,    \* the lines under way
          got      \* the call the server read from its three lines, if any

vars == <<asked, phase, wire, got>>

None == <<>>
Some(v) == <<v>>

(* Python's True, or 1.5, is a number but not an integer.                  *)
Number(n) == [int |-> TRUE, n |-> n]
NotInt == [int |-> FALSE, n |-> 1]

Word(size) == [s |-> "str", n |-> size]
Numeral(n) == [s |-> "num", n |-> n]
Name(s) == [s |-> s, n |-> 0]
Text(words) == <<words>>

Prefixes == {"", "s", "x"}   \* the lock functions, the sem_* ones, neither
Numbers == {Number(n) : n \in {-1, 0, 1, MaxSeconds, MaxSeconds + 1}} \cup {NotInt}
Optional == {None} \cup {Some(v) : v \in Numbers}

(* Empty, with a blank, with a newline, short, as long as may be with a    *)
(* digit behind it, as long as may be alone, longer.                       *)
Texts(max) ==
    {Text(<<>>), Text(<<Word(1), Numeral(1)>>), <<<<Word(1)>>, <<Numeral(1)>>>>}
        \cup {Text(<<Word(n)>>) : n \in {1, max - 2, max, max + 1} \cap (Nat \ {0})}

-----------------------------------------------------------------------------
(* Validators: TRUE where the code goes on, FALSE where it raises.         *)

(* Each word counts with the blank, or the newline, behind it.             *)
Bytes(line) ==
    MapThenSumSet(LAMBDA i : 1 + (IF line[i].s = "str" THEN line[i].n ELSE 1), DOMAIN line)

ShorterLine(t, max) == Len(t) = 1 /\ Bytes(t[1]) <= max   \* mutant: off by one

OneLine(t, max) == Len(t) = 1 /\ Bytes(t[1]) <= max + 1

ValidWord(t) == OneLine(t, MaxLine) /\ Len(t[1]) = 1   \* validate_key, validate_token

ValidTimeout(v) == v.int /\ 0 <= v.n /\ v.n <= MaxSeconds
ValidLease(v) == \A i \in DOMAIN v : v[i].int /\ 1 <= v[i].n /\ v[i].n <= MaxSeconds

ValidPrefix(p) == p \in {"", "s"}
PrefixOnly(p, limit) ==                                \* mutant: a lock takes a limit
    \/ p = ""
    \/ p = "s" /\ limit # None /\ limit[1].int /\ limit[1].n > 0

ValidPrefixLimit(p, limit) ==
    \/ p = "" /\ limit = None
    \/ p = "s" /\ limit # None /\ limit[1].int /\ limit[1].n > 0

-----------------------------------------------------------------------------
(* Encoders: str() of the arguments, joined with blanks.                   *)
Str(v) == IF v.int THEN Numeral(v.n) ELSE Word(4)
AppendOptional(line, v) == line \o [i \in DOMAIN v |-> Str(v[i])]
WithOptional(t, v) ==   \* f"{token} {lease_ttl_s}"
    [t EXCEPT ![Len(t)] = AppendOptional(t[Len(t)], v)]

Arg(c) ==
    CASE c.op = "l" -> Text(AppendOptional(AppendOptional(<<Str(c.timeout)>>, c.limit), c.lease))
      [] c.op = "e" -> Text(AppendOptional(AppendOptional(<<>>, c.limit), c.lease))
      [] c.op = "w" -> Text(<<Str(c.timeout)>>)
      [] c.op = "n" -> WithOptional(c.token, c.lease)
      [] c.op \in {"r", "auth"} -> c.token
      [] c.op = "stats" -> Text(<<Name("_")>>)

Frame(c) == Text(<<Name(c.prefix \o c.op)>>) \o c.key \o Arg(c)

(* encode_lines() looks for newlines once more.                            *)
EncodesLines(c) == Len(c.key) = 1 /\ Len(Arg(c)) = 1

-----------------------------------------------------------------------------
(* The calls, each with the validation its function does.                  *)
Call(op, p, k, tok, t, n, l) ==
    [op |-> op, prefix |-> p, key |-> k, token |-> tok, timeout |-> t, limit |-> n, lease |-> l]

NoKey == Text(<<Name("_")>>)   \* what an operation does not take
NoToken == Text(<<>>)
NoTime == Number(0)

Accept(c, ok) ==
    /\ phase = "new"
    /\ asked' = c
    /\ IF ok /\ EncodesLines(c)
       THEN phase' = "sent" /\ wire' = Frame(c)
       ELSE phase' = "refused" /\ wire' = <<>>
    /\ UNCHANGED got

Acquire ==
    \E p \in Prefixes, k \in Texts(MaxLine), t \in Numbers, n, l \in Optional :
        LET c == Call("l", p, k, NoToken, t, n, l)
        IN Accept(c, /\ ValidPrefixLimit(p, n) /\ ValidWord(k)
                     /\ ValidTimeout(t) /\ ValidLease(l) /\ OneLine(Arg(c), MaxLine))

Release ==
    \E p \in Prefixes, k, tok \in Texts(MaxLine) :
        Accept(Call("r", p, k, tok, NoTime, None, None),
               ValidPrefix(p) /\ ValidWord(k) /\ ValidWord(tok))

Renew ==
    \E p \in Prefixes, k, tok \in Texts(MaxLine), l \in Optional :
        LET c == Call("n", p, k, tok, NoTime, None, l)
        IN Accept(c, /\ ValidPrefix(p) /\ ValidWord(k)
                     /\ ValidWord(tok) /\ ValidLease(l) /\ OneLine(Arg(c), MaxLine))

Enqueue ==
    \E p \in Prefixes, k \in Texts(MaxLine), n, l \in Optional :
        LET c == Call("e", p, k, NoToken, NoTime, n, l)
        IN Accept(c, /\ ValidPrefixLimit(p, n) /\ ValidWord(k)
                     /\ ValidLease(l) /\ OneLine(Arg(c), MaxLine))

Wait ==
    \E p \in Prefixes, k \in Texts(MaxLine), t \in Numbers :
        LET c == Call("w", p, k, NoToken, t, None, None)
        IN Accept(c, /\ ValidPrefix(p) /\ ValidWord(k)
                     /\ ValidTimeout(t) /\ OneLine(Arg(c), MaxLine))

Authenticate ==
    \E tok \in Texts(MaxAuth) :
        Accept(Call("auth", "", NoKey, tok, NoTime, None, None), OneLine(tok, MaxAuth))

AskStats == Call("stats", "", NoKey, NoToken, NoTime, None, None)
Stats == Accept(AskStats, TRUE)

-----------------------------------------------------------------------------
(* The server (external): a command's name, a key, and the words of the    *)
(* third line by position; it takes numbers in range only.                 *)
Seconds(w, least) == w.s = "num" /\ least <= w.n /\ w.n <= MaxSeconds
Fits(line, max) == Bytes(line) <= max + 1

(* Words that end an `l' or an `e': a semaphore's limit, and a lease.      *)
Limits(p) == IF p = "s" THEN 1 ELSE 0
OptionalWords(p, words) ==
    /\ Len(words) \in {Limits(p), Limits(p) + 1}
    /\ p = "s" => words[1].s = "num" /\ words[1].n > 0
    /\ Len(words) > Limits(p) => Seconds(words[Len(words)], 1)
LimitWord(p, words) == IF p = "s" THEN Some(Number(words[1].n)) ELSE None
LeaseWord(p, words) ==
    IF Len(words) > Limits(p) THEN Some(Number(words[Len(words)].n)) ELSE None

ReadCall(c, key, arg) ==
    LET Read(tok, t, n, l) == Some(Call(c.op, c.prefix, Text(key), tok, t, n, l))
        rest == IF c.op = "l" THEN Tail(arg) ELSE arg
        timed == arg # <<>> /\ Seconds(arg[1], 0)
    IN IF c.op = "auth" THEN IF Fits(arg, MaxAuth) THEN Read(Text(arg), NoTime, None, None) ELSE None
       ELSE IF c.op = "stats" THEN Read(NoToken, NoTime, None, None)
       ELSE IF ~(Len(key) = 1 /\ Fits(key, MaxLine) /\ Fits(arg, MaxLine)) THEN None
       ELSE CASE c.op = "l" /\ timed /\ OptionalWords(c.prefix, rest) ->
                     Read(NoToken, Number(arg[1].n),
                          LimitWord(c.prefix, rest), LeaseWord(c.prefix, rest))
              [] c.op = "e" /\ OptionalWords(c.prefix, rest) ->
                     Read(NoToken, NoTime, LimitWord(c.prefix, rest), LeaseWord(c.prefix, rest))
              [] c.op = "w" /\ timed /\ Len(arg) = 1 ->
                     Read(NoToken, Number(arg[1].n), None, None)
              [] c.op \in {"r", "n"} /\ Len(arg) = 1 -> Read(Text(arg), NoTime, None, None)
              [] c.op = "n" /\ Len(arg) = 2 /\ Seconds(arg[2], 1) ->
                     Read(Text(<<arg[1]>>), NoTime, None, Some(Number(arg[2].n)))
              [] OTHER -> None

Ops == {"l", "r", "n", "e", "w", "auth", "stats"}
Commands == [op : Ops \ {"auth", "stats"}, prefix : {"", "s"}]
                \cup [op : {"auth", "stats"}, prefix : {""}]

ReadFrame(lines) ==
    LET known == {c \in Commands : Name(c.prefix \o c.op) = lines[1][1]}
    IN IF known = {} THEN None
       ELSE ReadCall(CHOOSE c \in known : TRUE, lines[2], lines[3])

ServerReads ==
    /\ phase = "sent"
    /\ phase' = "read"
    /\ got' = ReadFrame(wire)
    /\ wire' = SubSeq(wire, 4, Len(wire))
    /\ UNCHANGED asked

-----------------------------------------------------------------------------
Init == /\ asked = AskStats /\ phase = "new"
        /\ wire = <<>> /\ got = None

Over == phase \in {"refused", "read"} /\ UNCHANGED vars

Next ==
    \/ Acquire \/ Release \/ Renew \/ Enqueue \/ Wait \/ Authenticate \/ Stats
    \/ ServerReads \/ Over

Spec == Init /\ [][Next]_vars

-----------------------------------------------------------------------------
(* A request that is sent is read back as the call that was asked for,     *)
(* argument by argument, and takes up its three lines and no more: the     *)
(* optional words of `<timeout> [<limit>] [<lease>]' and `<token> [<lease>]'*)
(* are told apart by position only, so every validator of _protocol.py     *)
(* counts.                                                                 *)
ReadAsAsked == phase = "read" => got = Some(asked) /\ wire = <<>>

(* What the validators refuse is what would be misread: unvalidated, the   *)
(* server would take it for another call, for none, or read lines that are *)
(* not its own.                                                            *)
Misread(c) == Len(Frame(c)) # 3 \/ ReadFrame(Frame(c)) # Some(c)
RefusesOnlyMisread == phase = "refused" => Misread(asked)
=============================================================================
