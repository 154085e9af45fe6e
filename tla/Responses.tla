----------------------------- MODULE Responses -----------------------------
(***************************************************************************)
(* The way of one answer back: the decoders of                             *)
(* src/src/dflockd_client/_protocol.py applied to the line that            *)
(* SyncConn.command returned.  The line is the server's answer, or what is *)
(* left of it when the connection ended within it (_read_line takes an     *)
(* unfinished last line), or the answer to some other command, or any line *)
(* at all.                                                                 *)
(*                                                                         *)
(* A line is [lead, words, trail]: its words, and whether white space      *)
(* comes before the first and after the last.  A word is [s, n] as in      *)
(* Requests: a numeral with its value, or any other string.                *)
(***************************************************************************)
EXTENDS Integers, Sequences, SequencesExt

CONSTANTS MaxSeconds,   \* MAX_PROTOCOL_SECONDS
          MaxWords      \* bound: the words of a line out of nowhere

VARIABLES phase,    \* "new", "answered" or "decoded"
          meant,    \* what the server's answer says
          fate,     \* what became of it
          reader,   \* the command that decodes the line
          line,     \* what it decodes
          result    \* what it returns, or raises

vars == <<phase, meant, fate, reader, line, result>>

Ops == {"acquire", "wait", "enqueue", "renew", "release", "auth"}
Fates == {"intact", "cut", "misdelivered", "garbled"}

Name(s) == [s |-> s, n |-> 0]
Numeral(n) == [s |-> "num", n |-> n]
Line(words) == [lead |-> FALSE, words |-> words, trail |-> FALSE]
Token == Name("token")
Unknown == Name("?")

Nothing == [kind |-> "none", token |-> Unknown, seconds |-> 0]
Raised(class) == [Nothing EXCEPT !.kind = class]
Done == [Nothing EXCEPT !.kind = "done"]
Queued == [Nothing EXCEPT !.kind = "queued"]
Granted(tok, s) == [kind |-> "granted", token |-> tok, seconds |-> s]
Renewed(s) == [Nothing EXCEPT !.kind = "renewed", !.seconds = s]

-----------------------------------------------------------------------------
(* Decoders.                                                               *)

(* _STATUS_ERRORS, and DflockdError for the rest.                          *)
StatusErrors == [error_auth |-> "AuthError", error_max_locks |-> "MaxLocksError",
                 error_max_waiters |-> "MaxWaitersError",
                 error_limit_mismatch |-> "LimitMismatchError",
                 error_not_enqueued |-> "NotQueuedError",
                 error_already_enqueued |-> "AlreadyQueuedError",
                 error_lease_expired |-> "LeaseExpiredError",
                 error_draining |-> "DrainingError"]

Is(l, s) == l = Line(<<Name(s)>>)

StartsWith(l, s) == ~l.lead /\ l.words # <<>> /\ Head(l.words) = Name(s)

(* startswith("ok "): a blank after the word.                              *)
StartsWithBlank(l, s) == StartsWith(l, s) /\ (Len(l.words) > 1 \/ l.trail)

StatusError(l) ==
    LET known == {s \in DOMAIN StatusErrors : Is(l, s)}
    IN Raised(IF known = {} THEN "DflockdError" ELSE StatusErrors[CHOOSE s \in known : TRUE])

BadResponse == Raised("RuntimeError")

UnboundedField(w, least) == w.s = "num" /\ least <= w.n   \* mutant: no maximum

IntField(w, least) == w.s = "num" /\ least <= w.n /\ w.n <= MaxSeconds

(* split() and the number of its parts.                                    *)
HasSomeParts(l, n, s) ==   \* mutant: the number of parts is not looked at
    Len(l.words) >= 2 /\ Head(l.words) = Name(s)

HasParts(l, n, s) == Len(l.words) = n /\ Head(l.words) = Name(s)

LeaseOptional(l, s) ==   \* mutant: a default for a lease that is not there
    CASE HasParts(l, 2, s) -> Granted(l.words[2], MaxSeconds)
      [] HasParts(l, 3, s) /\ IntField(Last(l.words), 1) ->
            Granted(l.words[2], Last(l.words).n)
      [] OTHER -> BadResponse

TokenLease(l, s) ==
    IF HasParts(l, 3, s) /\ IntField(Last(l.words), 1)
    THEN Granted(l.words[2], Last(l.words).n) ELSE BadResponse

Remaining(l) ==
    IF HasParts(l, 2, "ok") /\ IntField(Last(l.words), 0)
    THEN Renewed(Last(l.words).n) ELSE BadResponse

GrantResponse(l) ==
    CASE Is(l, "timeout") -> Raised("DflockdTimeoutError")
      [] StartsWithBlank(l, "ok") -> TokenLease(l, "ok")
      [] OTHER -> StatusError(l)

EnqueueResponse(l) ==
    CASE Is(l, "queued") -> Queued
      [] StartsWithBlank(l, "acquired") -> TokenLease(l, "acquired")
      [] OTHER -> StatusError(l)

RenewResponse(l) ==
    IF StartsWith(l, "ok") THEN Remaining(l) ELSE StatusError(l)

AnyErrorIsAuth(l) == IF Is(l, "ok") THEN Done ELSE Raised("PermissionError")   \* mutant

ReleaseResponse(l) == IF Is(l, "ok") THEN Done ELSE StatusError(l)

AuthResponse(l) ==
    CASE Is(l, "ok") -> Done
      [] Is(l, "error_draining") -> Raised("DrainingError")
      [] OTHER -> Raised("PermissionError")

-----------------------------------------------------------------------------
(* The server (external): the answers to each command and what they say.   *)
Answer(m, words) == [means |-> m, line |-> Line(words)]

Errors == {Answer(Raised(StatusErrors[s]), <<Name(s)>>) : s \in DOMAIN StatusErrors}

Answers(op) ==
    CASE op \in {"acquire", "wait"} -> Errors
            \cup {Answer(Granted(Token, s), <<Name("ok"), Token, Numeral(s)>>) : s \in 1 .. MaxSeconds}
            \cup {Answer(Raised("DflockdTimeoutError"), <<Name("timeout")>>)}
      [] op = "enqueue" -> Errors
            \cup {Answer(Granted(Token, s), <<Name("acquired"), Token, Numeral(s)>>) : s \in 1 .. MaxSeconds}
            \cup {Answer(Queued, <<Name("queued")>>)}
      [] op = "renew" -> Errors
            \cup {Answer(Renewed(s), <<Name("ok"), Numeral(s)>>) : s \in 0 .. MaxSeconds}
      [] op = "release" -> Errors \cup {Answer(Done, <<Name("ok")>>)}
      [] op = "auth" -> {Answer(Done, <<Name("ok")>>),
                         Answer(Raised("PermissionError"), <<Name("error_auth")>>),
                         Answer(Raised("DrainingError"), <<Name("error_draining")>>)}

(* What is left of a numeral when one digit or more is missing: at most a  *)
(* tenth of it.                                                            *)
Stumps(n) ==
    LET left[m \in Nat] == IF m <= 9 THEN {} ELSE {m \div 10} \cup left[m \div 10]
    IN left[n] \cap 1 .. n \div 10

(* What a line can be cut down to, at the end of a word or within one.     *)
CutWord(w) == IF w.s = "num" THEN {Numeral(m) : m \in Stumps(w.n)} ELSE {Unknown}

Cuts(l) ==
    {l} \cup {[lead |-> FALSE, words |-> SubSeq(l.words, 1, k), trail |-> t] :
                  k \in 1 .. Len(l.words) - 1, t \in BOOLEAN}
        \cup UNION {{Line(Append(SubSeq(l.words, 1, k - 1), w)) : w \in CutWord(l.words[k])} :
                        k \in 1 .. Len(l.words)}

Words == {Name("ok"), Name("acquired"), Name("timeout"), Token,
          Numeral(-1), Numeral(0), Numeral(MaxSeconds), Numeral(MaxSeconds + 1)}
AnyLine == [lead : BOOLEAN, words : SeqOf(Words, MaxWords), trail : BOOLEAN]

Deliver(f, op, m, l) ==
    /\ phase' = "answered"
    /\ fate' = f /\ reader' = op /\ meant' = m /\ line' = l
    /\ UNCHANGED result

Intact ==
    /\ phase = "new"
    /\ \E op \in Ops : \E a \in Answers(op) : Deliver("intact", op, a.means, a.line)

Cut ==
    /\ phase = "new"
    /\ \E op \in Ops : \E a \in Answers(op) : \E l \in Cuts(a.line) :
          Deliver("cut", op, a.means, l)

Misdelivered ==
    /\ phase = "new"
    /\ \E op, other \in Ops : \E a \in Answers(op) :
          Deliver("misdelivered", other, a.means, a.line)

Garbled ==
    /\ phase = "new"
    /\ \E op \in Ops, l \in AnyLine : Deliver("garbled", op, Nothing, l)

-----------------------------------------------------------------------------
Decode(ops, r) ==
    /\ phase = "answered" /\ phase' = "decoded"
    /\ reader \in ops
    /\ result' = r
    /\ UNCHANGED <<meant, fate, reader, line>>

ParseGrantResponse == Decode({"acquire", "wait"}, GrantResponse(line))
ParseEnqueueResponse == Decode({"enqueue"}, EnqueueResponse(line))
ParseRenewResponse == Decode({"renew"}, RenewResponse(line))
ParseReleaseResponse == Decode({"release"}, ReleaseResponse(line))
ParseAuthResponse == Decode({"auth"}, AuthResponse(line))

Init ==
    /\ phase = "new" /\ fate = "intact" /\ reader = "auth"
    /\ meant = Nothing /\ line = Line(<<>>) /\ result = Nothing

Over == phase = "decoded" /\ UNCHANGED vars

Next ==
    \/ Intact \/ Cut \/ Misdelivered \/ Garbled
    \/ ParseGrantResponse \/ ParseEnqueueResponse \/ ParseRenewResponse
    \/ ParseReleaseResponse \/ ParseAuthResponse
    \/ Over

Spec == Init /\ [][Next]_vars

-----------------------------------------------------------------------------
(* The server's answer, when it arrives whole, means to the caller what    *)
(* the server meant: the same token and lease, or the exception the        *)
(* status stands for (`error_draining' survives authentication).           *)
DecodesWhatWasSent == phase = "decoded" /\ fate = "intact" => result = meant

(* However the line was cut, the client does not believe it has more than  *)
(* the server gave: a grant only where there was one, of that token and    *)
(* for no longer, and no success where there was none (_read_line accepts  *)
(* a line without its newline).                                            *)
Successes == {"granted", "queued", "renewed", "done"}

CutNeverOverstates ==
    phase = "decoded" /\ fate = "cut" /\ result.kind \in Successes =>
        /\ result.kind = meant.kind
        /\ result.token = meant.token
        /\ result.seconds <= meant.seconds

(* An answer that reaches the wrong command is taken for a success only if *)
(* that command could have got the very same answer: a late `ok <left>' of *)
(* a renewal is no release and no grant.                                   *)
NoConfusion ==
    phase = "decoded" /\ fate = "misdelivered" /\ result.kind \in Successes =>
        \E a \in Answers(reader) : a.line = line /\ result = a.means

(* No line whatever becomes a lease that the renew loop cannot use: a      *)
(* grant holds for 1 .. MAX_PROTOCOL_SECONDS seconds, and a renewal says   *)
(* 0 .. MAX_PROTOCOL_SECONDS (_parse_int_field).                           *)
LeaseInRange ==
    phase = "decoded" /\ fate = "garbled" =>
        /\ result.kind = "granted" => result.seconds \in 1 .. MaxSeconds
        /\ result.kind = "renewed" => result.seconds \in 0 .. MaxSeconds
=============================================================================
