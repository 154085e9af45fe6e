--------------------------- MODULE ProtocolProofs ---------------------------
(***************************************************************************)
(* The two directions of the protocol, whatever the limits are.            *)
(*                                                                         *)
(* The way back of an answer, for every MAX_PROTOCOL_SECONDS and however   *)
(* long a line out of nowhere may be: what the decoders of _protocol.py    *)
(* make of whole, cut, misdelivered and arbitrary lines.  Then the way of  *)
(* a request out, for every MAX_LINE_BYTES and MAX_AUTH_TOKEN_BYTES too.   *)
(***************************************************************************)
EXTENDS MCProtocol, Sequences, SequenceTheorems, TLAPS

-----------------------------------------------------------------------------
(* What a command's decoder makes of a line.                               *)
Decoded(op, l) ==
    CASE op \in {"acquire", "wait"} -> R!GrantResponse(l)
      [] op = "enqueue" -> R!EnqueueResponse(l)
      [] op = "renew" -> R!RenewResponse(l)
      [] op = "release" -> R!ReleaseResponse(l)
      [] op = "auth" -> R!AuthResponse(l)

(* What the decoders raise.                                                *)
Failures == {"AuthError", "MaxLocksError", "MaxWaitersError", "LimitMismatchError",
             "NotQueuedError", "AlreadyQueuedError", "LeaseExpiredError",
             "DrainingError", "DflockdError", "RuntimeError", "PermissionError",
             "DflockdTimeoutError"}

(* The words of _STATUS_ERRORS.                                            *)
Statuses == {"error_auth", "error_max_locks", "error_max_waiters",
             "error_limit_mismatch", "error_not_enqueued", "error_already_enqueued",
             "error_lease_expired", "error_draining"}

(* The statuses are the words _STATUS_ERRORS has.                          *)
LEMMA StatusesAreKnown == DOMAIN R!StatusErrors = Statuses
  BY DEF R!StatusErrors, Statuses

(* Each status raises an exception of its own.                             *)
LEMMA EachStatusFails ==
    ASSUME NEW s \in Statuses
    PROVE  R!StatusErrors[s] \in Failures \ {"DflockdError"}
  BY DEF R!StatusErrors, Statuses, Failures

(* status_error() has an exception for every line.                         *)
LEMMA StatusErrorFails ==
    ASSUME NEW l
    PROVE  R!StatusError(l).kind \in Failures
<1> DEFINE known == {s \in Statuses : R!Is(l, s)}
<1>1. CASE known = {}
  BY <1>1, StatusesAreKnown DEF R!StatusError, R!Raised, R!Nothing, Failures
<1>2. CASE known # {}
  <2>1. (CHOOSE s \in known : TRUE) \in Statuses
    BY <1>2
  <2> QED
    BY <1>2, <2>1, StatusesAreKnown, EachStatusFails
       DEF R!StatusError, R!Raised, R!Nothing
<1> QED
  BY <1>1, <1>2

(* It raises the exception of the status, when there is one.               *)
LEMMA StatusErrorSays ==
    ASSUME NEW s \in Statuses
    PROVE  R!StatusError(R!Line(<<R!Name(s)>>)) = R!Raised(R!StatusErrors[s])
<1> DEFINE known == {t \in Statuses : R!Is(R!Line(<<R!Name(s)>>), t)}
<1>1. known = {s}
  BY DEF R!Is, R!Line, R!Name
<1>2. (CHOOSE t \in known : TRUE) = s
  BY <1>1
<1> QED
  BY <1>1, <1>2, StatusesAreKnown DEF R!StatusError

-----------------------------------------------------------------------------
(* What each decoder makes of each form of line the server has.            *)
Status(s) == R!Line(<<R!Name(s)>>)
Left(n) == R!Line(<<R!Name("ok"), R!Numeral(n)>>)
Grant(s, n) == R!Line(<<R!Name(s), R!Token, R!Numeral(n)>>)
Grants(op) == IF op = "enqueue" THEN "acquired" ELSE "ok"

(* An exception is no success.                                             *)
LEMMA FailuresAreNoSuccess == Failures \cap R!Successes = {}
  BY DEF Failures, R!Successes

(* A line of one word is a success only for the commands that have one.    *)
LEMMA StatusDecoded ==
    ASSUME NEW op \in R!Ops, NEW s
    PROVE  \/ Decoded(op, Status(s)).kind \in Failures
           \/ s = "ok" /\ op \in {"release", "auth"} /\ Decoded(op, Status(s)) = R!Done
           \/ s = "queued" /\ op = "enqueue" /\ Decoded(op, Status(s)) = R!Queued
<1> DEFINE l == Status(s)
<1>1. l.words = <<R!Name(s)>> /\ ~ l.lead /\ ~ l.trail
  BY DEF Status, R!Line
<1>2. Len(l.words) = 1 /\ Head(l.words) = R!Name(s)
  BY <1>1
<1>3. ASSUME NEW w PROVE ~ R!StartsWithBlank(l, w)
  BY <1>1, <1>2 DEF R!StartsWithBlank
<1>4. R!Remaining(l).kind = "RuntimeError"
  BY <1>2 DEF R!Remaining, R!HasParts, R!BadResponse, R!Raised, R!Nothing
<1>5. ASSUME NEW w PROVE R!Is(l, w) => s = w
  BY DEF R!Is, R!Line, R!Name, Status
<1> HIDE DEF l
<1>6. CASE op \in {"acquire", "wait"}
  BY <1>3, <1>6, StatusErrorFails
     DEF Decoded, R!GrantResponse, Failures, R!Raised, R!Nothing, l
<1>7. CASE op = "enqueue"
  BY <1>3, <1>5, <1>7, StatusErrorFails DEF Decoded, R!EnqueueResponse, l
<1>8. CASE op = "renew"
  BY <1>4, <1>8, StatusErrorFails DEF Decoded, R!RenewResponse, Failures, l
<1>9. CASE op = "release"
  BY <1>5, <1>9, StatusErrorFails DEF Decoded, R!ReleaseResponse, l
<1>10. CASE op = "auth"
  BY <1>5, <1>10 DEF Decoded, R!AuthResponse, Failures, R!Raised, R!Nothing, l
<1> QED
  BY <1>6, <1>7, <1>8, <1>9, <1>10 DEF R!Ops

(* `ok <seconds>' is a success only for renew.                             *)
LEMMA LeftDecoded ==
    ASSUME NEW op \in R!Ops, NEW n \in Nat
    PROVE  \/ Decoded(op, Left(n)).kind \in Failures
           \/ op = "renew" /\ n <= MaxSeconds /\ Decoded(op, Left(n)) = R!Renewed(n)
<1> DEFINE l == Left(n)
<1>1. /\ l.words = <<R!Name("ok"), R!Numeral(n)>> /\ ~ l.lead /\ ~ l.trail
      /\ Len(l.words) = 2 /\ Head(l.words) = R!Name("ok") /\ R!Last(l.words) = R!Numeral(n)
  BY DEF Left, R!Line, R!Last
<1>2. ASSUME NEW w PROVE ~ R!Is(l, w)
  BY <1>1 DEF R!Is, R!Line
<1>3. \A w : R!StartsWith(l, w) => w = "ok"
  BY <1>1 DEF R!StartsWith, R!Name
<1>4. ASSUME NEW w PROVE R!TokenLease(l, w).kind = "RuntimeError"
  BY <1>1 DEF R!TokenLease, R!HasParts, R!BadResponse, R!Raised, R!Nothing
<1>5. \/ R!Remaining(l) = R!Renewed(n) /\ n <= MaxSeconds
      \/ R!Remaining(l).kind = "RuntimeError"
  BY <1>1 DEF R!Remaining, R!HasParts, R!IntField, R!Numeral, R!BadResponse, R!Raised, R!Nothing
<1> HIDE DEF l
<1>6. CASE op \in {"acquire", "wait"}
  BY <1>2, <1>4, <1>6, StatusErrorFails
     DEF Decoded, R!GrantResponse, Failures, l
<1>7. CASE op = "enqueue"
  BY <1>2, <1>4, <1>7, StatusErrorFails DEF Decoded, R!EnqueueResponse, Failures, l
<1>8. CASE op = "renew"
  BY <1>5, <1>8, StatusErrorFails DEF Decoded, R!RenewResponse, Failures, l
<1>9. CASE op = "release"
  BY <1>2, <1>9, StatusErrorFails DEF Decoded, R!ReleaseResponse, l
<1>10. CASE op = "auth"
  BY <1>2, <1>10 DEF Decoded, R!AuthResponse, Failures, R!Raised, R!Nothing, l
<1> QED
  BY <1>6, <1>7, <1>8, <1>9, <1>10 DEF R!Ops

(* `ok <token> <seconds>' and `acquired <token> <seconds>' are grants only *)
(* for the commands that ask for one so.                                   *)
LEMMA GrantDecoded ==
    ASSUME NEW op \in R!Ops, NEW s \in {"ok", "acquired"}, NEW n \in Nat
    PROVE  \/ Decoded(op, Grant(s, n)).kind \in Failures
           \/ /\ op \in {"acquire", "wait", "enqueue"} /\ s = Grants(op)
              /\ n \in 1 .. MaxSeconds /\ Decoded(op, Grant(s, n)) = R!Granted(R!Token, n)
<1> DEFINE l == Grant(s, n)
<1>1. /\ l.words = <<R!Name(s), R!Token, R!Numeral(n)>> /\ ~ l.lead /\ ~ l.trail
      /\ Len(l.words) = 3 /\ Head(l.words) = R!Name(s) /\ R!Last(l.words) = R!Numeral(n)
      /\ l.words[2] = R!Token
  BY DEF Grant, R!Line, R!Last
<1>2. ASSUME NEW w PROVE ~ R!Is(l, w)
  BY <1>1 DEF R!Is, R!Line
<1>3. \A w : R!StartsWithBlank(l, w) => w = s
  BY <1>1 DEF R!StartsWithBlank, R!StartsWith, R!Name
<1>4. R!Remaining(l).kind = "RuntimeError"
  BY <1>1 DEF R!Remaining, R!HasParts, R!BadResponse, R!Raised, R!Nothing
<1>5. \/ R!TokenLease(l, s) = R!Granted(R!Token, n) /\ n \in 1 .. MaxSeconds
      \/ R!TokenLease(l, s).kind = "RuntimeError"
  BY <1>1, BoundsAssumption
     DEF R!TokenLease, R!HasParts, R!IntField, R!Numeral, R!BadResponse, R!Raised, R!Nothing
<1> HIDE DEF l
<1>6. CASE op \in {"acquire", "wait"}
  BY <1>2, <1>3, <1>5, <1>6, StatusErrorFails
     DEF Decoded, R!GrantResponse, Failures, Grants, l
<1>7. CASE op = "enqueue"
  BY <1>2, <1>3, <1>5, <1>7, StatusErrorFails
     DEF Decoded, R!EnqueueResponse, Failures, Grants, l
<1>8. CASE op = "renew"
  BY <1>4, <1>8, StatusErrorFails DEF Decoded, R!RenewResponse, Failures, l
<1>9. CASE op = "release"
  BY <1>2, <1>9, StatusErrorFails DEF Decoded, R!ReleaseResponse, l
<1>10. CASE op = "auth"
  BY <1>2, <1>10 DEF Decoded, R!AuthResponse, Failures, R!Raised, R!Nothing, l
<1> QED
  BY <1>6, <1>7, <1>8, <1>9, <1>10 DEF R!Ops

-----------------------------------------------------------------------------
(* The forms of the answers, and what each means.                          *)
(* Each answer is a status, or one of the successes of its command.        *)
LEMMA AnswersHaveForms ==
    ASSUME NEW op \in R!Ops, NEW a \in R!Answers(op)
    PROVE  \/ /\ op # "auth"
              /\ \E s \in Statuses : a.line = Status(s) /\ a.means = R!Raised(R!StatusErrors[s])
           \/ /\ op \in {"acquire", "wait", "enqueue"}
              /\ \E n \in 1 .. MaxSeconds :
                    a.line = Grant(Grants(op), n) /\ a.means = R!Granted(R!Token, n)
           \/ /\ op \in {"acquire", "wait"} /\ a.line = Status("timeout")
              /\ a.means = R!Raised("DflockdTimeoutError")
           \/ op = "enqueue" /\ a.line = Status("queued") /\ a.means = R!Queued
           \/ op = "renew" /\ \E n \in 0 .. MaxSeconds : a.line = Left(n) /\ a.means = R!Renewed(n)
           \/ op \in {"release", "auth"} /\ a.line = Status("ok") /\ a.means = R!Done
           \/ op = "auth" /\ a.line = Status("error_auth") /\ a.means = R!Raised("PermissionError")
           \/ op = "auth" /\ a.line = Status("error_draining") /\ a.means = R!Raised("DrainingError")
<1> USE DEF R!Answer
<1>1. ASSUME a \in R!Errors
      PROVE  \E s \in Statuses : a.line = Status(s) /\ a.means = R!Raised(R!StatusErrors[s])
  BY <1>1, StatusesAreKnown DEF R!Errors, Status
<1>2. CASE op \in {"acquire", "wait"}
  BY <1>1, <1>2 DEF R!Answers, Status, Grant, Grants
<1>3. CASE op = "enqueue"
  BY <1>1, <1>3 DEF R!Answers, Status, Grant, Grants
<1>4. CASE op = "renew"
  BY <1>1, <1>4 DEF R!Answers, Left
<1>5. CASE op = "release"
  BY <1>1, <1>5 DEF R!Answers, Status
<1>6. CASE op = "auth"
  BY <1>6 DEF R!Answers, Status
<1> QED
  BY <1>2, <1>3, <1>4, <1>5, <1>6 DEF R!Ops

(* An answer that arrives whole is decoded as it was meant.                *)
LEMMA WholeIsAsMeant ==
    ASSUME NEW op \in R!Ops, NEW a \in R!Answers(op)
    PROVE  Decoded(op, a.line) = a.means
<1>1. ASSUME NEW s, NEW w PROVE R!Is(Status(s), w) <=> s = w
  BY DEF R!Is, R!Line, R!Name, Status
<1>2. ASSUME NEW s, NEW w PROVE ~ R!StartsWithBlank(Status(s), w)
  BY DEF R!StartsWithBlank, R!StartsWith, Status, R!Line
<1>3. ASSUME NEW s \in Statuses, op # "auth", a.line = Status(s)
      PROVE  Decoded(op, a.line) = R!Raised(R!StatusErrors[s])
  <2>1. /\ ~ R!Is(a.line, "timeout") /\ ~ R!Is(a.line, "queued") /\ ~ R!Is(a.line, "ok")
        /\ ~ R!StartsWithBlank(a.line, "ok") /\ ~ R!StartsWithBlank(a.line, "acquired")
    BY <1>1, <1>2, <1>3 DEF Statuses
  <2>2. ~ R!StartsWith(a.line, "ok")
    BY <1>3 DEF R!StartsWith, R!Line, R!Name, Status, Statuses
  <2>3. R!StatusError(a.line) = R!Raised(R!StatusErrors[s])
    BY <1>3, StatusErrorSays DEF Status
  <2>4. CASE op \in {"acquire", "wait"}
    BY <2>1, <2>3, <2>4 DEF Decoded, R!GrantResponse
  <2>5. CASE op = "enqueue"
    BY <2>1, <2>3, <2>5 DEF Decoded, R!EnqueueResponse
  <2>6. CASE op = "renew"
    BY <2>2, <2>3, <2>6 DEF Decoded, R!RenewResponse
  <2>7. CASE op = "release"
    BY <2>1, <2>3, <2>7 DEF Decoded, R!ReleaseResponse
  <2> QED
    BY <1>3, <2>4, <2>5, <2>6, <2>7 DEF R!Ops
<1>4. ASSUME NEW n \in 1 .. MaxSeconds, op \in {"acquire", "wait", "enqueue"},
             a.line = Grant(Grants(op), n)
      PROVE  Decoded(op, a.line) = R!Granted(R!Token, n)
  <2> DEFINE l == Grant(Grants(op), n)
  <2>1. /\ l.words = <<R!Name(Grants(op)), R!Token, R!Numeral(n)>> /\ ~ l.lead
        /\ Len(l.words) = 3 /\ Head(l.words) = R!Name(Grants(op))
        /\ R!Last(l.words) = R!Numeral(n) /\ l.words[2] = R!Token
    BY DEF Grant, R!Line, R!Last
  <2>2. ASSUME NEW w PROVE ~ R!Is(l, w)
    BY <2>1 DEF R!Is, R!Line
  <2>3. R!StartsWithBlank(l, Grants(op))
    BY <2>1 DEF R!StartsWithBlank, R!StartsWith
  <2>4. R!TokenLease(l, Grants(op)) = R!Granted(R!Token, n)
    BY <2>1, BoundsAssumption DEF R!TokenLease, R!HasParts, R!IntField, R!Numeral
  <2> HIDE DEF l
  <2>5. Decoded(op, l) = R!Granted(R!Token, n)
    BY <1>4, <2>2, <2>3, <2>4 DEF Decoded, R!GrantResponse, R!EnqueueResponse, Grants
  <2> QED
    BY <1>4, <2>5 DEF l
<1>5. ASSUME NEW n \in 0 .. MaxSeconds, op = "renew", a.line = Left(n)
      PROVE  Decoded(op, a.line) = R!Renewed(n)
  <2>1. R!StartsWith(a.line, "ok")
    BY <1>5 DEF Left, R!Line, R!StartsWith
  <2>2. R!Remaining(a.line) = R!Renewed(n)
    BY <1>5, BoundsAssumption
       DEF Left, R!Line, R!Remaining, R!HasParts, R!IntField, R!Numeral, R!Last
  <2> QED
    BY <1>5, <2>1, <2>2 DEF Decoded, R!RenewResponse
<1>6. ASSUME op \in {"acquire", "wait"}, a.line = Status("timeout")
      PROVE  Decoded(op, a.line) = R!Raised("DflockdTimeoutError")
  <2>1. R!Is(a.line, "timeout") /\ ~ R!StartsWithBlank(a.line, "ok")
    BY <1>1, <1>2, <1>6
  <2> QED
    BY <1>6, <2>1 DEF Decoded, R!GrantResponse
<1>7. ASSUME op = "enqueue", a.line = Status("queued")
      PROVE  Decoded(op, a.line) = R!Queued
  <2>1. R!Is(a.line, "queued") /\ ~ R!StartsWithBlank(a.line, "acquired")
    BY <1>1, <1>2, <1>7
  <2> QED
    BY <1>7, <2>1 DEF Decoded, R!EnqueueResponse
<1>8. ASSUME op \in {"release", "auth"}, a.line = Status("ok")
      PROVE  Decoded(op, a.line) = R!Done
  BY <1>1, <1>8 DEF Decoded, R!ReleaseResponse, R!AuthResponse
<1>9. ASSUME op = "auth", NEW s \in {"error_auth", "error_draining"}, a.line = Status(s)
      PROVE  Decoded(op, a.line) =
                R!Raised(IF s = "error_draining" THEN "DrainingError" ELSE "PermissionError")
  BY <1>1, <1>9 DEF Decoded, R!AuthResponse
<1> QED
  BY <1>3, <1>4, <1>5, <1>6, <1>7, <1>8, <1>9, AnswersHaveForms

(* An answer to another command is a success only where it is one's own.   *)
LEMMA OthersAreNoSuccess ==
    ASSUME NEW op \in R!Ops, NEW other \in R!Ops, NEW a \in R!Answers(other),
           Decoded(op, a.line).kind \in R!Successes
    PROVE  \E b \in R!Answers(op) : b.line = a.line /\ Decoded(op, a.line) = b.means
<1>1. Decoded(op, a.line).kind \notin Failures
  BY FailuresAreNoSuccess
<1>2. CASE \E s : a.line = Status(s)
  <2> PICK s : a.line = Status(s)
    BY <1>2
  <2>1. CASE s = "ok" /\ op \in {"release", "auth"} /\ Decoded(op, Status(s)) = R!Done
    <3>1. R!Answer(R!Done, <<R!Name("ok")>>) \in R!Answers(op)
      BY <2>1 DEF R!Answers
    <3> QED
      BY <2>1, <3>1 DEF R!Answer, Status
  <2>2. CASE s = "queued" /\ op = "enqueue" /\ Decoded(op, Status(s)) = R!Queued
    <3>1. R!Answer(R!Queued, <<R!Name("queued")>>) \in R!Answers(op)
      BY <2>2 DEF R!Answers
    <3> QED
      BY <2>2, <3>1 DEF R!Answer, Status
  <2> QED
    BY <1>1, <2>1, <2>2, StatusDecoded
<1>3. CASE \E n \in 0 .. MaxSeconds : a.line = Left(n)
  <2> PICK n \in 0 .. MaxSeconds : a.line = Left(n)
    BY <1>3
  <2>1. op = "renew" /\ Decoded(op, Left(n)) = R!Renewed(n)
    BY <1>1, LeftDecoded
  <2>2. R!Answer(R!Renewed(n), <<R!Name("ok"), R!Numeral(n)>>) \in R!Answers(op)
    BY <2>1 DEF R!Answers
  <2> QED
    BY <2>1, <2>2 DEF R!Answer, Left
<1>4. CASE \E n \in 1 .. MaxSeconds : a.line = Grant(Grants(other), n)
  <2> PICK n \in 1 .. MaxSeconds : a.line = Grant(Grants(other), n)
    BY <1>4
  <2>1. /\ op \in {"acquire", "wait", "enqueue"} /\ Grants(other) = Grants(op)
        /\ Decoded(op, Grant(Grants(other), n)) = R!Granted(R!Token, n)
    BY <1>1, GrantDecoded DEF Grants
  <2>2. R!Answer(R!Granted(R!Token, n), <<R!Name(Grants(op)), R!Token, R!Numeral(n)>>)
          \in R!Answers(op)
    BY <2>1 DEF R!Answers, Grants
  <2> QED
    BY <2>1, <2>2 DEF R!Answer, Grant
<1> QED
  BY <1>2, <1>3, <1>4, AnswersHaveForms

-----------------------------------------------------------------------------
(* What is left of an answer that was cut, and what it is taken for.       *)

(* `ok' or `acquired' alone, with or without the blank behind it.          *)
Stump(s, t) == [lead |-> FALSE, words |-> <<R!Name(s)>>, trail |-> t]
(* The same with a token, whole or cut, and no lease.                      *)
Leaseless(s, w, t) == [lead |-> FALSE, words |-> <<R!Name(s), R!Name(w)>>, trail |-> t]

(* One word where more belong is a failure.                                *)
LEMMA StumpFails ==
    ASSUME NEW op \in {"acquire", "wait", "enqueue", "renew"},
           NEW s \in {"ok", "acquired"}, NEW t \in BOOLEAN
    PROVE  Decoded(op, Stump(s, t)).kind \in Failures
<1> DEFINE l == Stump(s, t)
<1>1. /\ l.words = <<R!Name(s)>> /\ Len(l.words) = 1
  BY DEF Stump
<1>2. ~ R!Is(l, "timeout") /\ ~ R!Is(l, "queued")
  BY DEF R!Is, R!Line, R!Name, Stump
<1>3. ASSUME NEW w PROVE R!TokenLease(l, w).kind = "RuntimeError"
  BY <1>1 DEF R!TokenLease, R!HasParts, R!BadResponse, R!Raised, R!Nothing
<1>4. R!Remaining(l).kind = "RuntimeError"
  BY <1>1 DEF R!Remaining, R!HasParts, R!BadResponse, R!Raised, R!Nothing
<1> HIDE DEF l
<1>5. CASE op \in {"acquire", "wait"}
  BY <1>2, <1>3, <1>5, StatusErrorFails DEF Decoded, R!GrantResponse, Failures, l
<1>6. CASE op = "enqueue"
  BY <1>2, <1>3, <1>6, StatusErrorFails DEF Decoded, R!EnqueueResponse, Failures, l
<1>7. CASE op = "renew"
  BY <1>4, <1>7, StatusErrorFails DEF Decoded, R!RenewResponse, Failures, l
<1> QED
  BY <1>5, <1>6, <1>7

(* A token without its lease is a failure, not a default.                  *)
LEMMA LeaselessFails ==
    ASSUME NEW op \in {"acquire", "wait", "enqueue", "renew"},
           NEW s \in {"ok", "acquired"}, NEW w \in {"token", "?"}, NEW t \in BOOLEAN
    PROVE  Decoded(op, Leaseless(s, w, t)).kind \in Failures
<1> DEFINE l == Leaseless(s, w, t)
<1>1. /\ l.words = <<R!Name(s), R!Name(w)>> /\ Len(l.words) = 2
      /\ R!Last(l.words) = R!Name(w)
  BY DEF Leaseless, R!Last
<1>2. ~ R!Is(l, "timeout") /\ ~ R!Is(l, "queued")
  BY <1>1 DEF R!Is, R!Line
<1>3. ASSUME NEW v PROVE R!TokenLease(l, v).kind = "RuntimeError"
  BY <1>1 DEF R!TokenLease, R!HasParts, R!BadResponse, R!Raised, R!Nothing
<1>4. R!Remaining(l).kind = "RuntimeError"
  BY <1>1 DEF R!Remaining, R!HasParts, R!IntField, R!Name, R!BadResponse, R!Raised, R!Nothing
<1> HIDE DEF l
<1>5. CASE op \in {"acquire", "wait"}
  BY <1>2, <1>3, <1>5, StatusErrorFails DEF Decoded, R!GrantResponse, Failures, l
<1>6. CASE op = "enqueue"
  BY <1>2, <1>3, <1>6, StatusErrorFails DEF Decoded, R!EnqueueResponse, Failures, l
<1>7. CASE op = "renew"
  BY <1>4, <1>7, StatusErrorFails DEF Decoded, R!RenewResponse, Failures, l
<1> QED
  BY <1>5, <1>6, <1>7

(* A cut line has fewer words, or a damaged last one.                      *)
LEMMA CutForms ==
    ASSUME NEW words, NEW l \in R!Cuts(R!Line(words))
    PROVE  \/ l = R!Line(words)
           \/ \E k \in 1 .. Len(words) - 1, t \in BOOLEAN :
                 l = [lead |-> FALSE, words |-> SubSeq(words, 1, k), trail |-> t]
           \/ \E k \in 1 .. Len(words) : \E w \in R!CutWord(words[k]) :
                 l = R!Line(Append(SubSeq(words, 1, k - 1), w))
<1> DEFINE whole == R!Line(words)
<1>1. whole.words = words
  BY DEF R!Line
<1> HIDE DEF whole
<1>2. l \in R!Cuts(whole)
  BY DEF whole
<1> QED
  BY <1>1, <1>2 DEF R!Cuts, whole

(* A sequence of one element.                                              *)
LEMMA Alone ==
    ASSUME NEW S, NEW s \in Seq(S), NEW a, Len(s) = 1, s[1] = a
    PROVE  s = <<a>>
<1>1. <<a>> \in Seq(S) /\ Len(<<a>>) = 1 /\ <<a>>[1] = a
  OBVIOUS
<1>2. \A i \in 1 .. Len(s) : s[i] = <<a>>[i]
  BY <1>1
<1> QED
  BY <1>1, <1>2, SeqEqual

(* The beginnings of two words, and of three.                              *)
LEMMA FirstOfTwo ==
    ASSUME NEW a, NEW b
    PROVE  SubSeq(<<a, b>>, 1, 0) = << >> /\ SubSeq(<<a, b>>, 1, 1) = <<a>>
<1> DEFINE S == {a, b}
<1>1. \A i \in 1 .. 1 : <<a, b>>[i] \in S
  OBVIOUS
<1>2. /\ SubSeq(<<a, b>>, 1, 1) \in Seq(S) /\ Len(SubSeq(<<a, b>>, 1, 1)) = 1
      /\ SubSeq(<<a, b>>, 1, 1)[1] = a
  BY <1>1, SubSeqProperties
<1> HIDE DEF S
<1>3. SubSeq(<<a, b>>, 1, 1) = <<a>>
  BY <1>2, Alone
<1>4. SubSeq(<<a, b>>, 1, 0) = << >>
  BY SubSeqEmpty
<1> QED
  BY <1>3, <1>4

LEMMA FirstOfThree ==
    ASSUME NEW a, NEW b, NEW c
    PROVE  /\ SubSeq(<<a, b, c>>, 1, 0) = << >>
           /\ SubSeq(<<a, b, c>>, 1, 1) = <<a>>
           /\ SubSeq(<<a, b, c>>, 1, 2) = <<a, b>>
<1> DEFINE S == {a, b}
<1>1. /\ \A i \in 1 .. 1 : <<a, b, c>>[i] \in S
      /\ \A i \in 1 .. 2 : <<a, b, c>>[i] \in S
  OBVIOUS
<1>2. /\ SubSeq(<<a, b, c>>, 1, 1) \in Seq(S) /\ Len(SubSeq(<<a, b, c>>, 1, 1)) = 1
      /\ SubSeq(<<a, b, c>>, 1, 1)[1] = a
  BY <1>1, SubSeqProperties
<1>3. /\ SubSeq(<<a, b, c>>, 1, 2) \in Seq(S) /\ Len(SubSeq(<<a, b, c>>, 1, 2)) = 2
      /\ SubSeq(<<a, b, c>>, 1, 2)[1] = a /\ SubSeq(<<a, b, c>>, 1, 2)[2] = b
  BY <1>1, SubSeqProperties
<1> HIDE DEF S
<1>4. SubSeq(<<a, b, c>>, 1, 1) = <<a>>
  BY <1>2, Alone
<1>5. SubSeq(<<a, b, c>>, 1, 2) = <<a, b>>
  <2>1. <<a, b>> \in Seq(S) /\ Len(<<a, b>>) = 2 /\ <<a, b>>[1] = a /\ <<a, b>>[2] = b
    BY DEF S
  <2>2. \A i \in 1 .. Len(SubSeq(<<a, b, c>>, 1, 2)) : SubSeq(<<a, b, c>>, 1, 2)[i] = <<a, b>>[i]
    BY <1>3, <2>1
  <2> QED
    BY <1>3, <2>1, <2>2, SeqEqual
<1>6. SubSeq(<<a, b, c>>, 1, 0) = << >>
  BY SubSeqEmpty
<1> QED
  BY <1>4, <1>5, <1>6

(* A word appended to up to two.                                           *)
LEMMA AppendToFew ==
    ASSUME NEW a, NEW b, NEW c
    PROVE  /\ Append(<< >>, a) = <<a>>
           /\ Append(<<a>>, b) = <<a, b>>
           /\ Append(<<a, b>>, c) = <<a, b, c>>
<1> DEFINE S == {a, b, c}
<1>1. << >> \in Seq(S) /\ <<a>> \in Seq(S) /\ <<a, b>> \in Seq(S)
  OBVIOUS
<1>2. Len(<<a>>) = 1 /\ Len(<<a, b>>) = 2
  OBVIOUS
<1>3. /\ Append(<<a>>, b) \in Seq(S) /\ Len(Append(<<a>>, b)) = 2
      /\ Append(<<a>>, b)[1] = a /\ Append(<<a>>, b)[2] = b
  BY <1>1, <1>2, AppendProperties
<1>4. /\ Append(<<a, b>>, c) \in Seq(S) /\ Len(Append(<<a, b>>, c)) = 3
      /\ Append(<<a, b>>, c)[1] = a /\ Append(<<a, b>>, c)[2] = b
      /\ Append(<<a, b>>, c)[3] = c
  BY <1>1, <1>2, AppendProperties
<1>5. Append(<< >>, a) = <<a>>
  OBVIOUS
<1> HIDE DEF S
<1>6. Append(<<a>>, b) = <<a, b>>
  <2>1. <<a, b>> \in Seq(S) /\ Len(<<a, b>>) = 2 /\ <<a, b>>[1] = a /\ <<a, b>>[2] = b
    BY DEF S
  <2>2. \A i \in 1 .. Len(Append(<<a>>, b)) : Append(<<a>>, b)[i] = <<a, b>>[i]
    BY <1>3, <2>1
  <2> QED
    BY <1>3, <2>1, <2>2, SeqEqual
<1>7. Append(<<a, b>>, c) = <<a, b, c>>
  <2>1. /\ <<a, b, c>> \in Seq(S) /\ Len(<<a, b, c>>) = 3
        /\ <<a, b, c>>[1] = a /\ <<a, b, c>>[2] = b /\ <<a, b, c>>[3] = c
    BY DEF S
  <2>2. \A i \in 1 .. Len(Append(<<a, b>>, c)) : Append(<<a, b>>, c)[i] = <<a, b, c>>[i]
    BY <1>4, <2>1
  <2> QED
    BY <1>4, <2>1, <2>2, SeqEqual
<1> QED
  BY <1>5, <1>6, <1>7

(* A word that is cut is none that a decoder knows.                        *)
LEMMA NamesAreCutToUnknown ==
    ASSUME NEW s, s # "num"
    PROVE  R!CutWord(R!Name(s)) = {R!Name("?")}
  BY DEF R!CutWord, R!Name, R!Unknown

(* A numeral that is cut, by however many digits, says less.               *)
LEMMA NumeralsAreCutToLess ==
    ASSUME NEW n \in Nat, NEW w \in R!CutWord(R!Numeral(n))
    PROVE  \E m \in 1 .. n : w = R!Numeral(m)
<1>1. PICK m \in R!Stumps(n) : w = R!Numeral(m)
  BY DEF R!CutWord, R!Numeral
<1>2. m \in 1 .. n \div 10
  BY DEF R!Stumps
<1>3. n \div 10 \in 0 .. n
  OBVIOUS
<1> QED
  BY <1>1, <1>2, <1>3

(* A line of one word is whole or unknown.                                 *)
LEMMA StatusCut ==
    ASSUME NEW s, s # "num", NEW l \in R!Cuts(Status(s))
    PROVE  l = Status(s) \/ l = Status("?")
<1> DEFINE words == <<R!Name(s)>>
<1>1. Len(words) = 1 /\ words[1] = R!Name(s) /\ SubSeq(words, 1, 0) = << >>
  BY SubSeqEmpty
<1>2. Append(<< >>, R!Name("?")) = <<R!Name("?")>>
  BY AppendToFew
<1> HIDE DEF words
<1>3. ASSUME NEW k \in 1 .. Len(words), NEW w \in R!CutWord(words[k]),
             l = R!Line(Append(SubSeq(words, 1, k - 1), w))
      PROVE  l = Status("?")
  <2>1. k = 1 /\ k - 1 = 0 /\ w = R!Name("?")
    BY <1>1, NamesAreCutToUnknown
  <2> QED
    BY <1>1, <1>2, <1>3, <2>1 DEF Status
<1>4. Status(s) = R!Line(words)
  BY DEF Status, words
<1>5. ~ \E k \in 1 .. Len(words) - 1 : TRUE
  BY <1>1
<1> QED
  BY <1>3, <1>4, <1>5, CutForms

(* An `ok' with a number of seconds.                                       *)
LEMMA LeftCut ==
    ASSUME NEW n \in Nat, NEW l \in R!Cuts(Left(n))
    PROVE  \/ \E m \in 0 .. n : l = Left(m)
           \/ \E t \in BOOLEAN : l = Stump("ok", t)
           \/ l = Status("?")
<1> DEFINE words == <<R!Name("ok"), R!Numeral(n)>>
<1>1. Len(words) = 2 /\ words[1] = R!Name("ok") /\ words[2] = R!Numeral(n)
  OBVIOUS
<1>2. SubSeq(words, 1, 0) = << >> /\ SubSeq(words, 1, 1) = <<R!Name("ok")>>
  BY FirstOfTwo
<1> HIDE DEF words
<1>3. ASSUME NEW k \in 1 .. Len(words) - 1, NEW t \in BOOLEAN,
             l = [lead |-> FALSE, words |-> SubSeq(words, 1, k), trail |-> t]
      PROVE  l = Stump("ok", t)
  <2>1. k = 1
    BY <1>1
  <2> QED
    BY <1>2, <1>3, <2>1 DEF Stump
<1>4. ASSUME NEW w \in R!CutWord(words[1]), l = R!Line(Append(SubSeq(words, 1, 0), w))
      PROVE  l = Status("?")
  <2>1. w = R!Name("?")
    BY <1>1, NamesAreCutToUnknown
  <2>2. Append(<< >>, w) = <<w>>
    BY AppendToFew
  <2> QED
    BY <1>2, <1>4, <2>1, <2>2 DEF Status
<1>5. ASSUME NEW w \in R!CutWord(words[2]), l = R!Line(Append(SubSeq(words, 1, 1), w))
      PROVE  \E m \in 0 .. n : l = Left(m)
  <2>1. PICK m \in 1 .. n : w = R!Numeral(m)
    BY <1>1, NumeralsAreCutToLess
  <2>2. Append(<<R!Name("ok")>>, w) = <<R!Name("ok"), w>>
    BY AppendToFew
  <2>3. l = Left(m)
    BY <1>2, <1>5, <2>1, <2>2 DEF Left
  <2>4. m \in 0 .. n
    OBVIOUS
  <2> QED
    BY <2>3, <2>4
<1>6. ASSUME NEW k \in 1 .. Len(words), NEW w \in R!CutWord(words[k]),
             l = R!Line(Append(SubSeq(words, 1, k - 1), w))
      PROVE  (\E m \in 0 .. n : l = Left(m)) \/ l = Status("?")
  <2>1. k = 1 \/ k = 2
    BY ONLY <1>1, k \in 1 .. Len(words)
  <2>2. (k = 1 => k - 1 = 0) /\ (k = 2 => k - 1 = 1)
    OBVIOUS
  <2> QED
    BY <1>4, <1>5, <1>6, <2>1, <2>2, Zenon
<1>7. Left(n) = R!Line(words)
  BY DEF Left, words
<1>8. n \in 0 .. n
  OBVIOUS
<1> QED
  BY <1>3, <1>6, <1>7, <1>8, CutForms

(* A word, a token and a number of seconds.                                *)
LEMMA GrantCut ==
    ASSUME NEW s \in {"ok", "acquired"}, NEW n \in Nat, NEW l \in R!Cuts(Grant(s, n))
    PROVE  \/ \E m \in 0 .. n : l = Grant(s, m)
           \/ \E t \in BOOLEAN : l = Stump(s, t)
           \/ \E w \in {"token", "?"}, t \in BOOLEAN : l = Leaseless(s, w, t)
           \/ l = Status("?")
<1> DEFINE words == <<R!Name(s), R!Name("token"), R!Numeral(n)>>
<1>1. /\ Len(words) = 3 /\ words[1] = R!Name(s) /\ words[2] = R!Name("token")
      /\ words[3] = R!Numeral(n)
  OBVIOUS
<1>2. /\ SubSeq(words, 1, 0) = << >> /\ SubSeq(words, 1, 1) = <<R!Name(s)>>
      /\ SubSeq(words, 1, 2) = <<R!Name(s), R!Name("token")>>
  BY FirstOfThree
<1> HIDE DEF words
<1>3. ASSUME NEW k \in 1 .. Len(words) - 1, NEW t \in BOOLEAN,
             l = [lead |-> FALSE, words |-> SubSeq(words, 1, k), trail |-> t]
      PROVE  l = Stump(s, t) \/ l = Leaseless(s, "token", t)
  <2>1. k = 1 \/ k = 2
    BY <1>1
  <2> QED
    BY <1>2, <1>3, <2>1 DEF Stump, Leaseless
<1>4. ASSUME NEW w \in R!CutWord(words[1]), l = R!Line(Append(SubSeq(words, 1, 0), w))
      PROVE  l = Status("?")
  <2>1. w = R!Name("?")
    BY <1>1, NamesAreCutToUnknown
  <2>2. Append(<< >>, w) = <<w>>
    BY AppendToFew
  <2> QED
    BY <1>2, <1>4, <2>1, <2>2 DEF Status
<1>5. ASSUME NEW w \in R!CutWord(words[2]), l = R!Line(Append(SubSeq(words, 1, 1), w))
      PROVE  l = Leaseless(s, "?", FALSE)
  <2>1. w = R!Name("?")
    BY <1>1, NamesAreCutToUnknown
  <2>2. Append(<<R!Name(s)>>, w) = <<R!Name(s), w>>
    BY AppendToFew
  <2> QED
    BY <1>2, <1>5, <2>1, <2>2 DEF Leaseless, R!Line
<1>6. ASSUME NEW w \in R!CutWord(words[3]), l = R!Line(Append(SubSeq(words, 1, 2), w))
      PROVE  \E m \in 0 .. n : l = Grant(s, m)
  <2>1. PICK m \in 1 .. n : w = R!Numeral(m)
    BY <1>1, NumeralsAreCutToLess
  <2>2. Append(<<R!Name(s), R!Name("token")>>, w) = <<R!Name(s), R!Name("token"), w>>
    BY AppendToFew
  <2>3. l = Grant(s, m)
    BY <1>2, <1>6, <2>1, <2>2 DEF Grant, R!Token
  <2>4. m \in 0 .. n
    OBVIOUS
  <2> QED
    BY <2>3, <2>4
<1>7. ASSUME NEW k \in 1 .. Len(words), NEW w \in R!CutWord(words[k]),
             l = R!Line(Append(SubSeq(words, 1, k - 1), w))
      PROVE  \/ \E m \in 0 .. n : l = Grant(s, m)
             \/ l = Leaseless(s, "?", FALSE)
             \/ l = Status("?")
  <2>1. k = 1 \/ k = 2 \/ k = 3
    BY ONLY <1>1, k \in 1 .. Len(words)
  <2>2. (k = 1 => k - 1 = 0) /\ (k = 2 => k - 1 = 1) /\ (k = 3 => k - 1 = 2)
    OBVIOUS
  <2> QED
    BY <1>4, <1>5, <1>6, <1>7, <2>1, <2>2, Zenon
<1>8. Grant(s, n) = R!Line(words)
  BY DEF Grant, words, R!Token
<1>9. n \in 0 .. n
  OBVIOUS
<1> QED
  BY <1>3, <1>7, <1>8, <1>9, CutForms

(* However an answer is cut, it is believed to say no more than it did.    *)
LEMMA CutSaysNoMore ==
    ASSUME NEW op \in R!Ops, NEW a \in R!Answers(op), NEW l \in R!Cuts(a.line),
           Decoded(op, l).kind \in R!Successes
    PROVE  /\ Decoded(op, l).kind = a.means.kind
           /\ Decoded(op, l).token = a.means.token
           /\ Decoded(op, l).seconds <= a.means.seconds
<1>1. Decoded(op, l).kind \notin Failures
  BY FailuresAreNoSuccess
<1>2. l # Status("?")
  BY <1>1, StatusDecoded
<1>3. CASE \E s : s # "num" /\ a.line = Status(s)
  <2>1. l = a.line
    BY <1>2, <1>3, StatusCut
  <2>2. a.means = Decoded(op, l)
    BY <2>1, WholeIsAsMeant
  <2>3. Decoded(op, l) \in {R!Done, R!Queued}
    BY <1>1, <1>3, <2>1, StatusDecoded
  <2>4. Decoded(op, l).seconds = 0
    BY <2>3 DEF R!Done, R!Queued, R!Nothing
  <2> QED
    BY <2>2, <2>4
<1>4. CASE op = "renew" /\ \E n \in 0 .. MaxSeconds : a.line = Left(n) /\ a.means = R!Renewed(n)
  <2> PICK n \in 0 .. MaxSeconds : a.line = Left(n) /\ a.means = R!Renewed(n)
    BY <1>4
  <2>1. n \in Nat
    BY BoundsAssumption
  <2>2. PICK m \in 0 .. n : l = Left(m)
    BY <1>1, <1>2, <1>4, <2>1, LeftCut, StumpFails
  <2>3. Decoded(op, l) = R!Renewed(m)
    BY <1>1, <2>1, <2>2, LeftDecoded
  <2> QED
    BY <2>1, <2>2, <2>3 DEF R!Renewed, R!Nothing
<1>5. CASE /\ op \in {"acquire", "wait", "enqueue"}
           /\ \E n \in 1 .. MaxSeconds :
                 a.line = Grant(Grants(op), n) /\ a.means = R!Granted(R!Token, n)
  <2> PICK n \in 1 .. MaxSeconds :
                 a.line = Grant(Grants(op), n) /\ a.means = R!Granted(R!Token, n)
    BY <1>5
  <2>1. n \in Nat /\ Grants(op) \in {"ok", "acquired"}
    BY BoundsAssumption DEF Grants
  <2>2. PICK m \in 0 .. n : l = Grant(Grants(op), m)
    BY <1>1, <1>2, <1>5, <2>1, GrantCut, StumpFails, LeaselessFails
  <2>3. Decoded(op, l) = R!Granted(R!Token, m)
    BY <1>1, <2>1, <2>2, GrantDecoded
  <2> QED
    BY <2>1, <2>2, <2>3 DEF R!Granted
<1> QED
  BY <1>3, <1>4, <1>5, AnswersHaveForms DEF Statuses

(* The numerals of any line at all are integers.                           *)
LEMMA WordsOfAnyLine ==
    ASSUME NEW l \in R!AnyLine
    PROVE  \A i \in 1 .. Len(l.words) : l.words[i].s = "num" => l.words[i].n \in Int
<1>1. PICK m \in 0 .. MaxWords : l.words \in [1 .. m -> R!Words]
  BY DEF R!AnyLine, R!SeqOf
<1>2. \A w \in R!Words : w.n \in Int
  BY BoundsAssumption DEF R!Words, R!Name, R!Numeral, R!Token
<1>3. Len(l.words) = m
  BY <1>1, BoundsAssumption
<1> QED
  BY <1>1, <1>2, <1>3

(* No line at all makes a lease out of range.                              *)
LEMMA AnyLeaseIsInRange ==
    ASSUME NEW op \in R!Ops, NEW l \in R!AnyLine
    PROVE  /\ Decoded(op, l).kind = "granted" => Decoded(op, l).seconds \in 1 .. MaxSeconds
           /\ Decoded(op, l).kind = "renewed" => Decoded(op, l).seconds \in 0 .. MaxSeconds
<1>1. R!StatusError(l).kind \notin {"granted", "renewed"}
  BY StatusErrorFails DEF Failures
<1>2. ASSUME NEW k \in Nat \ {0}, Len(l.words) = k
      PROVE  R!Last(l.words).s = "num" => R!Last(l.words).n \in Int
  BY <1>2, WordsOfAnyLine DEF R!Last
<1>3. ASSUME NEW s
      PROVE  /\ R!TokenLease(l, s).kind # "renewed"
             /\ R!TokenLease(l, s).kind = "granted" => R!TokenLease(l, s).seconds \in 1 .. MaxSeconds
  <2>1. CASE R!HasParts(l, 3, s) /\ R!IntField(R!Last(l.words), 1)
    <3>1. R!Last(l.words).n \in 1 .. MaxSeconds
      BY <1>2, <2>1, BoundsAssumption DEF R!HasParts, R!IntField
    <3>2. R!TokenLease(l, s) = R!Granted(l.words[2], R!Last(l.words).n)
      BY <2>1 DEF R!TokenLease
    <3> QED
      BY <3>1, <3>2 DEF R!Granted
  <2>2. CASE ~ (R!HasParts(l, 3, s) /\ R!IntField(R!Last(l.words), 1))
    <3>1. R!TokenLease(l, s) = R!BadResponse
      BY <2>2 DEF R!TokenLease
    <3> QED
      BY <3>1 DEF R!BadResponse, R!Raised, R!Nothing
  <2> QED
    BY <2>1, <2>2
<1>4. /\ R!Remaining(l).kind # "granted"
      /\ R!Remaining(l).kind = "renewed" => R!Remaining(l).seconds \in 0 .. MaxSeconds
  <2>1. CASE R!HasParts(l, 2, "ok") /\ R!IntField(R!Last(l.words), 0)
    <3>1. R!Last(l.words).n \in 0 .. MaxSeconds
      BY <1>2, <2>1, BoundsAssumption DEF R!HasParts, R!IntField
    <3>2. R!Remaining(l) = R!Renewed(R!Last(l.words).n)
      BY <2>1 DEF R!Remaining
    <3> QED
      BY <3>1, <3>2 DEF R!Renewed, R!Nothing
  <2>2. CASE ~ (R!HasParts(l, 2, "ok") /\ R!IntField(R!Last(l.words), 0))
    <3>1. R!Remaining(l) = R!BadResponse
      BY <2>2 DEF R!Remaining
    <3> QED
      BY <3>1 DEF R!BadResponse, R!Raised, R!Nothing
  <2> QED
    BY <2>1, <2>2
<1>5. CASE op \in {"acquire", "wait"}
  BY <1>1, <1>3, <1>5 DEF Decoded, R!GrantResponse, R!Raised, R!Nothing
<1>6. CASE op = "enqueue"
  BY <1>1, <1>3, <1>6 DEF Decoded, R!EnqueueResponse, R!Queued, R!Nothing
<1>7. CASE op = "renew"
  BY <1>1, <1>4, <1>7 DEF Decoded, R!RenewResponse
<1>8. CASE op = "release"
  BY <1>1, <1>8 DEF Decoded, R!ReleaseResponse, R!Done, R!Nothing
<1>9. CASE op = "auth"
  BY <1>9 DEF Decoded, R!AuthResponse, R!Done, R!Raised, R!Nothing
<1> QED
  BY <1>5, <1>6, <1>7, <1>8, <1>9 DEF R!Ops

-----------------------------------------------------------------------------
(* Where the line came from, and what was made of it.                      *)
LineInv ==
    receiving # "new" =>
        \/ fate = "intact" /\ \E a \in R!Answers(reader) : line = a.line /\ meant = a.means
        \/ fate = "cut" /\ \E a \in R!Answers(reader) : line \in R!Cuts(a.line) /\ meant = a.means
        \/ fate = "misdelivered" /\ \E other \in R!Ops : \E a \in R!Answers(other) : line = a.line
        \/ fate = "garbled" /\ line \in R!AnyLine

(* The decoder of the command that waits is applied to the line, and to    *)
(* nothing else.                                                           *)
AnswerInv ==
    /\ reader \in R!Ops
    /\ LineInv
    /\ receiving = "decoded" => result = Decoded(reader, line)

(* A line comes from where its fate says, and the result is what the       *)
(* waiting command's decoder makes of it.                                  *)
THEOREM AnswerInvariance == Spec => []AnswerInv
<1> USE DEF R!Ops
<1>1. Init => AnswerInv
  BY DEF Init, R!Init, AnswerInv, LineInv
<1>2. AnswerInv /\ [Next]_<<request, response>> => AnswerInv'
  <2> SUFFICES ASSUME AnswerInv, [Next]_<<request, response>> PROVE AnswerInv'
    OBVIOUS
  <2> USE DEF AnswerInv
  <2>1. CASE R!Intact
    BY <2>1 DEF R!Intact, R!Deliver, LineInv
  <2>2. CASE R!Cut
    BY <2>2 DEF R!Cut, R!Deliver, LineInv
  <2>3. CASE R!Misdelivered
    BY <2>3 DEF R!Misdelivered, R!Deliver, LineInv
  <2>4. CASE R!Garbled
    BY <2>4 DEF R!Garbled, R!Deliver, LineInv
  <2>5. CASE \E ops, r : R!Decode(ops, r) /\ r = Decoded(reader, line)
    BY <2>5 DEF R!Decode, LineInv
  <2>6. R!ParseGrantResponse => \E ops, r : R!Decode(ops, r) /\ r = Decoded(reader, line)
    BY DEF R!ParseGrantResponse, R!Decode, Decoded
  <2>7. R!ParseEnqueueResponse => \E ops, r : R!Decode(ops, r) /\ r = Decoded(reader, line)
    BY DEF R!ParseEnqueueResponse, R!Decode, Decoded
  <2>8. R!ParseRenewResponse => \E ops, r : R!Decode(ops, r) /\ r = Decoded(reader, line)
    BY DEF R!ParseRenewResponse, R!Decode, Decoded
  <2>9. R!ParseReleaseResponse => \E ops, r : R!Decode(ops, r) /\ r = Decoded(reader, line)
    BY DEF R!ParseReleaseResponse, R!Decode, Decoded
  <2>10. R!ParseAuthResponse => \E ops, r : R!Decode(ops, r) /\ r = Decoded(reader, line)
    BY DEF R!ParseAuthResponse, R!Decode, Decoded
  <2>11. CASE UNCHANGED response
    BY <2>11 DEF response, LineInv
  <2>12. R!Over => UNCHANGED response
    BY DEF R!Over, R!vars, response
  <2> QED
    BY <2>1, <2>2, <2>3, <2>4, <2>5, <2>6, <2>7, <2>8, <2>9, <2>10, <2>11, <2>12
       DEF Next, R!Next, response, request
<1> QED
  BY <1>1, <1>2, PTL DEF Spec

(* For every MAX_PROTOCOL_SECONDS, an answer that arrives whole means to   *)
(* the caller what the server meant by it.                                 *)
THEOREM WholeAnswersMeanTheSame == Spec => []DecodesWhatWasSent
<1>1. AnswerInv => DecodesWhatWasSent
  BY WholeIsAsMeant DEF AnswerInv, LineInv, DecodesWhatWasSent, R!DecodesWhatWasSent
<1> QED
  BY <1>1, AnswerInvariance, PTL

(* However an answer is cut (_read_line takes a last line without its      *)
(* newline), it is not believed to grant more, or for longer, than it did. *)
THEOREM CutAnswersSayNoMore == Spec => []CutNeverOverstates
<1>1. AnswerInv => CutNeverOverstates
  BY CutSaysNoMore DEF AnswerInv, LineInv, CutNeverOverstates, R!CutNeverOverstates
<1> QED
  BY <1>1, AnswerInvariance, PTL

(* An answer to some other command is a success only where the reader      *)
(* could have got the very same.                                           *)
THEOREM OthersAnswersAreNotBelieved == Spec => []NoConfusion
<1>1. AnswerInv => NoConfusion
  BY OthersAreNoSuccess DEF AnswerInv, LineInv, NoConfusion, R!NoConfusion
<1> QED
  BY <1>1, AnswerInvariance, PTL

(* No line, of whatever length, is decoded to a lease out of the range     *)
(* that _parse_int_field allows and the renew loop relies on.              *)
THEOREM LeasesAreInRange == Spec => []LeaseInRange
<1>1. AnswerInv => LeaseInRange
  BY AnyLeaseIsInRange DEF AnswerInv, LineInv, LeaseInRange, R!LeaseInRange
<1> QED
  BY <1>1, AnswerInvariance, PTL

-----------------------------------------------------------------------------
(* The way of a request out: what the validators let through is what the   *)
(* server reads as it was asked for, and the rest would be misread.        *)

(* A text is one line, or two.                                             *)
IsText(t) == (\E a : t = <<a>>) \/ (\E a, b : t = <<a, b>>)

(* A text of one line is that line.                                        *)
LEMMA LinesOfText ==
    ASSUME NEW t, IsText(t)
    PROVE  /\ Len(t) \in {1, 2}
           /\ Len(t) = 1 => t = <<t[1]>>
<1>1. ASSUME NEW a, t = <<a>> PROVE Len(t) = 1 /\ t = <<t[1]>>
  BY <1>1
<1>2. ASSUME NEW a, NEW b, t = <<a, b>> PROVE Len(t) = 2
  BY <1>2
<1> QED
  BY <1>1, <1>2 DEF IsText

(* The words of a line that a caller may pass.                             *)
IsLine(w) ==
    \/ w = << >>
    \/ \E n \in Nat : w = <<Q!Word(n)>>
    \/ w = <<Q!Word(1), Q!Numeral(1)>>

(* The texts that callers pass are texts of such lines.                    *)
LEMMA TextsAreTexts ==
    ASSUME NEW max \in Nat, NEW t \in Q!Texts(max)
    PROVE  IsText(t) /\ (Len(t) = 1 => IsLine(t[1]))
<1>1. CASE t = Q!Text(<< >>)
  BY <1>1 DEF IsText, IsLine, Q!Text
<1>2. CASE t = Q!Text(<<Q!Word(1), Q!Numeral(1)>>)
  BY <1>2 DEF IsText, IsLine, Q!Text
<1>3. CASE t = <<<<Q!Word(1)>>, <<Q!Numeral(1)>>>>
  BY <1>3 DEF IsText
<1>4. ASSUME NEW n \in Nat, t = Q!Text(<<Q!Word(n)>>)
      PROVE  IsText(t) /\ (Len(t) = 1 => IsLine(t[1]))
  BY <1>4 DEF IsText, IsLine, Q!Text
<1> QED
  BY <1>1, <1>2, <1>3, <1>4 DEF Q!Texts

(* Lines are sent one after the other.                                     *)
LEMMA LinesAddUp ==
    ASSUME NEW u, NEW k, NEW arg, IsText(k), IsText(arg)
    PROVE  Len(<<u>> \o k \o arg) = 1 + Len(k) + Len(arg)
<1>1. PICK a, b, c, d : (k = <<a>> \/ k = <<a, b>>) /\ (arg = <<c>> \/ arg = <<c, d>>)
  BY DEF IsText
<1> DEFINE S == {u, a, b, c, d}
<1>2. <<u>> \in Seq(S) /\ k \in Seq(S) /\ arg \in Seq(S) /\ Len(<<u>>) = 1
  <2>1. /\ <<u>> \in Seq(S) /\ <<a>> \in Seq(S) /\ <<a, b>> \in Seq(S)
        /\ <<c>> \in Seq(S) /\ <<c, d>> \in Seq(S) /\ Len(<<u>>) = 1
    OBVIOUS
  <2> QED
    BY <1>1, <2>1
<1> HIDE DEF S
<1>3. <<u>> \o k \in Seq(S) /\ Len(<<u>> \o k) = 1 + Len(k)
  BY <1>2, ConcatProperties
<1> QED
  BY <1>2, <1>3, ConcatProperties

(* Three lines, and nothing behind them.                                  *)
LEMMA ThreeLines ==
    ASSUME NEW a, NEW b, NEW c
    PROVE  /\ <<a>> \o <<b>> \o <<c>> = <<a, b, c>>
           /\ SubSeq(<<a, b, c>>, 4, Len(<<a, b, c>>)) = << >>
<1> DEFINE S == {a, b, c}
<1>1. <<a>> \in Seq(S) /\ <<b>> \in Seq(S) /\ <<c>> \in Seq(S) /\ <<a, b>> \in Seq(S)
  OBVIOUS
<1>2. /\ Len(<<a>>) = 1 /\ Len(<<b>>) = 1 /\ Len(<<c>>) = 1
      /\ Len(<<a, b>>) = 2 /\ Len(<<a, b, c>>) = 3
  OBVIOUS
<1>3. <<a>> \o <<b>> = <<a, b>>
  <2>1. Append(<<a>>, b) = <<a>> \o <<b>>
    BY <1>1, AppendIsConcat
  <2> QED
    BY <2>1, AppendToFew
<1>4. <<a, b>> \o <<c>> = <<a, b, c>>
  <2>1. Append(<<a, b>>, c) = <<a, b>> \o <<c>>
    BY <1>1, AppendIsConcat
  <2> QED
    BY <2>1, AppendToFew
<1>5. SubSeq(<<a, b, c>>, 4, 3) = << >>
  BY SubSeqEmpty
<1> QED
  BY <1>2, <1>3, <1>4, <1>5

(* An optional word is there, or not.                                      *)
LEMMA OptionalWord ==
    ASSUME NEW S, NEW s \in Seq(S), NEW v, Q!Str(v) \in S
    PROVE  /\ Q!AppendOptional(s, Q!None) = s
           /\ Q!AppendOptional(s, Q!Some(v)) = Append(s, Q!Str(v))
<1>1. [i \in DOMAIN << >> |-> Q!Str(<< >>[i])] = << >>
  OBVIOUS
<1>2. s \o << >> = s
  BY ConcatEmptySeq
<1>3. [i \in DOMAIN <<v>> |-> Q!Str(<<v>>[i])] = <<Q!Str(v)>>
  <2> DEFINE f == [i \in DOMAIN <<v>> |-> Q!Str(<<v>>[i])]
  <2>1. DOMAIN <<v>> = 1 .. 1 /\ <<v>>[1] = v
    OBVIOUS
  <2>2. f = [i \in 1 .. 1 |-> Q!Str(v)]
    BY <2>1
  <2>3. f \in Seq(S) /\ Len(f) = 1 /\ f[1] = Q!Str(v)
    BY <2>2
  <2> HIDE DEF f
  <2>4. f = <<Q!Str(v)>>
    BY <2>3, Alone
  <2> QED
    BY <2>4 DEF f
<1>4. s \o <<Q!Str(v)>> = Append(s, Q!Str(v))
  BY AppendIsConcat
<1> QED
  BY <1>1, <1>2, <1>3, <1>4 DEF Q!AppendOptional, Q!None, Q!Some

(* ... behind nothing, or behind one word or two.                          *)
LEMMA OptionalAfter ==
    ASSUME NEW v, NEW a, NEW b
    PROVE  /\ Q!AppendOptional(<< >>, Q!None) = << >>
           /\ Q!AppendOptional(<<a>>, Q!None) = <<a>>
           /\ Q!AppendOptional(<<a, b>>, Q!None) = <<a, b>>
           /\ Q!AppendOptional(<< >>, Q!Some(v)) = <<Q!Str(v)>>
           /\ Q!AppendOptional(<<a>>, Q!Some(v)) = <<a, Q!Str(v)>>
           /\ Q!AppendOptional(<<a, b>>, Q!Some(v)) = <<a, b, Q!Str(v)>>
<1> DEFINE S == {a, b, Q!Str(v)}
<1>1. << >> \in Seq(S) /\ <<a>> \in Seq(S) /\ <<a, b>> \in Seq(S) /\ Q!Str(v) \in S
  OBVIOUS
<1> HIDE DEF S
<1>2. ASSUME NEW s \in Seq(S)
      PROVE  /\ Q!AppendOptional(s, Q!None) = s
             /\ Q!AppendOptional(s, Q!Some(v)) = Append(s, Q!Str(v))
  BY <1>1, OptionalWord
<1>3. /\ Append(<< >>, Q!Str(v)) = <<Q!Str(v)>>
      /\ Append(<<a>>, Q!Str(v)) = <<a, Q!Str(v)>>
      /\ Append(<<a, b>>, Q!Str(v)) = <<a, b, Q!Str(v)>>
  BY AppendToFew
<1> QED
  BY <1>1, <1>2, <1>3

(* The server knows a command by its name, and no other.                   *)
LEMMA KnownCommand ==
    ASSUME NEW d \in [op : Q!Ops, prefix : Q!Prefixes], NEW key, NEW arg
    PROVE  Q!ReadFrame(<<<<Q!Name(d.prefix \o d.op)>>, key, arg>>)
             = IF d \in Q!Commands THEN Q!ReadCall(d, key, arg) ELSE Q!None
<1> DEFINE lines == <<<<Q!Name(d.prefix \o d.op)>>, key, arg>>
           known == {c \in Q!Commands : Q!Name(c.prefix \o c.op) = lines[1][1]}
<1>1. lines[1][1] = Q!Name(d.prefix \o d.op) /\ lines[2] = key /\ lines[3] = arg
  OBVIOUS
<1> HIDE DEF lines
<1>2. \A a, b : Q!Name(a) = Q!Name(b) => a = b
  BY DEF Q!Name
<1>3. Q!Commands \subseteq [op : Q!Ops, prefix : Q!Prefixes]
  BY DEF Q!Commands, Q!Ops, Q!Prefixes
<1>4. \A c \in Q!Commands : c \in known <=> c = d
  BY <1>1, <1>2, <1>3, NamesAssumption
<1>5. CASE d \in Q!Commands
  <2>1. known = {d}
    BY <1>4, <1>5
  <2>2. (CHOOSE c \in known : TRUE) = d
    BY <2>1
  <2>3. Q!ReadFrame(lines) = Q!ReadCall(d, key, arg)
    BY <1>1, <2>1, <2>2 DEF Q!ReadFrame
  <2> QED
    BY <1>5, <2>3 DEF lines
<1>6. CASE d \notin Q!Commands
  <2>1. known = {}
    BY <1>4, <1>6
  <2>2. Q!ReadFrame(lines) = Q!None
    BY <2>1 DEF Q!ReadFrame
  <2> QED
    BY <1>6, <2>2 DEF lines
<1> QED
  BY <1>5, <1>6

(* A call is known by its arguments.                                       *)
LEMMA CallsDiffer ==
    ASSUME NEW o, NEW p, NEW k, NEW tok, NEW t, NEW n, NEW l
    PROVE  \A tok2, t2, n2, l2 :
              Q!Call(o, p, k, tok2, t2, n2, l2) = Q!Call(o, p, k, tok, t, n, l)
                <=> tok2 = tok /\ t2 = t /\ n2 = n /\ l2 = l
  BY DEF Q!Call

(* Its arguments are its fields.                                           *)
LEMMA CallHasFields ==
    ASSUME NEW o, NEW p, NEW k, NEW tok, NEW t, NEW n, NEW l
    PROVE  LET c == Q!Call(o, p, k, tok, t, n, l)
           IN c.op = o /\ c.prefix = p /\ c.key = k /\ c.token = tok
              /\ c.timeout = t /\ c.limit = n /\ c.lease = l
  BY DEF Q!Call

(* What is not misread is in three lines, and its words are read as the    *)
(* call they were made from.                                               *)
LEMMA ReadOrMisread ==
    ASSUME NEW o \in Q!Ops, NEW p \in Q!Prefixes, NEW c,
           c.op = o, c.prefix = p, IsText(c.key), IsText(Q!Arg(c))
    PROVE  ~ Q!Misread(c) <=>
             /\ Q!EncodesLines(c)
             /\ [op |-> o, prefix |-> p] \in Q!Commands
             /\ Q!ReadCall([op |-> o, prefix |-> p], c.key[1], Q!Arg(c)[1]) = Q!Some(c)
<1> DEFINE d == [op |-> o, prefix |-> p]
           name == <<Q!Name(p \o o)>>
<1>1. d \in [op : Q!Ops, prefix : Q!Prefixes] /\ d.op = o /\ d.prefix = p
  OBVIOUS
<1>2. Q!Frame(c) = <<name>> \o c.key \o Q!Arg(c)
  BY DEF Q!Frame, Q!Text
<1> HIDE DEF d, name
<1>3. /\ Len(Q!Frame(c)) = 1 + Len(c.key) + Len(Q!Arg(c))
      /\ Len(c.key) \in {1, 2} /\ Len(Q!Arg(c)) \in {1, 2}
  BY <1>2, LinesAddUp, LinesOfText
<1>4. CASE Len(c.key) = 1 /\ Len(Q!Arg(c)) = 1
  <2>1. c.key = <<c.key[1]>> /\ Q!Arg(c) = <<Q!Arg(c)[1]>>
    BY <1>4, LinesOfText
  <2>2. Q!Frame(c) = <<name, c.key[1], Q!Arg(c)[1]>>
    BY <1>2, <2>1, ThreeLines
  <2>3. Q!ReadFrame(Q!Frame(c)) = IF d \in Q!Commands
                                   THEN Q!ReadCall(d, c.key[1], Q!Arg(c)[1]) ELSE Q!None
    BY <1>1, <2>2, KnownCommand DEF name
  <2>4. Q!None # Q!Some(c)
    BY DEF Q!None, Q!Some
  <2> QED
    BY <1>3, <1>4, <2>3, <2>4 DEF Q!Misread, Q!EncodesLines, d
<1>5. CASE ~ (Len(c.key) = 1 /\ Len(Q!Arg(c)) = 1)
  <2>1. /\ Len(c.key) = 1 \/ Len(c.key) = 2
        /\ Len(Q!Arg(c)) = 1 \/ Len(Q!Arg(c)) = 2
    BY <1>3
  <2>2. Len(Q!Frame(c)) = 4 \/ Len(Q!Frame(c)) = 5
    <3>1. \A x, y, z : /\ z = 1 + x + y /\ (x = 1 \/ x = 2) /\ (y = 1 \/ y = 2)
                       /\ ~ (x = 1 /\ y = 1)
                       => z = 4 \/ z = 5
      OBVIOUS
    <3> QED
      BY <1>3, <1>5, <2>1, <3>1, Zenon
  <2> QED
    BY <1>5, <2>2 DEF Q!Misread, Q!EncodesLines
<1> QED
  BY <1>4, <1>5

(* The words of a limit and a lease, as far as they are there.             *)
Optionals(n, l) ==
    CASE n = Q!None /\ l = Q!None -> << >>
      [] n = Q!None /\ l # Q!None -> <<Q!Str(l[1])>>
      [] n # Q!None /\ l = Q!None -> <<Q!Str(n[1])>>
      [] n # Q!None /\ l # Q!None -> <<Q!Str(n[1]), Q!Str(l[1])>>

(* What is optional is one number, or none.                                 *)
LEMMA OptionalIsOneOrNone ==
    ASSUME NEW n \in Q!Optional
    PROVE  \/ n = Q!None
           \/ n # Q!None /\ n[1] \in Q!Numbers /\ n = Q!Some(n[1]) /\ DOMAIN n = {1}
  BY DEF Q!Optional, Q!None, Q!Some

(* With nothing before them.                                               *)
LEMMA WordsAlone ==
    ASSUME NEW n \in Q!Optional, NEW l \in Q!Optional
    PROVE  Q!AppendOptional(Q!AppendOptional(<< >>, n), l) = Optionals(n, l)
<1>1. /\ n # Q!None => n = Q!Some(n[1])
      /\ l # Q!None => l = Q!Some(l[1])
  BY OptionalIsOneOrNone
<1>2. Q!AppendOptional(<< >>, n) = IF n = Q!None THEN << >> ELSE <<Q!Str(n[1])>>
  BY <1>1, OptionalAfter
<1>3. Q!AppendOptional(<< >>, l) = IF l = Q!None THEN << >> ELSE <<Q!Str(l[1])>>
  BY <1>1, OptionalAfter
<1>4. Q!AppendOptional(<<Q!Str(n[1])>>, l) =
        IF l = Q!None THEN <<Q!Str(n[1])>> ELSE <<Q!Str(n[1]), Q!Str(l[1])>>
  BY <1>1, OptionalAfter
<1> QED
  BY <1>2, <1>3, <1>4 DEF Optionals

(* With a word before them.                                                *)
LEMMA WordsAfter ==
    ASSUME NEW w, NEW n \in Q!Optional, NEW l \in Q!Optional
    PROVE  LET words == Q!AppendOptional(Q!AppendOptional(<<w>>, n), l)
           IN words # << >> /\ words[1] = w /\ Tail(words) = Optionals(n, l)
<1> DEFINE words == Q!AppendOptional(Q!AppendOptional(<<w>>, n), l)
<1>1. /\ n # Q!None => n = Q!Some(n[1])
      /\ l # Q!None => l = Q!Some(l[1])
  BY OptionalIsOneOrNone
<1>2. Q!AppendOptional(<<w>>, n) = IF n = Q!None THEN <<w>> ELSE <<w, Q!Str(n[1])>>
  BY <1>1, OptionalAfter
<1>3. Q!AppendOptional(<<w>>, l) = IF l = Q!None THEN <<w>> ELSE <<w, Q!Str(l[1])>>
  BY <1>1, OptionalAfter
<1>4. Q!AppendOptional(<<w, Q!Str(n[1])>>, l) =
        IF l = Q!None THEN <<w, Q!Str(n[1])>> ELSE <<w, Q!Str(n[1]), Q!Str(l[1])>>
  BY <1>1, OptionalAfter
<1>5. words = CASE n = Q!None /\ l = Q!None -> <<w>>
                [] n = Q!None /\ l # Q!None -> <<w, Q!Str(l[1])>>
                [] n # Q!None /\ l = Q!None -> <<w, Q!Str(n[1])>>
                [] n # Q!None /\ l # Q!None -> <<w, Q!Str(n[1]), Q!Str(l[1])>>
  BY <1>2, <1>3, <1>4
<1> HIDE DEF words
<1>6. words # << >> /\ words[1] = w /\ Tail(words) = Optionals(n, l)
  <2>1. /\ \A a : Tail(<<a>>) = << >>
        /\ \A a, b : Tail(<<a, b>>) = <<b>>
        /\ \A a, b, c : Tail(<<a, b, c>>) = <<b, c>>
    OBVIOUS
  <2>2. CASE n = Q!None /\ l = Q!None
    BY <1>5, <2>1, <2>2 DEF Optionals
  <2>3. CASE n = Q!None /\ l # Q!None
    BY <1>5, <2>1, <2>3 DEF Optionals
  <2>4. CASE n # Q!None /\ l = Q!None
    BY <1>5, <2>1, <2>4 DEF Optionals
  <2>5. CASE n # Q!None /\ l # Q!None
    BY <1>5, <2>1, <2>5 DEF Optionals
  <2> QED
    BY <2>2, <2>3, <2>4, <2>5
<1> QED
  BY <1>6 DEF words

(* A number is read as what it was if it is an integer, and in range.      *)
LEMMA NumbersAreRead ==
    ASSUME NEW t \in Q!Numbers
    PROVE  /\ Q!Str(t).s = "num" <=> t.int
           /\ t.int => t.n \in Int /\ Q!Str(t).n = t.n /\ Q!Number(Q!Str(t).n) = t
  BY BoundsAssumption DEF Q!Numbers, Q!Number, Q!NotInt, Q!Str, Q!Numeral, Q!Word

(* ... as seconds, if they are within what the validators allow.           *)
LEMMA SecondsAreRead ==
    ASSUME NEW t \in Q!Numbers, NEW least \in Nat
    PROVE  Q!Seconds(Q!Str(t), least) /\ Q!Number(Q!Str(t).n) = t
             <=> t.int /\ least <= t.n /\ t.n <= MaxSeconds
  BY NumbersAreRead, BoundsAssumption DEF Q!Seconds

(* What is optional is there or not, and is known by what is there.        *)
LEMMA SomeOrNone ==
    ASSUME NEW v, NEW w
    PROVE  /\ Q!Some(v) = Q!Some(w) <=> v = w
           /\ Q!Some(v) # Q!None
           /\ Q!Some(v)[1] = v
  BY DEF Q!Some, Q!None

(* A lease is valid if it is read as what it was.                          *)
LEMMA LeasesAreRead ==
    ASSUME NEW l \in Q!Optional
    PROVE  Q!ValidLease(l) <=>
             \/ l = Q!None
             \/ Q!Seconds(Q!Str(l[1]), 1) /\ Q!Number(Q!Str(l[1]).n) = l[1]
<1>1. CASE l = Q!None
  <2>1. DOMAIN l = {}
    BY <1>1 DEF Q!None
  <2> QED
    BY <1>1, <2>1 DEF Q!ValidLease
<1>2. CASE l # Q!None
  <2>1. l[1] \in Q!Numbers /\ DOMAIN l = {1}
    BY <1>2, OptionalIsOneOrNone
  <2>2. Q!ValidLease(l) <=> l[1].int /\ 1 <= l[1].n /\ l[1].n <= MaxSeconds
    BY <2>1 DEF Q!ValidLease
  <2> QED
    BY <1>2, <2>1, <2>2, SecondsAreRead
<1> QED
  BY <1>1, <1>2

(* The words that end a line are taken for a limit and a lease.            *)
TakenFor(p, words, n, l) ==
    Q!OptionalWords(p, words) /\ Q!LimitWord(p, words) = n /\ Q!LeaseWord(p, words) = l

(* A lock has a lease only.                                                *)
LEMMA WordsOfALock ==
    /\ TakenFor("", << >>, Q!None, Q!None)
    /\ \A w, l : TakenFor("", <<w>>, Q!None, l)
                  <=> Q!Seconds(w, 1) /\ Q!Some(Q!Number(w.n)) = l
<1>1. Q!OptionalWords("", << >>)
  BY DEF Q!OptionalWords, Q!Limits
<1>2. Q!LimitWord("", << >>) = Q!None /\ Q!LeaseWord("", << >>) = Q!None
  BY DEF Q!LimitWord, Q!LeaseWord, Q!Limits
<1>3. ASSUME NEW w
      PROVE  /\ Q!OptionalWords("", <<w>>) <=> Q!Seconds(w, 1)
             /\ Q!LimitWord("", <<w>>) = Q!None
             /\ Q!LeaseWord("", <<w>>) = Q!Some(Q!Number(w.n))
  <2>1. Q!OptionalWords("", <<w>>) <=> Q!Seconds(w, 1)
    BY DEF Q!OptionalWords, Q!Limits
  <2>2. Q!LimitWord("", <<w>>) = Q!None
    BY DEF Q!LimitWord
  <2>3. Q!LeaseWord("", <<w>>) = Q!Some(Q!Number(w.n))
    BY DEF Q!LeaseWord, Q!Limits
  <2> QED
    BY <2>1, <2>2, <2>3
<1> QED
  BY <1>1, <1>2, <1>3 DEF TakenFor

(* The two are told apart by the prefix, if they are as they may be.       *)
LEMMA OptionalsAreRead ==
    ASSUME NEW p, Q!ValidPrefix(p), NEW n \in Q!Optional, NEW l \in Q!Optional
    PROVE  TakenFor(p, Optionals(n, l), n, l) <=> Q!ValidPrefixLimit(p, n) /\ Q!ValidLease(l)
<1> DEFINE words == Optionals(n, l)
<1>1. /\ n # Q!None => n[1] \in Q!Numbers /\ n = Q!Some(n[1])
      /\ l # Q!None => l[1] \in Q!Numbers /\ l = Q!Some(l[1])
  BY OptionalIsOneOrNone
<1>2. Q!ValidPrefixLimit(p, n) <=>
        IF n = Q!None THEN p = ""
        ELSE p = "s" /\ Q!Str(n[1]).s = "num" /\ Q!Str(n[1]).n > 0
             /\ Q!Number(Q!Str(n[1]).n) = n[1]
  BY <1>1, NumbersAreRead DEF Q!ValidPrefixLimit
<1>3. CASE p = "" /\ n = Q!None /\ l = Q!None
  <2>1. words = << >> /\ Len(<< >>) = 0
    BY <1>3 DEF Optionals
  <2>2. Q!ValidLease(l) /\ Q!ValidPrefixLimit(p, n)
    BY <1>2, <1>3, LeasesAreRead
  <2>3. TakenFor("", << >>, Q!None, Q!None)
    BY WordsOfALock
  <2> QED
    BY <1>3, <2>1, <2>2, <2>3
<1>4. CASE p = "" /\ n = Q!None /\ l # Q!None
  <2>1. words = <<Q!Str(l[1])>>
    BY <1>4 DEF Optionals
  <2>2. ASSUME NEW w
        PROVE  TakenFor("", <<w>>, Q!None, l) <=> Q!Seconds(w, 1) /\ Q!Number(w.n) = l[1]
    <3>1. Q!Some(Q!Number(w.n)) = l <=> Q!Number(w.n) = l[1]
      BY <1>1, <1>4, SomeOrNone
    <3> QED
      BY <3>1, WordsOfALock
  <2>3. Q!ValidPrefixLimit(p, n)
    BY <1>2, <1>4
  <2> QED
    BY <1>4, <2>1, <2>2, <2>3, LeasesAreRead
<1>5. CASE p = "" /\ n # Q!None
  <2>1. Q!LimitWord(p, words) # n
    BY <1>5 DEF Q!LimitWord
  <2> QED
    BY <1>2, <1>5, <2>1 DEF TakenFor
<1>6. CASE p = "s" /\ n = Q!None
  <2>1. Q!LimitWord(p, words) # n
    BY <1>6, SomeOrNone DEF Q!LimitWord
  <2> QED
    BY <1>2, <1>6, <2>1 DEF TakenFor
<1>7. CASE p = "s" /\ n # Q!None /\ l = Q!None
  <2>1. words = <<Q!Str(n[1])>>
    BY <1>7 DEF Optionals
  <2>2. ASSUME NEW w
        PROVE  TakenFor("s", <<w>>, n, Q!None)
                 <=> w.s = "num" /\ w.n > 0 /\ Q!Number(w.n) = n[1]
    BY <1>1, <1>7, SomeOrNone
       DEF TakenFor, Q!OptionalWords, Q!LimitWord, Q!LeaseWord, Q!Limits
  <2>3. Q!ValidLease(l)
    BY <1>7, LeasesAreRead
  <2> QED
    BY <1>2, <1>7, <2>1, <2>2, <2>3
<1>8. CASE p = "s" /\ n # Q!None /\ l # Q!None
  <2>1. words = <<Q!Str(n[1]), Q!Str(l[1])>>
    BY <1>8 DEF Optionals
  <2>2. ASSUME NEW w, NEW v
        PROVE  TakenFor("s", <<w, v>>, n, l)
                 <=> /\ w.s = "num" /\ w.n > 0 /\ Q!Number(w.n) = n[1]
                     /\ Q!Seconds(v, 1) /\ Q!Number(v.n) = l[1]
    BY <1>1, <1>8, SomeOrNone
       DEF TakenFor, Q!OptionalWords, Q!LimitWord, Q!LeaseWord, Q!Limits
  <2> QED
    BY <1>2, <1>8, <2>1, <2>2, LeasesAreRead
<1> QED
  BY <1>3, <1>4, <1>5, <1>6, <1>7, <1>8 DEF Q!ValidPrefix

(* A line fits on the way if it does on arrival.                           *)
LEMMA LinesFit ==
    ASSUME NEW w, NEW max
    PROVE  /\ Q!OneLine(<<w>>, max) <=> Q!Fits(w, max)
           /\ Q!ValidWord(<<w>>) <=> Q!Fits(w, MaxLine) /\ Len(w) = 1
<1>1. Len(<<w>>) = 1 /\ <<w>>[1] = w
  OBVIOUS
<1> QED
  BY <1>1 DEF Q!OneLine, Q!Fits, Q!ValidWord

(* A key and a third line that the server looks at.                        *)
Arrives(key, words) == Len(key) = 1 /\ Q!Fits(key, MaxLine) /\ Q!Fits(words, MaxLine)

(* `<timeout> [<limit>] [<lease>]'.                                        *)
LEMMA AcquireIsRead ==
    ASSUME NEW p, Q!ValidPrefix(p), NEW key, NEW t \in Q!Numbers,
           NEW n \in Q!Optional, NEW l \in Q!Optional, NEW words,
           words = Q!AppendOptional(Q!AppendOptional(<<Q!Str(t)>>, n), l)
    PROVE  Q!ReadCall([op |-> "l", prefix |-> p], key, words)
             = Q!Some(Q!Call("l", p, Q!Text(key), Q!NoToken, t, n, l))
             <=> /\ Q!ValidPrefixLimit(p, n) /\ Q!ValidTimeout(t) /\ Q!ValidLease(l)
                 /\ Arrives(key, words)
<1> DEFINE d == [op |-> "l", prefix |-> p]
           ok == /\ Arrives(key, words) /\ Q!Seconds(Q!Str(t), 0)
                 /\ Q!OptionalWords(p, Optionals(n, l))
           read == Q!Call("l", p, Q!Text(key), Q!NoToken, Q!Number(Q!Str(t).n),
                          Q!LimitWord(p, Optionals(n, l)), Q!LeaseWord(p, Optionals(n, l)))
<1>1. d.op = "l" /\ d.prefix = p
  OBVIOUS
<1>2. words # << >> /\ words[1] = Q!Str(t) /\ Tail(words) = Optionals(n, l)
  BY WordsAfter
<1>3. Q!ReadCall(d, key, words) = IF ok THEN Q!Some(read) ELSE Q!None
  <2> HIDE DEF d
  <2> QED
    BY <1>1, <1>2 DEF Q!ReadCall, Arrives
<1>4. Q!Seconds(Q!Str(t), 0) /\ Q!Number(Q!Str(t).n) = t <=> Q!ValidTimeout(t)
  BY SecondsAreRead DEF Q!ValidTimeout
<1>5. read = Q!Call("l", p, Q!Text(key), Q!NoToken, t, n, l)
        <=> /\ Q!Number(Q!Str(t).n) = t
            /\ Q!LimitWord(p, Optionals(n, l)) = n /\ Q!LeaseWord(p, Optionals(n, l)) = l
  BY CallsDiffer
<1> HIDE DEF d, read
<1>6. Q!ReadCall(d, key, words) = Q!Some(Q!Call("l", p, Q!Text(key), Q!NoToken, t, n, l))
        <=> ok /\ read = Q!Call("l", p, Q!Text(key), Q!NoToken, t, n, l)
  BY <1>3, SomeOrNone
<1>7. TakenFor(p, Optionals(n, l), n, l) <=> Q!ValidPrefixLimit(p, n) /\ Q!ValidLease(l)
  BY OptionalsAreRead
<1>8. Q!ReadCall(d, key, words) = Q!Some(Q!Call("l", p, Q!Text(key), Q!NoToken, t, n, l))
        <=> /\ Q!ValidPrefixLimit(p, n) /\ Q!ValidTimeout(t) /\ Q!ValidLease(l)
            /\ Arrives(key, words)
  BY <1>4, <1>5, <1>6, <1>7, Zenon DEF TakenFor
<1> QED
  BY <1>8 DEF d

(* `[<limit>] [<lease>]'.                                                  *)
LEMMA EnqueueIsRead ==
    ASSUME NEW p, Q!ValidPrefix(p), NEW key,
           NEW n \in Q!Optional, NEW l \in Q!Optional, NEW words,
           words = Q!AppendOptional(Q!AppendOptional(<< >>, n), l)
    PROVE  Q!ReadCall([op |-> "e", prefix |-> p], key, words)
             = Q!Some(Q!Call("e", p, Q!Text(key), Q!NoToken, Q!NoTime, n, l))
             <=> /\ Q!ValidPrefixLimit(p, n) /\ Q!ValidLease(l)
                 /\ Arrives(key, words)
<1> DEFINE d == [op |-> "e", prefix |-> p]
           ok == Arrives(key, words) /\ Q!OptionalWords(p, words)
           read == Q!Call("e", p, Q!Text(key), Q!NoToken, Q!NoTime,
                          Q!LimitWord(p, words), Q!LeaseWord(p, words))
<1>1. d.op = "e" /\ d.prefix = p
  OBVIOUS
<1>2. words = Optionals(n, l)
  BY WordsAlone
<1>3. Q!ReadCall(d, key, words) = IF ok THEN Q!Some(read) ELSE Q!None
  <2> HIDE DEF d
  <2> QED
    BY <1>1 DEF Q!ReadCall, Arrives
<1>4. read = Q!Call("e", p, Q!Text(key), Q!NoToken, Q!NoTime, n, l)
        <=> Q!LimitWord(p, words) = n /\ Q!LeaseWord(p, words) = l
  BY CallsDiffer
<1> HIDE DEF d, read
<1>5. Q!ReadCall(d, key, words) = Q!Some(Q!Call("e", p, Q!Text(key), Q!NoToken, Q!NoTime, n, l))
        <=> ok /\ read = Q!Call("e", p, Q!Text(key), Q!NoToken, Q!NoTime, n, l)
  BY <1>3, SomeOrNone
<1>6. TakenFor(p, words, n, l) <=> Q!ValidPrefixLimit(p, n) /\ Q!ValidLease(l)
  BY <1>2, OptionalsAreRead
<1>7. Q!ReadCall(d, key, words) = Q!Some(Q!Call("e", p, Q!Text(key), Q!NoToken, Q!NoTime, n, l))
        <=> Q!ValidPrefixLimit(p, n) /\ Q!ValidLease(l) /\ Arrives(key, words)
  BY <1>4, <1>5, <1>6, Zenon DEF TakenFor
<1> QED
  BY <1>7 DEF d

(* `<timeout>'.                                                            *)
LEMMA WaitIsRead ==
    ASSUME NEW p, Q!ValidPrefix(p), NEW key, NEW t \in Q!Numbers
    PROVE  Q!ReadCall([op |-> "w", prefix |-> p], key, <<Q!Str(t)>>)
             = Q!Some(Q!Call("w", p, Q!Text(key), Q!NoToken, t, Q!None, Q!None))
             <=> Q!ValidTimeout(t) /\ Arrives(key, <<Q!Str(t)>>)
<1> DEFINE d == [op |-> "w", prefix |-> p]
           ok == Arrives(key, <<Q!Str(t)>>) /\ Q!Seconds(Q!Str(t), 0)
           read == Q!Call("w", p, Q!Text(key), Q!NoToken, Q!Number(Q!Str(t).n),
                          Q!None, Q!None)
<1>1. d.op = "w" /\ d.prefix = p
  OBVIOUS
<1>2. ASSUME NEW w
      PROVE  <<w>> # << >> /\ <<w>>[1] = w /\ Len(<<w>>) = 1
  OBVIOUS
<1>3. Q!ReadCall(d, key, <<Q!Str(t)>>) = IF ok THEN Q!Some(read) ELSE Q!None
  <2> DEFINE words == <<Q!Str(t)>>
  <2>1. words # << >> /\ words[1] = Q!Str(t) /\ Len(words) = 1
    BY <1>2
  <2> HIDE DEF d, words
  <2>2. Q!ReadCall(d, key, words)
          = IF Arrives(key, words) /\ Q!Seconds(Q!Str(t), 0) THEN Q!Some(read) ELSE Q!None
    BY <1>1, <2>1 DEF Q!ReadCall, Arrives
  <2> QED
    BY <2>2 DEF words
<1>4. Q!Seconds(Q!Str(t), 0) /\ Q!Number(Q!Str(t).n) = t <=> Q!ValidTimeout(t)
  BY SecondsAreRead DEF Q!ValidTimeout
<1>5. read = Q!Call("w", p, Q!Text(key), Q!NoToken, t, Q!None, Q!None)
        <=> Q!Number(Q!Str(t).n) = t
  BY CallsDiffer
<1> HIDE DEF d, read
<1>6. Q!ReadCall(d, key, <<Q!Str(t)>>)
        = Q!Some(Q!Call("w", p, Q!Text(key), Q!NoToken, t, Q!None, Q!None))
        <=> ok /\ read = Q!Call("w", p, Q!Text(key), Q!NoToken, t, Q!None, Q!None)
  BY <1>3, SomeOrNone
<1>7. Q!ReadCall(d, key, <<Q!Str(t)>>)
        = Q!Some(Q!Call("w", p, Q!Text(key), Q!NoToken, t, Q!None, Q!None))
        <=> Q!ValidTimeout(t) /\ Arrives(key, <<Q!Str(t)>>)
  BY <1>4, <1>5, <1>6, Zenon
<1> QED
  BY <1>7 DEF d

(* `<token>'.                                                              *)
LEMMA ReleaseIsRead ==
    ASSUME NEW p, Q!ValidPrefix(p), NEW key, NEW words
    PROVE  Q!ReadCall([op |-> "r", prefix |-> p], key, words)
             = Q!Some(Q!Call("r", p, Q!Text(key), <<words>>, Q!NoTime, Q!None, Q!None))
             <=> Arrives(key, words) /\ Len(words) = 1
<1> DEFINE d == [op |-> "r", prefix |-> p]
           read == Q!Call("r", p, Q!Text(key), <<words>>, Q!NoTime, Q!None, Q!None)
<1>1. d.op = "r" /\ d.prefix = p
  OBVIOUS
<1> HIDE DEF d
<1>2. Q!ReadCall(d, key, words)
        = IF Arrives(key, words) /\ Len(words) = 1 THEN Q!Some(read) ELSE Q!None
  BY <1>1 DEF Q!ReadCall, Arrives, Q!Text
<1> HIDE DEF read
<1>3. Q!ReadCall(d, key, words) = Q!Some(read) <=> Arrives(key, words) /\ Len(words) = 1
  BY <1>2, SomeOrNone
<1> QED
  BY <1>3 DEF d, read

(* A longer line has more bytes.                                           *)
WordBytes(words, i) == 1 + (IF words[i].s = "str" THEN words[i].n ELSE 1)

(* One step of the sum that Bytes is.                                      *)
OneMore(words, sum) ==
    [s \in SUBSET DOMAIN words |->
        IF s = {} THEN 0
        ELSE WordBytes(words, CHOOSE x \in s : TRUE) + sum[s \ {CHOOSE x \in s : TRUE}]]

ByteSum(words) == CHOOSE sum : sum = OneMore(words, sum)

(* Bytes is that sum.                                                      *)
LEMMA BytesAreSummed ==
    ASSUME NEW words
    PROVE  Q!Bytes(words) = ByteSum(words)[DOMAIN words]
  BY ZenonT(60) DEF Q!Bytes, Q!MapThenSumSet, Q!MapThenFoldSet, ByteSum, OneMore, WordBytes

(* The bytes of a line of one word, and of two.                            *)
LEMMA BytesOfOne ==
    ASSUME NEW w, WordBytes(<<w>>, 1) \in Nat
    PROVE  Q!Bytes(<<w>>) = WordBytes(<<w>>, 1)
<1> DEFINE words == <<w>>
           f == [s \in SUBSET {1} |-> IF s = {} THEN 0 ELSE WordBytes(words, 1)]
<1>1. DOMAIN words = {1}
  OBVIOUS
<1> HIDE DEF words
<1>2. \A s \in SUBSET {1} : s # {} => s = {1}
  OBVIOUS
<1>3. (CHOOSE x \in {1} : TRUE) = 1 /\ {1} \ {1} = {}
  OBVIOUS
<1>4. f = OneMore(words, f)
  <2>1. \A s \in SUBSET {1} :
           f[s] = IF s = {} THEN 0
                  ELSE WordBytes(words, CHOOSE x \in s : TRUE)
                         + f[s \ {CHOOSE x \in s : TRUE}]
    BY <1>2, <1>3 DEF words
  <2> QED
    BY <1>1, <2>1 DEF OneMore
<1>5. ByteSum(words) = OneMore(words, ByteSum(words))
  BY <1>4 DEF ByteSum
<1>6. ByteSum(words)[{1}] = WordBytes(words, 1) + ByteSum(words)[{}]
  BY <1>1, <1>3, <1>5 DEF OneMore
<1>7. ByteSum(words)[{}] = 0
  BY <1>1, <1>5 DEF OneMore
<1> QED
  BY <1>1, <1>6, <1>7, BytesAreSummed DEF words

(* Whichever of the two is added first.                                    *)
LEMMA BytesOfTwo ==
    ASSUME NEW w, NEW v, WordBytes(<<w, v>>, 1) \in Nat, WordBytes(<<w, v>>, 2) \in Nat
    PROVE  Q!Bytes(<<w, v>>) = WordBytes(<<w, v>>, 1) + WordBytes(<<w, v>>, 2)
<1> DEFINE words == <<w, v>>
           x == WordBytes(words, 1)
           y == WordBytes(words, 2)
           f == [s \in SUBSET {1, 2} |->
                    IF s = {} THEN 0 ELSE IF s = {1} THEN x ELSE IF s = {2} THEN y ELSE x + y]
           first(s) == CHOOSE i \in s : TRUE
           Sums(sum) == \A s \in SUBSET {1, 2} :
                            sum[s] = IF s = {} THEN 0
                                     ELSE WordBytes(words, first(s)) + sum[s \ {first(s)}]
<1>1. DOMAIN words = {1, 2}
  OBVIOUS
<1>2. x \in Nat /\ y \in Nat
  OBVIOUS
<1> HIDE DEF words
<1>3. \A s \in SUBSET {1, 2} : s = {} \/ s = {1} \/ s = {2} \/ s = {1, 2}
  <2> TAKE s \in SUBSET {1, 2}
  <2> QED
    BY 1 \in s \/ 1 \notin s, 2 \in s \/ 2 \notin s
<1>4. /\ first({1}) = 1 /\ {1} \ {first({1})} = {}
      /\ first({2}) = 2 /\ {2} \ {first({2})} = {}
      /\ \/ first({1, 2}) = 1 /\ {1, 2} \ {first({1, 2})} = {2}
         \/ first({1, 2}) = 2 /\ {1, 2} \ {first({1, 2})} = {1}
  <2>1. first({1}) = 1 /\ first({2}) = 2 /\ first({1, 2}) \in {1, 2}
    OBVIOUS
  <2>2. {1} \ {1} = {} /\ {2} \ {2} = {} /\ {1, 2} \ {1} = {2} /\ {1, 2} \ {2} = {1}
    OBVIOUS
  <2> HIDE DEF first
  <2> QED
    BY <2>1, <2>2, Zenon
<1>5. {1} # {} /\ {2} # {} /\ {1, 2} # {} /\ {1} # {2} /\ {1, 2} # {1} /\ {1, 2} # {2}
  OBVIOUS
<1>6. f[{}] = 0 /\ f[{1}] = x /\ f[{2}] = y /\ f[{1, 2}] = x + y
  BY <1>5
<1> HIDE DEF f, first
<1>7. Sums(f)
  <2>1. /\ f[{1}] = x + 0 /\ f[{2}] = y + 0
        /\ f[{1, 2}] = x + y /\ f[{1, 2}] = y + x
    BY <1>2, <1>6
  <2>2. /\ f[{1}] = WordBytes(words, first({1})) + f[{1} \ {first({1})}]
        /\ f[{2}] = WordBytes(words, first({2})) + f[{2} \ {first({2})}]
        /\ f[{1, 2}] = WordBytes(words, first({1, 2})) + f[{1, 2} \ {first({1, 2})}]
    BY <1>4, <1>6, <2>1, Zenon
  <2>3. ASSUME NEW s \in SUBSET {1, 2}
        PROVE  f[s] = IF s = {} THEN 0
                      ELSE WordBytes(words, first(s)) + f[s \ {first(s)}]
    <3>1. CASE s = {}
      BY <1>6, <3>1, Zenon
    <3>2. CASE s = {1}
      BY <1>5, <2>2, <3>2, Zenon
    <3>3. CASE s = {2}
      BY <1>5, <2>2, <3>3, Zenon
    <3>4. CASE s = {1, 2}
      BY <1>5, <2>2, <3>4, Zenon
    <3> QED
      BY <1>3, <3>1, <3>2, <3>3, <3>4
  <2> QED
    BY <2>3
<1>8. f = OneMore(words, f)
  BY <1>1, <1>7 DEF OneMore, first, f
<1>9. ByteSum(words) = OneMore(words, ByteSum(words))
  BY <1>8 DEF ByteSum
<1>10. Sums(ByteSum(words))
  BY <1>1, <1>9 DEF OneMore, first
<1> DEFINE sum == ByteSum(words)
<1>11. sum[{}] = 0 /\ sum[{1}] = x + sum[{}] /\ sum[{2}] = y + sum[{}]
       /\ (sum[{1, 2}] = x + sum[{2}] \/ sum[{1, 2}] = y + sum[{1}])
  <2>1. {} \in SUBSET {1, 2} /\ {1} \in SUBSET {1, 2} /\ {2} \in SUBSET {1, 2}
        /\ {1, 2} \in SUBSET {1, 2}
    OBVIOUS
  <2> HIDE DEF sum
  <2>2. Sums(sum)
    BY <1>10 DEF sum
  <2> QED
    BY <1>4, <1>5, <2>1, <2>2, Zenon
<1>12. sum[{1, 2}] = x + y
  <2> HIDE DEF sum
  <2> QED
    BY <1>2, <1>11
<1> QED
  BY <1>1, <1>12, BytesAreSummed DEF words

(* A token that fits with a lease behind it fits without.                  *)
LEMMA TokenFits ==
    ASSUME NEW n \in Nat, NEW t \in Q!Numbers, NEW max \in Nat,
           Q!Fits(<<Q!Word(n), Q!Str(t)>>, max)
    PROVE  Q!Fits(<<Q!Word(n)>>, max)
<1>1. /\ WordBytes(<<Q!Word(n)>>, 1) = 1 + n
      /\ WordBytes(<<Q!Word(n), Q!Str(t)>>, 1) = 1 + n
      /\ WordBytes(<<Q!Word(n), Q!Str(t)>>, 2) \in Nat
  BY DEF WordBytes, Q!Word, Q!Str, Q!Numeral
<1>2. Q!Bytes(<<Q!Word(n)>>) = 1 + n
  BY <1>1, BytesOfOne
<1>3. /\ Q!Bytes(<<Q!Word(n), Q!Str(t)>>)
           = 1 + n + WordBytes(<<Q!Word(n), Q!Str(t)>>, 2)
  BY <1>1, BytesOfTwo
<1> QED
  BY <1>1, <1>2, <1>3 DEF Q!Fits

(* `<token> [<lease>]'.                                                    *)
LEMMA RenewIsRead ==
    ASSUME NEW p, Q!ValidPrefix(p), NEW key, NEW w, IsLine(w), NEW l \in Q!Optional,
           NEW words, words = Q!AppendOptional(w, l)
    PROVE  Q!ReadCall([op |-> "n", prefix |-> p], key, words)
             = Q!Some(Q!Call("n", p, Q!Text(key), <<w>>, Q!NoTime, Q!None, l))
             <=> /\ Q!ValidWord(<<w>>) /\ Q!ValidLease(l)
                 /\ Arrives(key, words)
<1> DEFINE d == [op |-> "n", prefix |-> p]
           asRead(t, v) == Q!Call("n", p, Q!Text(key), t, Q!NoTime, Q!None, v)
           read == Q!ReadCall(d, key, words)
           right == read = Q!Some(asRead(<<w>>, l))
           valid == Q!ValidWord(<<w>>) /\ Q!ValidLease(l) /\ Arrives(key, words)
<1>1. d.op = "n" /\ d.prefix = p
  OBVIOUS
<1> HIDE DEF d
<1>2. read = IF Arrives(key, words) /\ Len(words) = 1 THEN Q!Some(asRead(<<words>>, Q!None))
             ELSE IF Arrives(key, words) /\ Len(words) = 2 /\ Q!Seconds(words[2], 1)
             THEN Q!Some(asRead(<<<<words[1]>>>>, Q!Some(Q!Number(words[2].n))))
             ELSE Q!None
  BY <1>1 DEF Q!ReadCall, Arrives, Q!Text
<1>3. ASSUME NEW t, NEW v
      PROVE  asRead(t, v) = asRead(<<w>>, l) <=> t = <<w>> /\ v = l
  BY CallsDiffer
<1> HIDE DEF asRead, read
<1>4. ASSUME NEW t, NEW v
      PROVE  Q!Some(asRead(t, v)) = Q!Some(asRead(<<w>>, l)) <=> t = <<w>> /\ v = l
  BY <1>3, SomeOrNone
<1>5. Q!None # Q!Some(asRead(<<w>>, l))
  BY SomeOrNone
<1>6. l = Q!None => words = w /\ Q!ValidLease(l)
  <2>1. CASE w = << >>
    BY <2>1, OptionalAfter, LeasesAreRead
  <2>2. ASSUME NEW a, w = <<a>> PROVE l = Q!None => words = w /\ Q!ValidLease(l)
    BY <2>2, OptionalAfter, LeasesAreRead
  <2>3. ASSUME NEW a, NEW b, w = <<a, b>> PROVE l = Q!None => words = w /\ Q!ValidLease(l)
    BY <2>3, OptionalAfter, LeasesAreRead
  <2> QED
    BY <2>1, <2>2, <2>3 DEF IsLine
<1>7. /\ l # Q!None => l[1] \in Q!Numbers /\ l = Q!Some(l[1])
  BY OptionalIsOneOrNone
<1>8. CASE l = Q!None
  <2>1. Len(words) = 1 => (right <=> Arrives(key, words))
    BY <1>2, <1>4, <1>5, <1>6, <1>8
  <2>2. Len(words) # 1 => ~ right
    <3>1. Q!Some(Q!Number(words[2].n)) # l
      BY <1>8, SomeOrNone
    <3> QED
      BY <1>2, <1>4, <1>5, <3>1
  <2>3. Arrives(key, words) => Q!Fits(w, MaxLine)
    BY <1>6, <1>8 DEF Arrives
  <2>4. valid <=> Len(words) = 1 /\ Arrives(key, words)
    BY <1>6, <1>8, <2>3, LinesFit
  <2> QED
    BY <2>1, <2>2, <2>4 DEF read, asRead, d
<1>9. CASE l # Q!None /\ w = << >>
  <2>1. words = <<Q!Str(l[1])>> /\ Len(<<Q!Str(l[1])>>) = 1
    BY <1>7, <1>9, OptionalAfter
  <2>2. ~ right
    BY <1>2, <1>4, <1>5, <1>9, <2>1
  <2>3. ~ valid
    <3>1. Len(w) = 0
      BY <1>9
    <3> QED
      BY <3>1, LinesFit
  <2> QED
    BY <2>2, <2>3 DEF read, asRead, d
<1>10. ASSUME NEW n \in Nat, l # Q!None, w = <<Q!Word(n)>>
       PROVE  right <=> valid
  <2>1. words = <<Q!Word(n), Q!Str(l[1])>>
    BY <1>7, <1>10, OptionalAfter
  <2>2. Len(words) = 2 /\ words[1] = Q!Word(n) /\ words[2] = Q!Str(l[1])
    BY <2>1
  <2>3. Len(w) = 1
    BY <1>10
  <2>4. right <=> /\ Arrives(key, words) /\ Q!Seconds(Q!Str(l[1]), 1)
                  /\ Q!Some(Q!Number(Q!Str(l[1]).n)) = l
    BY <1>2, <1>4, <1>5, <1>10, <2>2
  <2>5. Q!Some(Q!Number(Q!Str(l[1]).n)) = l <=> Q!Number(Q!Str(l[1]).n) = l[1]
    BY <1>7, <1>10, SomeOrNone
  <2>6. Arrives(key, words) => Q!Fits(w, MaxLine)
    BY <1>7, <1>10, <2>1, TokenFits, BoundsAssumption DEF Arrives
  <2>7. Q!ValidWord(<<w>>) <=> Q!Fits(w, MaxLine)
    BY <2>3, LinesFit
  <2>8. Q!ValidLease(l) <=> Q!Seconds(Q!Str(l[1]), 1) /\ Q!Number(Q!Str(l[1]).n) = l[1]
    BY <1>10, LeasesAreRead
  <2> HIDE DEF right
  <2> QED
    BY <2>4, <2>5, <2>6, <2>7, <2>8, Zenon
<1>11. CASE l # Q!None /\ w = <<Q!Word(1), Q!Numeral(1)>>
  <2>1. words = <<Q!Word(1), Q!Numeral(1), Q!Str(l[1])>>
    BY <1>7, <1>11, OptionalAfter
  <2>2. Len(words) = 3
    BY <2>1
  <2>3. ~ right
    BY <1>2, <1>5, <2>2
  <2>4. ~ valid
    <3>1. Len(w) = 2
      BY <1>11
    <3> QED
      BY <3>1, LinesFit
  <2> QED
    BY <2>3, <2>4 DEF read, asRead, d
<1>12. right <=> valid
  BY <1>8, <1>9, <1>10, <1>11 DEF IsLine, read, asRead, d
<1> QED
  BY <1>12 DEF read, asRead, d

(* The token of `auth'.                                                    *)
LEMMA AuthenticateIsRead ==
    ASSUME NEW key, NEW words
    PROVE  Q!ReadCall([op |-> "auth", prefix |-> ""], key, words)
             = Q!Some(Q!Call("auth", "", Q!Text(key), <<words>>, Q!NoTime, Q!None, Q!None))
             <=> Q!Fits(words, MaxAuth)
<1> DEFINE d == [op |-> "auth", prefix |-> ""]
           read == Q!Call("auth", "", Q!Text(key), <<words>>, Q!NoTime, Q!None, Q!None)
<1>1. d.op = "auth" /\ d.prefix = ""
  OBVIOUS
<1> HIDE DEF d
<1>2. Q!ReadCall(d, key, words)
        = IF Q!Fits(words, MaxAuth) THEN Q!Some(read) ELSE Q!None
  BY <1>1 DEF Q!ReadCall, Q!Text
<1> HIDE DEF read
<1>3. Q!ReadCall(d, key, words) = Q!Some(read) <=> Q!Fits(words, MaxAuth)
  BY <1>2, SomeOrNone
<1> QED
  BY <1>3 DEF d, read

(* stats has no words to be read.                                          *)
LEMMA StatsIsRead ==
    ASSUME NEW key, NEW words
    PROVE  Q!ReadCall([op |-> "stats", prefix |-> ""], key, words)
             = Q!Some(Q!Call("stats", "", Q!Text(key), Q!NoToken, Q!NoTime, Q!None, Q!None))
<1> DEFINE d == [op |-> "stats", prefix |-> ""]
<1>1. d.op = "stats" /\ d.prefix = ""
  OBVIOUS
<1> HIDE DEF d
<1>2. Q!ReadCall(d, key, words)
        = Q!Some(Q!Call("stats", "", Q!Text(key), Q!NoToken, Q!NoTime, Q!None, Q!None))
  BY <1>1 DEF Q!ReadCall
<1> QED
  BY <1>2 DEF d

(* Five commands take the prefix of the semaphores.                        *)
LEMMA CommandsByPrefix ==
    /\ \A o \in {"l", "r", "n", "e", "w"} : \A p :
          [op |-> o, prefix |-> p] \in Q!Commands <=> Q!ValidPrefix(p)
    /\ \A o \in {"auth", "stats"} : [op |-> o, prefix |-> ""] \in Q!Commands
<1>1. ASSUME NEW o \in {"l", "r", "n", "e", "w"}, NEW p
      PROVE  [op |-> o, prefix |-> p] \in Q!Commands <=> Q!ValidPrefix(p)
  BY DEF Q!Commands, Q!Ops, Q!ValidPrefix
<1>2. ASSUME NEW o \in {"auth", "stats"}
      PROVE  [op |-> o, prefix |-> ""] \in Q!Commands
  BY DEF Q!Commands
<1> QED
  BY <1>1, <1>2

(* A call of one of the five is not misread if its key and its third line  *)
(* are one line each, its prefix is one of the two, and the server reads   *)
(* it from them.                                                           *)
LEMMA PrefixedIsRead ==
    ASSUME NEW o \in {"l", "r", "n", "e", "w"}, NEW p \in Q!Prefixes, NEW c,
           c.op = o, c.prefix = p, IsText(c.key), IsText(Q!Arg(c)),
           NEW ok \in BOOLEAN,
           ok => Q!ValidPrefix(p),
           Q!EncodesLines(c) /\ Q!ValidPrefix(p) =>
              (Q!ReadCall([op |-> o, prefix |-> p], c.key[1], Q!Arg(c)[1]) = Q!Some(c) <=> ok)
    PROVE  ~ Q!Misread(c) <=> ok /\ Q!EncodesLines(c)
<1>1. o \in Q!Ops
  BY DEF Q!Ops
<1>2. ~ Q!Misread(c) <=>
        /\ Q!EncodesLines(c)
        /\ [op |-> o, prefix |-> p] \in Q!Commands
        /\ Q!ReadCall([op |-> o, prefix |-> p], c.key[1], Q!Arg(c)[1]) = Q!Some(c)
  BY <1>1, ReadOrMisread
<1>3. [op |-> o, prefix |-> p] \in Q!Commands <=> Q!ValidPrefix(p)
  BY CommandsByPrefix
<1> QED
  BY <1>2, <1>3, Zenon

(* What each function lets through is what is not misread.                 *)
LEMMA AcquireAccepts ==
    ASSUME NEW p \in Q!Prefixes, NEW k \in Q!Texts(MaxLine), NEW t \in Q!Numbers,
           NEW n \in Q!Optional, NEW l \in Q!Optional,
           NEW c, c = Q!Call("l", p, k, Q!NoToken, t, n, l)
    PROVE  ~ Q!Misread(c) <=>
              /\ Q!ValidPrefixLimit(p, n) /\ Q!ValidWord(k)
              /\ Q!ValidTimeout(t) /\ Q!ValidLease(l) /\ Q!OneLine(Q!Arg(c), MaxLine)
              /\ Q!EncodesLines(c)
<1> DEFINE words == Q!AppendOptional(Q!AppendOptional(<<Q!Str(t)>>, n), l)
           ok == /\ Q!ValidPrefixLimit(p, n) /\ Q!ValidWord(k)
                 /\ Q!ValidTimeout(t) /\ Q!ValidLease(l) /\ Q!OneLine(Q!Arg(c), MaxLine)
<1>1. /\ c.op = "l" /\ c.prefix = p /\ c.key = k
      /\ c.timeout = t /\ c.limit = n /\ c.lease = l
  BY CallHasFields
<1>2. Q!Arg(c) = <<words>>
  BY <1>1 DEF Q!Arg, Q!Text
<1> HIDE DEF words
<1>3. Q!Arg(c)[1] = words /\ IsText(Q!Arg(c))
  BY <1>2 DEF IsText
<1>4. IsText(k)
  BY TextsAreTexts, BoundsAssumption
<1>5. ok \in BOOLEAN
  OBVIOUS
<1>6. ok => Q!ValidPrefix(p)
  BY DEF Q!ValidPrefixLimit, Q!ValidPrefix
<1>7. Q!EncodesLines(c) /\ Q!ValidPrefix(p) =>
        (Q!ReadCall([op |-> "l", prefix |-> p], k[1], words) = Q!Some(c) <=> ok)
  <2> SUFFICES ASSUME Q!EncodesLines(c), Q!ValidPrefix(p)
               PROVE  Q!ReadCall([op |-> "l", prefix |-> p], k[1], words) = Q!Some(c) <=> ok
    OBVIOUS
  <2>1. k = <<k[1]>> /\ k = Q!Text(k[1])
    BY <1>1, <1>4, LinesOfText DEF Q!EncodesLines, Q!Text
  <2>2. Q!ReadCall([op |-> "l", prefix |-> p], k[1], words) = Q!Some(c)
          <=> /\ Q!ValidPrefixLimit(p, n) /\ Q!ValidTimeout(t) /\ Q!ValidLease(l)
              /\ Arrives(k[1], words)
    BY <2>1, AcquireIsRead DEF words
  <2>3. Q!ValidWord(k) <=> Q!Fits(k[1], MaxLine) /\ Len(k[1]) = 1
    BY <2>1, LinesFit, Zenon
  <2>4. Q!OneLine(Q!Arg(c), MaxLine) <=> Q!Fits(words, MaxLine)
    BY <1>2, LinesFit
  <2> QED
    BY <2>2, <2>3, <2>4, Zenon DEF Arrives
<1> HIDE DEF ok
<1>8. ~ Q!Misread(c) <=> ok /\ Q!EncodesLines(c)
  BY <1>1, <1>3, <1>4, <1>5, <1>6, <1>7, PrefixedIsRead
<1> QED
  BY <1>8 DEF ok

(* enqueue()                                                               *)
LEMMA EnqueueAccepts ==
    ASSUME NEW p \in Q!Prefixes, NEW k \in Q!Texts(MaxLine),
           NEW n \in Q!Optional, NEW l \in Q!Optional,
           NEW c, c = Q!Call("e", p, k, Q!NoToken, Q!NoTime, n, l)
    PROVE  ~ Q!Misread(c) <=>
              /\ Q!ValidPrefixLimit(p, n) /\ Q!ValidWord(k)
              /\ Q!ValidLease(l) /\ Q!OneLine(Q!Arg(c), MaxLine)
              /\ Q!EncodesLines(c)
<1> DEFINE words == Q!AppendOptional(Q!AppendOptional(<< >>, n), l)
           ok == /\ Q!ValidPrefixLimit(p, n) /\ Q!ValidWord(k)
                 /\ Q!ValidLease(l) /\ Q!OneLine(Q!Arg(c), MaxLine)
<1>1. /\ c.op = "e" /\ c.prefix = p /\ c.key = k
      /\ c.limit = n /\ c.lease = l
  BY CallHasFields
<1>2. Q!Arg(c) = <<words>>
  BY <1>1 DEF Q!Arg, Q!Text
<1> HIDE DEF words
<1>3. Q!Arg(c)[1] = words /\ IsText(Q!Arg(c))
  BY <1>2 DEF IsText
<1>4. IsText(k)
  BY TextsAreTexts, BoundsAssumption
<1>5. ok \in BOOLEAN
  OBVIOUS
<1>6. ok => Q!ValidPrefix(p)
  BY DEF Q!ValidPrefixLimit, Q!ValidPrefix
<1>7. Q!EncodesLines(c) /\ Q!ValidPrefix(p) =>
        (Q!ReadCall([op |-> "e", prefix |-> p], k[1], words) = Q!Some(c) <=> ok)
  <2> SUFFICES ASSUME Q!EncodesLines(c), Q!ValidPrefix(p)
               PROVE  Q!ReadCall([op |-> "e", prefix |-> p], k[1], words) = Q!Some(c) <=> ok
    OBVIOUS
  <2>1. k = <<k[1]>> /\ k = Q!Text(k[1])
    BY <1>1, <1>4, LinesOfText DEF Q!EncodesLines, Q!Text
  <2>2. Q!ReadCall([op |-> "e", prefix |-> p], k[1], words) = Q!Some(c)
          <=> /\ Q!ValidPrefixLimit(p, n) /\ Q!ValidLease(l)
              /\ Arrives(k[1], words)
    BY <2>1, EnqueueIsRead DEF words
  <2>3. Q!ValidWord(k) <=> Q!Fits(k[1], MaxLine) /\ Len(k[1]) = 1
    BY <2>1, LinesFit, Zenon
  <2>4. Q!OneLine(Q!Arg(c), MaxLine) <=> Q!Fits(words, MaxLine)
    BY <1>2, LinesFit
  <2> QED
    BY <2>2, <2>3, <2>4, Zenon DEF Arrives
<1> HIDE DEF ok
<1>8. ~ Q!Misread(c) <=> ok /\ Q!EncodesLines(c)
  BY <1>1, <1>3, <1>4, <1>5, <1>6, <1>7, PrefixedIsRead
<1> QED
  BY <1>8 DEF ok

(* wait()                                                                  *)
LEMMA WaitAccepts ==
    ASSUME NEW p \in Q!Prefixes, NEW k \in Q!Texts(MaxLine), NEW t \in Q!Numbers,
           NEW c, c = Q!Call("w", p, k, Q!NoToken, t, Q!None, Q!None)
    PROVE  ~ Q!Misread(c) <=>
              /\ Q!ValidPrefix(p) /\ Q!ValidWord(k)
              /\ Q!ValidTimeout(t) /\ Q!OneLine(Q!Arg(c), MaxLine)
              /\ Q!EncodesLines(c)
<1> DEFINE words == <<Q!Str(t)>>
           ok == /\ Q!ValidPrefix(p) /\ Q!ValidWord(k)
                 /\ Q!ValidTimeout(t) /\ Q!OneLine(Q!Arg(c), MaxLine)
<1>1. c.op = "w" /\ c.prefix = p /\ c.key = k /\ c.timeout = t
  BY CallHasFields
<1>2. Q!Arg(c) = <<words>>
  BY <1>1 DEF Q!Arg, Q!Text
<1> HIDE DEF words
<1>3. Q!Arg(c)[1] = words /\ IsText(Q!Arg(c))
  BY <1>2 DEF IsText
<1>4. IsText(k)
  BY TextsAreTexts, BoundsAssumption
<1>5. ok \in BOOLEAN /\ (ok => Q!ValidPrefix(p))
  OBVIOUS
<1>6. Q!EncodesLines(c) /\ Q!ValidPrefix(p) =>
        (Q!ReadCall([op |-> "w", prefix |-> p], k[1], words) = Q!Some(c) <=> ok)
  <2> SUFFICES ASSUME Q!EncodesLines(c), Q!ValidPrefix(p)
               PROVE  Q!ReadCall([op |-> "w", prefix |-> p], k[1], words) = Q!Some(c) <=> ok
    OBVIOUS
  <2>1. k = <<k[1]>> /\ k = Q!Text(k[1])
    BY <1>1, <1>4, LinesOfText DEF Q!EncodesLines, Q!Text
  <2>2. Q!ReadCall([op |-> "w", prefix |-> p], k[1], words) = Q!Some(c)
          <=> Q!ValidTimeout(t) /\ Arrives(k[1], words)
    BY <2>1, WaitIsRead DEF words
  <2>3. Q!ValidWord(k) <=> Q!Fits(k[1], MaxLine) /\ Len(k[1]) = 1
    BY <2>1, LinesFit, Zenon
  <2>4. Q!OneLine(Q!Arg(c), MaxLine) <=> Q!Fits(words, MaxLine)
    BY <1>2, LinesFit
  <2> QED
    BY <2>2, <2>3, <2>4, Zenon DEF Arrives
<1> HIDE DEF ok
<1>7. ~ Q!Misread(c) <=> ok /\ Q!EncodesLines(c)
  BY <1>1, <1>3, <1>4, <1>5, <1>6, PrefixedIsRead
<1> QED
  BY <1>7 DEF ok

(* release()                                                               *)
LEMMA ReleaseAccepts ==
    ASSUME NEW p \in Q!Prefixes, NEW k \in Q!Texts(MaxLine), NEW tok \in Q!Texts(MaxLine),
           NEW c, c = Q!Call("r", p, k, tok, Q!NoTime, Q!None, Q!None)
    PROVE  ~ Q!Misread(c) <=>
              /\ Q!ValidPrefix(p) /\ Q!ValidWord(k) /\ Q!ValidWord(tok)
              /\ Q!EncodesLines(c)
<1> DEFINE ok == Q!ValidPrefix(p) /\ Q!ValidWord(k) /\ Q!ValidWord(tok)
<1>1. c.op = "r" /\ c.prefix = p /\ c.key = k /\ c.token = tok
  BY CallHasFields
<1>2. Q!Arg(c) = tok
  BY <1>1 DEF Q!Arg
<1>3. IsText(k) /\ IsText(tok)
  BY TextsAreTexts, BoundsAssumption
<1>4. ok \in BOOLEAN /\ (ok => Q!ValidPrefix(p))
  OBVIOUS
<1>5. Q!EncodesLines(c) /\ Q!ValidPrefix(p) =>
        (Q!ReadCall([op |-> "r", prefix |-> p], k[1], tok[1]) = Q!Some(c) <=> ok)
  <2> SUFFICES ASSUME Q!EncodesLines(c), Q!ValidPrefix(p)
               PROVE  Q!ReadCall([op |-> "r", prefix |-> p], k[1], tok[1]) = Q!Some(c) <=> ok
    OBVIOUS
  <2>1. k = <<k[1]>> /\ k = Q!Text(k[1]) /\ tok = <<tok[1]>>
    BY <1>1, <1>2, <1>3, LinesOfText DEF Q!EncodesLines, Q!Text
  <2>2. Q!ReadCall([op |-> "r", prefix |-> p], k[1], tok[1]) = Q!Some(c)
          <=> Arrives(k[1], tok[1]) /\ Len(tok[1]) = 1
    BY <2>1, ReleaseIsRead
  <2>3. Q!ValidWord(k) <=> Q!Fits(k[1], MaxLine) /\ Len(k[1]) = 1
    BY <2>1, LinesFit, Zenon
  <2>4. Q!ValidWord(tok) <=> Q!Fits(tok[1], MaxLine) /\ Len(tok[1]) = 1
    BY <2>1, LinesFit, Zenon
  <2> QED
    BY <2>2, <2>3, <2>4, Zenon DEF Arrives
<1> HIDE DEF ok
<1>6. ~ Q!Misread(c) <=> ok /\ Q!EncodesLines(c)
  BY <1>1, <1>2, <1>3, <1>4, <1>5, PrefixedIsRead
<1> QED
  BY <1>6 DEF ok

(* A word put behind the last line of a text.                              *)
LEMMA BehindText ==
    ASSUME NEW tok, IsText(tok), NEW l
    PROVE  /\ IsText(Q!WithOptional(tok, l))
           /\ Len(Q!WithOptional(tok, l)) = Len(tok)
           /\ Len(tok) = 1 => Q!WithOptional(tok, l) = <<Q!AppendOptional(tok[1], l)>>
<1>1. ASSUME NEW a, tok = <<a>>
      PROVE  Q!WithOptional(tok, l) = <<Q!AppendOptional(tok[1], l)>>
  <2>1. Len(<<a>>) = 1 /\ <<a>>[1] = a
    OBVIOUS
  <2>2. ASSUME NEW e PROVE [<<a>> EXCEPT ![1] = e] = <<e>>
    OBVIOUS
  <2> QED
    BY <1>1, <2>1, <2>2 DEF Q!WithOptional
<1>2. ASSUME NEW a, NEW b, tok = <<a, b>>
      PROVE  IsText(Q!WithOptional(tok, l)) /\ Len(Q!WithOptional(tok, l)) = 2
  <2>1. Len(<<a, b>>) = 2 /\ <<a, b>>[2] = b
    OBVIOUS
  <2>2. ASSUME NEW e PROVE [<<a, b>> EXCEPT ![2] = e] = <<a, e>>
    OBVIOUS
  <2>3. Q!WithOptional(tok, l) = <<a, Q!AppendOptional(b, l)>>
    BY <1>2, <2>1, <2>2 DEF Q!WithOptional
  <2> QED
    BY <2>3 DEF IsText
<1>3. CASE \E a : tok = <<a>>
  <2>1. PICK a : tok = <<a>>
    BY <1>3
  <2>2. Q!WithOptional(tok, l) = <<Q!AppendOptional(tok[1], l)>>
    BY <1>1, <2>1
  <2>3. Len(tok) = 1
    BY <2>1
  <2> QED
    BY <2>2, <2>3 DEF IsText
<1>4. CASE \E a, b : tok = <<a, b>>
  <2>1. PICK a, b : tok = <<a, b>>
    BY <1>4
  <2>2. IsText(Q!WithOptional(tok, l)) /\ Len(Q!WithOptional(tok, l)) = 2
    BY <1>2, <2>1
  <2>3. Len(tok) = 2
    BY <2>1
  <2> QED
    BY <2>2, <2>3
<1> QED
  BY <1>3, <1>4 DEF IsText

(* renew(), whose third line is the token with a lease behind it.          *)
LEMMA RenewAccepts ==
    ASSUME NEW p \in Q!Prefixes, NEW k \in Q!Texts(MaxLine), NEW tok \in Q!Texts(MaxLine),
           NEW l \in Q!Optional,
           NEW c, c = Q!Call("n", p, k, tok, Q!NoTime, Q!None, l)
    PROVE  ~ Q!Misread(c) <=>
              /\ Q!ValidPrefix(p) /\ Q!ValidWord(k)
              /\ Q!ValidWord(tok) /\ Q!ValidLease(l) /\ Q!OneLine(Q!Arg(c), MaxLine)
              /\ Q!EncodesLines(c)
<1> DEFINE words == Q!AppendOptional(tok[1], l)
           ok == /\ Q!ValidPrefix(p) /\ Q!ValidWord(k)
                 /\ Q!ValidWord(tok) /\ Q!ValidLease(l) /\ Q!OneLine(Q!Arg(c), MaxLine)
<1>1. c.op = "n" /\ c.prefix = p /\ c.key = k /\ c.token = tok /\ c.lease = l
  BY CallHasFields
<1>2. IsText(k) /\ IsText(tok) /\ (Len(tok) = 1 => IsLine(tok[1]))
  BY TextsAreTexts, BoundsAssumption
<1>3. Q!Arg(c) = Q!WithOptional(tok, l)
  BY <1>1 DEF Q!Arg
<1>4. /\ IsText(Q!Arg(c)) /\ Len(Q!Arg(c)) = Len(tok)
      /\ Len(tok) = 1 => Q!Arg(c) = <<words>>
  BY <1>2, <1>3, BehindText
<1>5. ok \in BOOLEAN /\ (ok => Q!ValidPrefix(p))
  OBVIOUS
<1>6. Q!EncodesLines(c) /\ Q!ValidPrefix(p) =>
        (Q!ReadCall([op |-> "n", prefix |-> p], k[1], Q!Arg(c)[1]) = Q!Some(c) <=> ok)
  <2> SUFFICES ASSUME Q!EncodesLines(c), Q!ValidPrefix(p)
               PROVE  Q!ReadCall([op |-> "n", prefix |-> p], k[1], Q!Arg(c)[1]) = Q!Some(c)
                        <=> ok
    OBVIOUS
  <2>1. k = <<k[1]>> /\ k = Q!Text(k[1]) /\ tok = <<tok[1]>> /\ Len(tok) = 1
    BY <1>1, <1>2, <1>4, LinesOfText DEF Q!EncodesLines, Q!Text
  <2>2. Q!ReadCall([op |-> "n", prefix |-> p], k[1], words) = Q!Some(c)
          <=> Q!ValidWord(tok) /\ Q!ValidLease(l) /\ Arrives(k[1], words)
    BY <1>2, <2>1, RenewIsRead
  <2>3. Q!ValidWord(k) <=> Q!Fits(k[1], MaxLine) /\ Len(k[1]) = 1
    BY <2>1, LinesFit, Zenon
  <2> HIDE DEF words
  <2>4. Q!Arg(c) = <<words>> /\ Q!Arg(c)[1] = words
    BY <1>4, <2>1
  <2>5. Q!OneLine(Q!Arg(c), MaxLine) <=> Q!Fits(words, MaxLine)
    BY <2>4, LinesFit
  <2> QED
    BY <2>2, <2>3, <2>4, <2>5, Zenon DEF Arrives
<1> HIDE DEF ok
<1>7. ~ Q!Misread(c) <=> ok /\ Q!EncodesLines(c)
  BY <1>1, <1>2, <1>4, <1>5, <1>6, PrefixedIsRead
<1> QED
  BY <1>7 DEF ok

(* authenticate()                                                          *)
LEMMA AuthenticateAccepts ==
    ASSUME NEW tok \in Q!Texts(MaxAuth),
           NEW c, c = Q!Call("auth", "", Q!NoKey, tok, Q!NoTime, Q!None, Q!None)
    PROVE  ~ Q!Misread(c) <=> Q!OneLine(tok, MaxAuth) /\ Q!EncodesLines(c)
<1>1. c.op = "auth" /\ c.prefix = "" /\ c.key = Q!NoKey /\ c.token = tok
  BY DEF Q!Call
<1>2. Q!Arg(c) = tok
  BY <1>1 DEF Q!Arg
<1>3. IsText(Q!NoKey) /\ IsText(tok) /\ Q!NoKey = Q!Text(Q!NoKey[1])
  BY TextsAreTexts, BoundsAssumption DEF IsText, Q!NoKey, Q!Text
<1>4. "auth" \in Q!Ops /\ "" \in Q!Prefixes /\ [op |-> "auth", prefix |-> ""] \in Q!Commands
  BY CommandsByPrefix DEF Q!Ops, Q!Prefixes
<1>5. ~ Q!Misread(c) <=>
        /\ Q!EncodesLines(c)
        /\ Q!ReadCall([op |-> "auth", prefix |-> ""], Q!NoKey[1], tok[1]) = Q!Some(c)
  BY <1>1, <1>2, <1>3, <1>4, ReadOrMisread
<1>6. ASSUME Q!EncodesLines(c)
      PROVE  Q!ReadCall([op |-> "auth", prefix |-> ""], Q!NoKey[1], tok[1]) = Q!Some(c)
               <=> Q!OneLine(tok, MaxAuth)
  <2>1. tok = <<tok[1]>>
    BY <1>2, <1>3, <1>6, LinesOfText DEF Q!EncodesLines
  <2>2. Q!ReadCall([op |-> "auth", prefix |-> ""], Q!NoKey[1], tok[1]) = Q!Some(c)
          <=> Q!Fits(tok[1], MaxAuth)
    BY <1>3, <2>1, AuthenticateIsRead
  <2>3. Q!OneLine(tok, MaxAuth) <=> Q!Fits(tok[1], MaxAuth)
    BY <2>1, LinesFit, Zenon
  <2> QED
    BY <2>2, <2>3, Zenon
<1> QED
  BY <1>5, <1>6, Zenon

(* stats(), which has nothing to validate.                                 *)
LEMMA StatsAccepts == ~ Q!Misread(Q!AskStats) /\ Q!EncodesLines(Q!AskStats)
<1> DEFINE c == Q!AskStats
           words == <<Q!Name("_")>>
<1>1. c.op = "stats" /\ c.prefix = "" /\ c.key = Q!NoKey
  BY DEF Q!AskStats, Q!Call
<1>2. c = Q!Call("stats", "", Q!NoKey, Q!NoToken, Q!NoTime, Q!None, Q!None)
  BY DEF Q!AskStats
<1> HIDE DEF c
<1>3. Q!Arg(c) = <<words>>
  BY <1>1 DEF Q!Arg, Q!Text
<1>4. Q!NoKey = <<words>>
  BY DEF Q!NoKey, Q!Text
<1>5. IsText(Q!NoKey) /\ IsText(Q!Arg(c)) /\ Q!NoKey = Q!Text(Q!NoKey[1])
      /\ Len(<<words>>) = 1
  BY <1>3, <1>4 DEF IsText, Q!Text
<1>6. "stats" \in Q!Ops /\ "" \in Q!Prefixes /\ [op |-> "stats", prefix |-> ""] \in Q!Commands
  BY CommandsByPrefix DEF Q!Ops, Q!Prefixes
<1>7. Q!EncodesLines(c)
  BY <1>1, <1>3, <1>4, <1>5 DEF Q!EncodesLines
<1>8. Q!ReadCall([op |-> "stats", prefix |-> ""], Q!NoKey[1], Q!Arg(c)[1]) = Q!Some(c)
  BY <1>2, <1>5, StatsIsRead
<1> QED
  BY <1>1, <1>5, <1>6, <1>7, <1>8, ReadOrMisread DEF c

-----------------------------------------------------------------------------
(* What is under way, and how it was accepted or refused.                  *)
RequestInv ==
    /\ sending \in {"new", "sent", "refused", "read"}
    /\ sending = "sent" => wire = Q!Frame(asked) /\ ~ Q!Misread(asked)
    /\ sending = "refused" => Q!Misread(asked)
    /\ sending = "read" => Q!ReadAsAsked

(* The validators let through what the server reads as it was asked for,   *)
(* and nothing else.                                                       *)
LEMMA AcceptKeeps ==
    ASSUME NEW c, NEW ok, ~ Q!Misread(c) <=> ok /\ Q!EncodesLines(c), Q!Accept(c, ok)
    PROVE  RequestInv'
  BY DEF Q!Accept, RequestInv

(* An accepted request is under way as it was framed, and not misread;     *)
(* a refused one would have been.                                          *)
THEOREM RequestInvariance == Spec => []RequestInv
<1>1. Init => RequestInv
  BY DEF Init, Q!Init, RequestInv
<1>2. RequestInv /\ [Next]_<<request, response>> => RequestInv'
  <2> SUFFICES ASSUME RequestInv, [Next]_<<request, response>> PROVE RequestInv'
    OBVIOUS
  <2>1. CASE Q!Acquire
    <3>1. PICK p \in Q!Prefixes, k \in Q!Texts(MaxLine), t \in Q!Numbers,
               n \in Q!Optional, l \in Q!Optional :
             LET c == Q!Call("l", p, k, Q!NoToken, t, n, l)
             IN Q!Accept(c, /\ Q!ValidPrefixLimit(p, n) /\ Q!ValidWord(k)
                            /\ Q!ValidTimeout(t) /\ Q!ValidLease(l)
                            /\ Q!OneLine(Q!Arg(c), MaxLine))
      BY <2>1 DEF Q!Acquire
    <3> DEFINE c == Q!Call("l", p, k, Q!NoToken, t, n, l)
               ok == /\ Q!ValidPrefixLimit(p, n) /\ Q!ValidWord(k)
                     /\ Q!ValidTimeout(t) /\ Q!ValidLease(l)
                     /\ Q!OneLine(Q!Arg(c), MaxLine)
    <3>2. ~ Q!Misread(c) <=> ok /\ Q!EncodesLines(c)
      BY AcquireAccepts
    <3>3. Q!Accept(c, ok)
      BY <3>1
    <3> HIDE DEF c, ok
    <3> QED
      BY <3>2, <3>3, AcceptKeeps
  <2>2. CASE Q!Release
    BY <2>2, ReleaseAccepts, AcceptKeeps DEF Q!Release
  <2>3. CASE Q!Renew
    BY <2>3, RenewAccepts, AcceptKeeps DEF Q!Renew
  <2>4. CASE Q!Enqueue
    BY <2>4, EnqueueAccepts, AcceptKeeps DEF Q!Enqueue
  <2>5. CASE Q!Wait
    BY <2>5, WaitAccepts, AcceptKeeps DEF Q!Wait
  <2>6. CASE Q!Authenticate
    BY <2>6, AuthenticateAccepts, AcceptKeeps DEF Q!Authenticate
  <2>7. CASE Q!Stats
    BY <2>7, StatsAccepts, AcceptKeeps DEF Q!Stats
  <2>8. CASE Q!ServerReads
    <3>1. Len(wire) = 3 /\ Q!ReadFrame(wire) = Q!Some(asked)
      BY <2>8 DEF Q!ServerReads, RequestInv, Q!Misread
    <3>2. SubSeq(wire, 4, Len(wire)) = << >>
      BY <3>1, SubSeqEmpty
    <3> QED
      BY <2>8, <3>1, <3>2 DEF Q!ServerReads, RequestInv, Q!ReadAsAsked
  <2>9. CASE UNCHANGED request
    BY <2>9 DEF request, RequestInv, Q!ReadAsAsked
  <2>10. Q!Over => UNCHANGED request
    BY DEF Q!Over, Q!vars, request
  <2> QED
    BY <2>1, <2>2, <2>3, <2>4, <2>5, <2>6, <2>7, <2>8, <2>9, <2>10
       DEF Next, Q!Next, request, response
<1> QED
  BY <1>1, <1>2, PTL DEF Spec

(* However long a line may be and whatever the limits, a request that is   *)
(* sent is read back as it was asked for, argument by argument.            *)
THEOREM RequestsAreReadAsAsked == Spec => []ReadAsAsked
<1>1. RequestInv => ReadAsAsked
  BY DEF RequestInv, ReadAsAsked, Q!ReadAsAsked
<1> QED
  BY <1>1, RequestInvariance, PTL

(* The validators refuse nothing that the server would have understood.    *)
THEOREM OnlyMisreadIsRefused == Spec => []RefusesOnlyMisread
<1>1. RequestInv => RefusesOnlyMisread
  BY DEF RequestInv, RefusesOnlyMisread, Q!RefusesOnlyMisread
<1> QED
  BY <1>1, RequestInvariance, PTL
=============================================================================
