---------------------------- MODULE RenewTiming ----------------------------
(***************************************************************************)
(* The clock that SyncLock leaves out: one held lock, its renew worker     *)
(* (_renew_loop and renew_interval of _sync.py; _async.py's loop has the   *)
(* same times), and the lease that runs out at the server (external)       *)
(* meanwhile.  Time passes in ticks, Sec of them to a second.  How late    *)
(* the operating system runs a thread, and how long a message travels, are *)
(* bounded here; no code bounds them, so every property names the bounds.  *)
(***************************************************************************)
EXTENDS Integers

CONSTANTS Sec,           \* ticks to a second
          Num, Den,      \* renew_ratio is Num / Den
          Leases,        \* lease TTLs a server may grant, in seconds
          MaxDelay,      \* bound: ticks a message travels, unless it is lost
          MaxLate        \* bound: ticks a thread runs after it is due

ASSUME ClockAssumption == Sec \in Nat \ {0} /\ MaxDelay \in Nat /\ MaxLate \in Nat
ASSUME RatioAssumption == Num \in Nat \ {0} /\ Den \in Nat \ {0} /\ Num < Den
ASSUME LeasesAssumption == Leases \subseteq Nat \ {0}

VARIABLES ttl,      \* the lease the server grants and renews for
          left,     \* ticks to its end at the server; 0: it has expired
          worker,   \* "asleep", "waiting" (for an answer) or "ended"
          timer,    \* ticks until the worker wakes or its read times out
          late,     \* ticks by which it is late
          msg,      \* what is under way; "lost", to the end, once it was lost
          age,      \* since when
          over      \* ticks the client has held on after the lease's end

vars == <<ttl, left, worker, timer, late, msg, age, over>>

Held == worker # "ended"   \* self.token is set

AtLeast(n, low) == IF n < low THEN low ELSE n

(* lease * renew_ratio seconds, in ticks.                                  *)
Due(l) == (l * Sec * Num) \div Den

(* renew_interval, with its fallback and its floor of one second.          *)
RatioIgnored(l) == l * Sec   \* mutant: renew when the lease is up

RenewInterval(l) == AtLeast(Due(IF l > 0 THEN l ELSE 30), Sec)

SlackTimeout == 30 * Sec     \* mutant: renew()'s default, _IO_SLACK_S

ReadTimeout == 5 * Sec       \* _RENEW_READ_TIMEOUT_S

(* The grant has reached the client and _start_renew has run.              *)
Init ==
    /\ ttl \in Leases
    /\ \E d \in 0 .. MaxDelay : left = AtLeast(ttl * Sec - d, 0)
    /\ worker = "asleep" /\ timer = RenewInterval(ttl) /\ late = 0
    /\ msg = "none" /\ age = 0 /\ over = 0

InTime ==
    /\ worker # "ended" /\ timer = 0 => late < MaxLate
    /\ msg \in {"request", "renewed", "refused"} => age < MaxDelay

Tick ==
    /\ Held /\ InTime
    /\ left' = AtLeast(left - 1, 0)
    /\ timer' = AtLeast(timer - 1, 0)
    /\ late' = IF timer = 0 THEN late + 1 ELSE 0
    /\ age' = IF msg \in {"none", "lost"} THEN 0 ELSE age + 1
    /\ over' = IF left = 0 THEN over + 1 ELSE 0
    /\ UNCHANGED <<ttl, worker, msg>>

(* `active_stop_event.wait(interval)' is over: _renew_tick sends.          *)
SendRenew ==
    /\ worker = "asleep" /\ timer = 0
    /\ worker' = "waiting" /\ timer' = ReadTimeout /\ late' = 0
    /\ msg' = "request" /\ age' = 0
    /\ UNCHANGED <<ttl, left, over>>

(* `interval = renew_interval(remaining, ...)'; _update_lease.             *)
Renewed ==
    /\ worker = "waiting" /\ msg = "renewed"
    /\ worker' = "asleep" /\ timer' = RenewInterval(ttl) /\ late' = 0
    /\ msg' = "none" /\ age' = 0
    /\ UNCHANGED <<ttl, left, over>>

(* An error status, or the read timed out: _handle_renew_failure gives the *)
(* lock up at once, there is no second try.                                *)
RenewFails ==
    /\ worker = "waiting"
    /\ msg = "refused" \/ timer = 0
    /\ worker' = "ended"
    /\ msg' = IF msg = "lost" THEN "lost" ELSE "none"
    /\ age' = 0 /\ timer' = 0 /\ late' = 0
    /\ UNCHANGED <<ttl, left, over>>

(* The server renews for the same TTL, unless the lease has expired.       *)
ServerRenews ==
    /\ msg = "request" /\ left > 0
    /\ left' = ttl * Sec
    /\ msg' = "renewed" /\ age' = 0
    /\ UNCHANGED <<ttl, worker, timer, late, over>>

ServerRefuses ==
    /\ msg = "request" /\ left = 0
    /\ msg' = "refused" /\ age' = 0
    /\ UNCHANGED <<ttl, left, worker, timer, late, over>>

(* A message is lost, or a server hangs.                                   *)
Lose ==
    /\ msg \in {"request", "renewed", "refused"}
    /\ msg' = "lost" /\ age' = 0
    /\ UNCHANGED <<ttl, left, worker, timer, late, over>>

Lost == ~Held /\ UNCHANGED vars

Next ==
    \/ Tick \/ SendRenew \/ Renewed \/ RenewFails
    \/ ServerRenews \/ ServerRefuses \/ Lose \/ Lost

Spec == Init /\ [][Next]_vars

-----------------------------------------------------------------------------
TypeOK ==
    /\ ttl \in Leases
    /\ left \in 0 .. ttl * Sec
    /\ worker \in {"asleep", "waiting", "ended"}
    /\ timer \in Nat /\ late \in 0 .. MaxLate
    /\ msg \in {"none", "request", "renewed", "refused", "lost"}
    /\ age \in 0 .. MaxDelay
    /\ over \in Nat

(* A lease long enough for its renewal to arrive in time, by the interval  *)
(* `lease * renew_ratio' of docs/client/sync.md, which renew_interval keeps*)
(* to only where that is a second or more.                                 *)
LongEnough == Due(ttl) >= Sec /\ Due(ttl) + MaxLate + 2 * MaxDelay < ttl * Sec

(* As long as no message is lost, a lock whose lease is long enough never  *)
(* lapses at the server, and is never given up.                            *)
NeverLapses == msg # "lost" /\ LongEnough /\ MaxDelay * 2 < 5 * Sec => Held /\ left > 0

(* Whatever is lost, the client goes on believing in an expired lease for a*)
(* bounded time only: until the next renewal is due and its read, of five  *)
(* seconds, has timed out.                                                 *)
OverrunBounded ==
    Due(ttl) >= Sec =>
        over <= AtLeast(Due(ttl) + 5 * Sec + 2 * MaxLate + MaxDelay - ttl * Sec, 0)
=============================================================================
