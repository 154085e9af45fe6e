------------------------- MODULE RenewTimingProofs -------------------------
(***************************************************************************)
(* That renewals come in time, for every TTL, ratio, delay and clock: the  *)
(* lease of a lock that is held, if it is long enough for its renewal to   *)
(* arrive and no message is lost, never runs out.                          *)
(***************************************************************************)
EXTENDS RenewTiming, TLAPS

Life == ttl * Sec

(* What the worker's clock says of the lease's end at the server, at each  *)
(* point of a round: asleep, with the request under way, with the answer.  *)
Round ==
    /\ worker \in {"asleep", "waiting"}
    /\ worker = "asleep" =>
          /\ msg = "none"
          /\ timer <= Due(ttl) /\ (timer > 0 => late = 0)
          /\ left >= Life - MaxDelay - (Due(ttl) - timer) - late
    /\ worker = "waiting" =>
          /\ msg \in {"request", "renewed"}
          /\ msg = "request" =>
                /\ timer >= 5 * Sec - age
                /\ left >= Life - MaxDelay - Due(ttl) - MaxLate - age
          /\ msg = "renewed" =>
                /\ timer >= 5 * Sec - MaxDelay - age
                /\ left >= Life - age

InTimeToRead == MaxDelay * 2 < 5 * Sec

(* Nothing is under way, or lost, while the worker sleeps.                 *)
Courier == worker = "asleep" => msg = "none"

IInv ==
    /\ TypeOK /\ Courier
    /\ msg # "lost" /\ LongEnough /\ InTimeToRead => Round

-----------------------------------------------------------------------------
(* The interval and the TTL are whole numbers of ticks.                    *)
LEMMA TicksAreNat ==
    ASSUME NEW l \in Nat \ {0}
    PROVE  /\ l * Sec \in Nat \ {0} /\ Due(l) \in Nat
           /\ RenewInterval(l) \in Nat
           /\ Due(l) >= Sec => RenewInterval(l) = Due(l)
<1>1. l * Sec \in Nat \ {0}
  BY ClockAssumption
<1>2. (l * Sec) * Num \in Nat
  BY <1>1, RatioAssumption
<1>3. Due(l) \in Nat
  BY <1>2, RatioAssumption DEF Due
<1>4. RenewInterval(l) = AtLeast(Due(l), Sec)
  BY DEF RenewInterval
<1> QED
  BY <1>1, <1>3, <1>4, ClockAssumption DEF AtLeast

(* The grant reaches the client.                                           *)
LEMMA InitInv == Init => IInv
<1> SUFFICES ASSUME Init PROVE IInv
  OBVIOUS
<1>1. ttl \in Nat \ {0} /\ ttl \in Leases
  BY LeasesAssumption DEF Init
<1> DEFINE L == ttl * Sec
           D == Due(ttl)
           R == RenewInterval(ttl)
<1>2. L \in Nat \ {0} /\ D \in Nat /\ R \in Nat /\ (D >= Sec => R = D)
  BY <1>1, TicksAreNat
<1>3. PICK d \in 0 .. MaxDelay : left = AtLeast(L - d, 0)
  BY DEF Init
<1> HIDE DEF L, D, R
<1>4. left \in 0 .. L /\ left >= L - MaxDelay
  BY <1>2, <1>3, ClockAssumption DEF AtLeast
<1>5. TypeOK
  BY <1>1, <1>2, <1>4, ClockAssumption DEF TypeOK, Init, L, R
<1>6. LongEnough => Round
  BY <1>2, <1>4, ClockAssumption DEF LongEnough, Round, Life, Init, L, D, R
<1>7. Courier
  BY DEF Init, Courier
<1> QED
  BY <1>5, <1>6, <1>7 DEF IInv

(* The types are preserved.                                                *)
LEMMA NextTypes == TypeOK /\ [Next]_vars => TypeOK'
<1> SUFFICES ASSUME TypeOK, [Next]_vars PROVE TypeOK'
  OBVIOUS
<1>1. ttl \in Nat \ {0} /\ ttl * Sec \in Nat \ {0} /\ RenewInterval(ttl) \in Nat
  BY LeasesAssumption, TicksAreNat DEF TypeOK
<1>2. ReadTimeout \in Nat
  BY ClockAssumption DEF ReadTimeout
<1> USE ClockAssumption DEF TypeOK, AtLeast
<1>3. CASE Tick
  BY <1>1, <1>3 DEF Tick, InTime, Held
<1>4. CASE SendRenew
  BY <1>1, <1>2, <1>4 DEF SendRenew
<1>5. CASE Renewed
  BY <1>1, <1>5 DEF Renewed
<1>6. CASE RenewFails
  BY <1>1, <1>6 DEF RenewFails
<1>7. CASE ServerRenews
  BY <1>1, <1>7 DEF ServerRenews
<1>8. CASE ServerRefuses
  BY <1>1, <1>8 DEF ServerRefuses
<1>9. CASE Lose
  BY <1>1, <1>9 DEF Lose
<1>10. CASE Lost \/ UNCHANGED vars
  BY <1>10 DEF Lost, vars
<1> QED
  BY <1>3, <1>4, <1>5, <1>6, <1>7, <1>8, <1>9, <1>10 DEF Next

(* A message, and its loss, belongs to one round: what was lost stays lost.*)
LEMMA NextCourier ==
    ASSUME Courier, [Next]_vars
    PROVE  Courier' /\ (msg = "lost" => msg' = "lost")
<1>1. CASE Tick \/ Lost \/ UNCHANGED vars
  BY <1>1 DEF Tick, Lost, vars, Courier
<1>2. CASE SendRenew \/ Renewed \/ RenewFails
  BY <1>2 DEF SendRenew, Renewed, RenewFails, Courier
<1>3. CASE ServerRenews \/ ServerRefuses \/ Lose
  BY <1>3 DEF ServerRenews, ServerRefuses, Lose, Courier
<1> QED
  BY <1>1, <1>2, <1>3 DEF Next

(* A long enough lease has not run out at any point of a round.            *)
LEMMA RoundIsInTime ==
    ASSUME TypeOK, LongEnough, InTimeToRead, Round
    PROVE  Held /\ left > 0 /\ (worker = "waiting" => timer > 0)
<1> DEFINE L == ttl * Sec
           D == Due(ttl)
<1>1. L \in Nat \ {0} /\ D \in Nat
  BY LeasesAssumption, TicksAreNat DEF TypeOK
<1>2. D + MaxLate + 2 * MaxDelay < L
  BY DEF LongEnough
<1>3. /\ worker = "asleep" => left >= L - MaxDelay - (D - timer) - late
      /\ worker = "waiting" =>
            left >= L - MaxDelay - D - MaxLate - age \/ left >= L - age
  BY DEF Round, Life
<1> HIDE DEF L, D
<1>4. left \in Nat /\ timer \in Nat /\ age \in 0 .. MaxDelay /\ late \in 0 .. MaxLate
  BY <1>1 DEF TypeOK, L
<1>5. left > 0
  BY <1>1, <1>2, <1>3, <1>4, ClockAssumption DEF Round
<1>6. worker = "waiting" => timer > 0
  BY <1>4, ClockAssumption DEF Round, InTimeToRead
<1> QED
  BY <1>5, <1>6 DEF Round, Held

(* Every step of the round leaves the lease far enough from its end.       *)
LEMMA NextRound ==
    ASSUME TypeOK, LongEnough, InTimeToRead, Round, [Next]_vars, msg' # "lost"
    PROVE  Round'
<1> DEFINE L == ttl * Sec
           D == Due(ttl)
<1>1. L \in Nat \ {0} /\ D \in Nat /\ RenewInterval(ttl) = D
  BY LeasesAssumption, TicksAreNat DEF TypeOK, LongEnough
<1>2. Held /\ left > 0 /\ (worker = "waiting" => timer > 0)
  BY RoundIsInTime
<1>3. ttl' = ttl /\ Life = L /\ Life' = L /\ Due(ttl)' = D
  BY DEF Next, Tick, SendRenew, Renewed, RenewFails, ServerRenews, ServerRefuses,
         Lose, Lost, vars, Life, Due
<1>4. /\ left \in 0 .. L /\ timer \in Nat /\ late \in 0 .. MaxLate /\ age \in 0 .. MaxDelay
  BY DEF TypeOK
<1> HIDE DEF L, D
<1> USE <1>1, <1>3, <1>4, ClockAssumption
<1>5. CASE Tick
  BY <1>2, <1>5 DEF Tick, InTime, Round, AtLeast
<1>6. CASE SendRenew
  BY <1>2, <1>6 DEF SendRenew, Round, ReadTimeout
<1>7. CASE Renewed
  BY <1>2, <1>7 DEF Renewed, Round
<1>8. CASE ServerRenews
  BY <1>2, <1>8 DEF ServerRenews, Round, L
<1>9. CASE UNCHANGED vars
  BY <1>9 DEF vars, Round
<1>10. ~RenewFails /\ ~ServerRefuses /\ ~Lose /\ ~Lost
  BY <1>2 DEF RenewFails, ServerRefuses, Lose, Lost, Round
<1> QED
  BY <1>5, <1>6, <1>7, <1>8, <1>9, <1>10 DEF Next

(* IInv is inductive.                                                      *)
LEMMA NextInv == IInv /\ [Next]_vars => IInv'
<1> SUFFICES ASSUME IInv, [Next]_vars PROVE IInv'
  OBVIOUS
<1>1. ttl' = ttl
  BY DEF Next, Tick, SendRenew, Renewed, RenewFails, ServerRenews, ServerRefuses,
         Lose, Lost, vars
<1>2. LongEnough' = LongEnough
  BY <1>1 DEF LongEnough, Due
<1>3. msg' # "lost" => msg # "lost"
  BY NextCourier DEF IInv
<1> QED
  BY <1>2, <1>3, NextTypes, NextCourier, NextRound DEF IInv, InTimeToRead

(* A lock that is held stays leased, whatever the TTL, the ratio, the      *)
(* delays and the clock's grain: renew_interval leaves enough of the lease.*)
THEOREM LeaseNeverLapses == Spec => []NeverLapses
<1>1. IInv => NeverLapses
  BY RoundIsInTime DEF IInv, NeverLapses, InTimeToRead
<1> QED
  BY <1>1, InitInv, NextInv, PTL DEF Spec

-----------------------------------------------------------------------------
(* The other way round: what was lost may be anything, and the client's own*)
(* clocks bound the time since the server last granted or renewed.         *)
Unrenewed == Life - left + over

Overrun ==
    /\ timer > 0 => late = 0
    /\ left > 0 => over = 0
    /\ worker = "asleep" => Unrenewed <= MaxDelay + Due(ttl) - timer + late
    /\ worker = "waiting" =>
          /\ timer <= 5 * Sec
          /\ Unrenewed <= MaxDelay + Due(ttl) + MaxLate + 5 * Sec - timer + late
          /\ msg = "renewed" => Unrenewed <= age
    /\ worker = "ended" => Unrenewed <= MaxDelay + Due(ttl) + 2 * MaxLate + 5 * Sec

OInv == TypeOK /\ Courier /\ (Due(ttl) >= Sec => Overrun)

(* The grant, too, starts both counts within their bounds.                 *)
LEMMA InitOverrun == Init => OInv
<1> SUFFICES ASSUME Init PROVE OInv
  OBVIOUS
<1>1. TypeOK /\ Courier
  BY InitInv DEF IInv
<1>2. ttl * Sec \in Nat \ {0} /\ Due(ttl) \in Nat /\ (Due(ttl) >= Sec => RenewInterval(ttl) = Due(ttl))
  BY <1>1, LeasesAssumption, TicksAreNat DEF TypeOK
<1>3. PICK d \in 0 .. MaxDelay : left = AtLeast(ttl * Sec - d, 0)
  BY DEF Init
<1> DEFINE L == ttl * Sec
           D == Due(ttl)
<1> HIDE DEF L, D
<1>4. L - left <= MaxDelay
  BY <1>2, <1>3, ClockAssumption DEF AtLeast, L
<1>5. Life = L /\ L \in Nat /\ left \in 0 .. L /\ D \in Nat /\ Due(ttl) = D
  BY <1>1, <1>2 DEF Life, L, D, TypeOK
<1>6. /\ worker = "asleep" /\ late = 0 /\ over = 0
      /\ D >= Sec => timer = D
  BY <1>2 DEF Init, D
<1>7. Due(ttl) >= Sec => Overrun
  BY <1>4, <1>5, <1>6, ClockAssumption DEF Overrun, Unrenewed
<1> QED
  BY <1>1, <1>7 DEF OInv

(* Every tick is counted by one of the worker's clocks, except while an    *)
(* answer travels, which has a clock of its own.                           *)
LEMMA NextOverrun ==
    ASSUME TypeOK, TypeOK', Courier, Due(ttl) >= Sec, Overrun, [Next]_vars
    PROVE  Overrun'
<1> DEFINE L == ttl * Sec
           D == Due(ttl)
<1>1. L \in Nat \ {0} /\ D \in Nat /\ RenewInterval(ttl) = D
  BY LeasesAssumption, TicksAreNat DEF TypeOK
<1>2. Life = L /\ Life' = L /\ Due(ttl)' = D /\ Due(ttl) = D
  BY DEF Next, Tick, SendRenew, Renewed, RenewFails, ServerRenews, ServerRefuses,
         Lose, Lost, vars, Life, Due
<1>3. /\ left \in 0 .. L /\ timer \in Nat /\ late \in 0 .. MaxLate
      /\ age \in 0 .. MaxDelay /\ over \in Nat
      /\ late' \in 0 .. MaxLate /\ worker \in {"asleep", "waiting", "ended"}
  BY DEF TypeOK
<1>4. CASE ServerRenews
  BY <1>1, <1>2, <1>3, <1>4, ClockAssumption DEF ServerRenews, Overrun, Unrenewed, Life, Courier
<1> HIDE DEF L, D
<1> USE <1>1, <1>2, <1>3, ClockAssumption DEF Overrun, Unrenewed
<1>5. CASE Tick
  BY <1>5 DEF Tick, InTime, Held, AtLeast
<1>6. CASE SendRenew
  BY <1>6 DEF SendRenew, ReadTimeout
<1>7. CASE Renewed
  BY <1>7 DEF Renewed
<1>8. CASE RenewFails
  BY <1>8 DEF RenewFails
<1>9. CASE ServerRefuses \/ Lose
  BY <1>9 DEF ServerRefuses, Lose
<1>10. CASE Lost \/ UNCHANGED vars
  BY <1>10 DEF Lost, vars
<1> QED
  BY <1>4, <1>5, <1>6, <1>7, <1>8, <1>9, <1>10 DEF Next

(* At any point of a round the bound holds: the sleep, the read timeout    *)
(* and the lateness of both, and the way of the last answer, less the TTL. *)
LEMMA OverrunSuffices == OInv => OverrunBounded
<1> SUFFICES ASSUME OInv, Due(ttl) >= Sec
             PROVE  over <= AtLeast(Due(ttl) + 5 * Sec + 2 * MaxLate + MaxDelay - ttl * Sec, 0)
  BY DEF OverrunBounded
<1> DEFINE L == ttl * Sec
           D == Due(ttl)
<1>1. L \in Nat \ {0} /\ D \in Nat
  BY LeasesAssumption, TicksAreNat DEF OInv, TypeOK
<1>2. /\ left \in 0 .. L /\ timer \in Nat /\ late \in 0 .. MaxLate /\ over \in Nat
      /\ worker \in {"asleep", "waiting", "ended"}
  BY DEF OInv, TypeOK
<1>3. Overrun /\ Life = L
  BY DEF OInv, Life
<1> HIDE DEF L
<1>4. L - left + over <= MaxDelay + D + 2 * MaxLate + 5 * Sec
  BY <1>1, <1>2, <1>3, ClockAssumption DEF Overrun, Unrenewed
<1>5. over > 0 => left = 0
  BY <1>1, <1>2, <1>3 DEF Overrun
<1> HIDE DEF D
<1>6. over <= AtLeast(D + 5 * Sec + 2 * MaxLate + MaxDelay - L, 0)
  BY <1>1, <1>2, <1>4, <1>5, ClockAssumption DEF AtLeast
<1> QED
  BY <1>6 DEF L, D

(* Whatever is lost, and however long the lease, the client does not       *)
(* believe in an expired lease for longer than its own two waits.          *)
THEOREM OverrunIsBounded == Spec => []OverrunBounded
<1>1. OInv /\ [Next]_vars => OInv'
  <2> SUFFICES ASSUME OInv, [Next]_vars PROVE OInv'
    OBVIOUS
  <2>1. ttl' = ttl
    BY DEF Next, Tick, SendRenew, Renewed, RenewFails, ServerRenews, ServerRefuses,
           Lose, Lost, vars
  <2>2. Due(ttl)' = Due(ttl)
    BY <2>1 DEF Due
  <2>3. TypeOK'
    BY NextTypes DEF OInv
  <2> QED
    BY <2>2, <2>3, NextCourier, NextOverrun DEF OInv
<1> QED
  BY <1>1, InitOverrun, OverrunSuffices, PTL DEF Spec
=============================================================================
