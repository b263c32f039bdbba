----------------------------- MODULE ClockProofs ------------------------------
(*****************************************************************************)
(* What is proved of the real-time clock and of two of its users, the duty   *)
(* cycle and the system time.                                                *)
(*                                                                           *)
(* They rest on one invariant, CountInv: the values of the calendar, of the  *)
(* timer context and of a stamp are as many ticks apart as have passed.  What*)
(* a reading in progress, the alarm, a delayed retransmission and a DeviceTime*)
(* exchange add to it are invariants of their own, proved on top of it.      *)
(*****************************************************************************)
EXTENDS CalendarProofs, SysTime, DutyCycle

(*****************************************************************************)
(* Ticks and milliseconds                                                    *)
(*****************************************************************************)

(* The modulus of the ticks and the milliseconds of a second.               *)
LEMMA ClockSizes ==
  /\ TickMod \in Nat \ {0}
  /\ MSEC_NUMBER \in Nat \ {0}
  /\ MSEC_NUMBER <= TicksPerSecond
  BY RtcAssumption, Sizes

(* Tick2ms rounds down.                                                      *)
LEMMA Tick2msIs ==
  ASSUME NEW x \in Nat
  PROVE  /\ Tick2ms(x) \in Nat
         /\ Tick2ms(x) * TicksPerSecond <= x * MSEC_NUMBER
         /\ x * MSEC_NUMBER < Tick2ms(x) * TicksPerSecond + TicksPerSecond
<1>1. PICK q \in Nat : q = x \div TicksPerSecond
  BY Sizes, DivModNat
<1>2. /\ x % TicksPerSecond \in 0..(TicksPerSecond - 1)
      /\ x = (x \div TicksPerSecond) * TicksPerSecond + (x % TicksPerSecond)
  BY Sizes
<1> DEFINE r == x % TicksPerSecond
<1>3. r \in 0..(TicksPerSecond - 1) /\ x = q * TicksPerSecond + r
  BY <1>1, <1>2
<1>4. r * MSEC_NUMBER \in Nat
  BY <1>3, ClockSizes, Sizes
<1>5. PICK k \in Nat : k = (r * MSEC_NUMBER) \div TicksPerSecond
  BY <1>4, Sizes, DivModNat
<1>6. k * TicksPerSecond <= r * MSEC_NUMBER /\ r * MSEC_NUMBER < k * TicksPerSecond + TicksPerSecond
  BY <1>4, <1>5, Sizes, DivModNat
<1>7. Tick2ms(x) = q * MSEC_NUMBER + k
  BY <1>1, <1>5 DEF Tick2ms
<1> HIDE DEF r
<1>8. q * MSEC_NUMBER \in Nat
  BY ClockSizes
<1>9. (q * MSEC_NUMBER + k) * TicksPerSecond
        = (q * MSEC_NUMBER) * TicksPerSecond + k * TicksPerSecond
  BY <1>8, Sizes, Product
<1>10. x * MSEC_NUMBER = (q * TicksPerSecond) * MSEC_NUMBER + r * MSEC_NUMBER
  <2>1. q * TicksPerSecond \in Int
    BY Sizes
  <2> QED BY <1>3, <2>1, ClockSizes, Product
<1>11. (q * TicksPerSecond) * MSEC_NUMBER = (q * MSEC_NUMBER) * TicksPerSecond
  BY ClockSizes, Sizes
<1>12. (q * MSEC_NUMBER) * TicksPerSecond \in Int /\ k * TicksPerSecond \in Int
  BY <1>8, Sizes
<1> QED BY <1>4, <1>6, <1>7, <1>8, <1>9, <1>10, <1>11, <1>12, Sizes

(* Tick2ms keeps the order of ticks.                                        *)
LEMMA Tick2msInOrder ==
  ASSUME NEW x \in Nat, NEW y \in Nat, x <= y
  PROVE  Tick2ms(x) <= Tick2ms(y)
<1>1. x * MSEC_NUMBER <= y * MSEC_NUMBER
  BY ClockSizes, ProductOrder
<1>2. x * MSEC_NUMBER \in Int /\ y * MSEC_NUMBER \in Int
  BY ClockSizes
<1>3. PICK a \in Nat : a = Tick2ms(x) /\ a * TicksPerSecond <= x * MSEC_NUMBER
  BY Tick2msIs
<1>4. PICK b \in Nat : b = Tick2ms(y) /\ y * MSEC_NUMBER < b * TicksPerSecond + TicksPerSecond
  BY Tick2msIs
<1>5. (b + 1) * TicksPerSecond = b * TicksPerSecond + TicksPerSecond
  BY Sizes
<1>6. a * TicksPerSecond \in Int /\ b * TicksPerSecond \in Int
  BY Sizes
<1>7. a * TicksPerSecond < (b + 1) * TicksPerSecond
  BY <1>1, <1>2, <1>3, <1>4, <1>5, <1>6, Sizes
<1>8. a < b + 1
  <2>1. b + 1 \in Int /\ a \in Int
    OBVIOUS
  <2> QED BY <1>7, <2>1, Sizes, CancelProduct
<1> QED BY <1>3, <1>4, <1>8

(* How far ahead the rounding may bring a difference of ticks.               *)
LEMMA Tick2msNear ==
  ASSUME NEW x \in Nat, NEW d \in Nat,
         d * MSEC_NUMBER < TicksPerSecond + MSEC_NUMBER
  PROVE  Tick2ms(x + d) - Tick2ms(x) \in 0..2
<1>1. Tick2ms(x) <= Tick2ms(x + d)
  BY Tick2msInOrder
<1>2. PICK a \in Nat : a = Tick2ms(x) /\ x * MSEC_NUMBER < a * TicksPerSecond + TicksPerSecond
  BY Tick2msIs
<1>3. PICK b \in Nat : b = Tick2ms(x + d) /\ b * TicksPerSecond <= (x + d) * MSEC_NUMBER
  BY Tick2msIs
<1>4. (x + d) * MSEC_NUMBER = x * MSEC_NUMBER + d * MSEC_NUMBER
  BY ClockSizes, Product
<1>5. (a + 3) * TicksPerSecond = a * TicksPerSecond + 3 * TicksPerSecond
  BY Sizes, Product
<1>6. /\ x * MSEC_NUMBER \in Int /\ d * MSEC_NUMBER \in Int
      /\ a * TicksPerSecond \in Int /\ b * TicksPerSecond \in Int
  BY ClockSizes, Sizes
<1>7. b * TicksPerSecond < (a + 3) * TicksPerSecond
  BY <1>2, <1>3, <1>4, <1>5, <1>6, ClockSizes, Sizes
<1>8. b < a + 3
  <2>1. a + 3 \in Int /\ b \in Int
    OBVIOUS
  <2> QED BY <1>7, <2>1, Sizes, CancelProduct
<1> QED BY <1>1, <1>2, <1>3, <1>8

(* Ticks that a stamp loses in milliseconds and back.                        *)
LEMMA StampLoses ==
  ASSUME NEW x \in 0..(TickMod - 1)
  PROVE  \E d \in Nat :
           /\ Ms2Tick(Tick2ms(x)) = x - d
           /\ d < TicksPerSecond
           /\ d * MSEC_NUMBER < TicksPerSecond + MSEC_NUMBER
<1>0. x \in Nat /\ TickMod \in Nat
  BY ClockSizes
<1>1. PICK m \in Nat : /\ m = Tick2ms(x)
                       /\ m * TicksPerSecond <= x * MSEC_NUMBER
                       /\ x * MSEC_NUMBER < m * TicksPerSecond + TicksPerSecond
  BY <1>0, Tick2msIs
<1>2. m * TicksPerSecond \in Nat
  BY Sizes
<1>3. PICK p \in Nat : /\ p = (m * TicksPerSecond) \div MSEC_NUMBER
                       /\ p * MSEC_NUMBER <= m * TicksPerSecond
                       /\ m * TicksPerSecond < p * MSEC_NUMBER + MSEC_NUMBER
  BY <1>2, ClockSizes, DivModNat
<1>4. p * MSEC_NUMBER \in Int /\ x * MSEC_NUMBER \in Int
  BY <1>0, ClockSizes
<1>5. p <= x
  <2>1. (x + 1) * MSEC_NUMBER = x * MSEC_NUMBER + MSEC_NUMBER
    BY <1>0, ClockSizes
  <2>2. p * MSEC_NUMBER < (x + 1) * MSEC_NUMBER
    BY <1>1, <1>2, <1>3, <1>4, <2>1, ClockSizes
  <2>3. p \in Int /\ x + 1 \in Int
    BY <1>0
  <2>4. p < x + 1
    BY <2>2, <2>3, ClockSizes, CancelProduct
  <2> QED BY <2>4, <1>0
<1>6. p % TickMod = p
  <2>1. 0 * TickMod + p = p /\ p \in 0..(TickMod - 1) /\ 0 \in Int
    BY <1>0, <1>5
  <2>2. (0 * TickMod + p) % TickMod = p
    BY <2>1, ClockSizes, ModIs, Zenon
  <2> QED BY <2>1, <2>2
<1>7. Ms2Tick(Tick2ms(x)) = p
  BY <1>1, <1>3, <1>6 DEF Ms2Tick
<1>8. PICK d \in Nat : d = x - p
  BY <1>0, <1>5
<1>9. d * MSEC_NUMBER = x * MSEC_NUMBER - p * MSEC_NUMBER
  BY <1>0, <1>8, ClockSizes, Product
<1>10. d * MSEC_NUMBER < TicksPerSecond + MSEC_NUMBER - 1
  BY <1>1, <1>2, <1>3, <1>4, <1>9, ClockSizes, Sizes
<1>11. d < TicksPerSecond
  <2>1. SUFFICES ASSUME TicksPerSecond <= d PROVE FALSE
    BY Sizes
  <2>2. (d - 1) * MSEC_NUMBER = d * MSEC_NUMBER - MSEC_NUMBER
    BY ClockSizes
  <2>3. (d - 1) * 1 <= (d - 1) * MSEC_NUMBER
    <3>1. d - 1 \in Nat
      BY <2>1, Sizes
    <3>2. 1 * (d - 1) <= MSEC_NUMBER * (d - 1)
      BY <3>1, ClockSizes, ProductOrder
    <3> QED BY <3>1, <3>2, ClockSizes, Product
  <2>4. d * MSEC_NUMBER \in Int
    BY ClockSizes
  <2> QED BY <2>1, <2>2, <2>3, <2>4, <1>10, Sizes, ClockSizes
<1> QED BY <1>0, <1>7, <1>8, <1>10, <1>11, ClockSizes, Sizes

(* TimerGetElapsedTime of a stamp that was taken `old' ticks ago.            *)
LEMMA AgeOfStamp ==
  ASSUME NEW v \in Nat, NEW old \in Nat, old <= v
  PROVE  LET ms == Tick2ms((v - Ms2Tick(Tick2ms((v - old) % TickMod))) % TickMod)
         IN /\ ms \in Nat
            /\ ms <= Tick2ms(old) + 2
            /\ old + TicksPerSecond <= TickMod => ms - Tick2ms(old) \in 0..2
<1> DEFINE x == (v - old) % TickMod
           q == (v - old) \div TickMod
<1>0. v - old \in Nat
  OBVIOUS
<1>2. x \in 0..(TickMod - 1) /\ q \in Int /\ v - old = q * TickMod + x
  BY <1>0, ClockSizes
<1>1. x = (v - old) % TickMod
  OBVIOUS
<1> HIDE DEF x, q
<1>3. PICK d \in Nat : /\ Ms2Tick(Tick2ms(x)) = x - d
                       /\ d < TicksPerSecond
                       /\ d * MSEC_NUMBER < TicksPerSecond + MSEC_NUMBER
  BY <1>2, StampLoses
<1>4. PICK r \in 0..(TickMod - 1), p \in Int : r = (old + d) % TickMod /\ old + d = p * TickMod + r
  <2>1. old + d \in Int
    OBVIOUS
  <2> QED BY <2>1, ClockSizes, DivMod
<1>5. (v - (x - d)) % TickMod = r
  <2>1. (q + p) * TickMod = q * TickMod + p * TickMod
    BY <1>2, ClockSizes, Product
  <2>2. q * TickMod \in Int /\ p * TickMod \in Int
    BY <1>2, ClockSizes
  <2>3. v - (x - d) = (q + p) * TickMod + r
    BY <1>2, <1>4, <2>1, <2>2, ClockSizes
  <2>4. q + p \in Int
    BY <1>2
  <2>5. ((q + p) * TickMod + r) % TickMod = r
    BY <2>4, ClockSizes, ModIs, Zenon
  <2> QED BY <2>3, <2>5
<1>6. Tick2ms((v - Ms2Tick(Tick2ms((v - old) % TickMod))) % TickMod) = Tick2ms(r)
  BY <1>1, <1>3, <1>5
<1>7. Tick2ms(old + d) - Tick2ms(old) \in 0..2
  BY <1>3, Tick2msNear
<1>8. Tick2ms(old) \in Nat /\ Tick2ms(old + d) \in Nat /\ Tick2ms(r) \in Nat
  BY ClockSizes, Tick2msIs
<1>9. r <= old + d
  BY <1>4, ClockSizes, DivModNat
<1>10. Tick2ms(r) <= Tick2ms(old + d)
  BY <1>9, ClockSizes, Tick2msInOrder
<1>11. ASSUME old + TicksPerSecond <= TickMod PROVE r = old + d
  <2>1. old + d \in 0..(TickMod - 1) /\ 0 * TickMod + (old + d) = old + d /\ 0 \in Int
    BY <1>3, <1>11, Sizes, ClockSizes
  <2>2. (0 * TickMod + (old + d)) % TickMod = old + d
    BY <2>1, ClockSizes, ModIs, Zenon
  <2> QED BY <1>4, <2>1, <2>2
<1> QED BY <1>6, <1>7, <1>8, <1>10, <1>11

(* Milliseconds that pass in d ticks, from two instants.                     *)
LEMMA TicksPass ==
  ASSUME NEW a \in Nat, NEW d \in Nat
  PROVE  /\ (Tick2ms(a + d) - Tick2ms(a)) * TicksPerSecond < d * MSEC_NUMBER + TicksPerSecond
         /\ d * MSEC_NUMBER < (Tick2ms(a + d) - Tick2ms(a)) * TicksPerSecond + TicksPerSecond
         /\ Tick2ms(a) \in Nat /\ Tick2ms(a + d) \in Nat
         /\ d * MSEC_NUMBER \in Nat
<1>1. /\ Tick2ms(a) \in Nat
      /\ Tick2ms(a) * TicksPerSecond <= a * MSEC_NUMBER
      /\ a * MSEC_NUMBER < Tick2ms(a) * TicksPerSecond + TicksPerSecond
  BY Tick2msIs
<1>2. PICK b \in Nat : b = a + d
  OBVIOUS
<1>3. /\ Tick2ms(b) \in Nat
      /\ Tick2ms(b) * TicksPerSecond <= b * MSEC_NUMBER
      /\ b * MSEC_NUMBER < Tick2ms(b) * TicksPerSecond + TicksPerSecond
  BY Tick2msIs
<1>4. b * MSEC_NUMBER = a * MSEC_NUMBER + d * MSEC_NUMBER
  BY <1>2, ClockSizes
<1>5. a * MSEC_NUMBER \in Nat /\ d * MSEC_NUMBER \in Nat
  BY ClockSizes
<1>6. /\ (Tick2ms(b) - Tick2ms(a)) * TicksPerSecond
           = Tick2ms(b) * TicksPerSecond - Tick2ms(a) * TicksPerSecond
      /\ Tick2ms(b) * TicksPerSecond \in Int /\ Tick2ms(a) * TicksPerSecond \in Int
  BY <1>1, <1>3, Sizes, Product
<1>7. TicksPerSecond \in Nat
  BY Sizes
<1>8. /\ (Tick2ms(b) - Tick2ms(a)) * TicksPerSecond < d * MSEC_NUMBER + TicksPerSecond
      /\ d * MSEC_NUMBER < (Tick2ms(b) - Tick2ms(a)) * TicksPerSecond + TicksPerSecond
  BY <1>1, <1>3, <1>4, <1>5, <1>6, <1>7
<1> QED BY <1>1, <1>2, <1>3, <1>5, <1>8

(* The same ticks are the same milliseconds anywhere, but for one.          *)
LEMMA PassAlike ==
  ASSUME NEW a \in Nat, NEW b \in Nat, NEW d \in Nat
  PROVE  (Tick2ms(a + d) - Tick2ms(a)) - (Tick2ms(b + d) - Tick2ms(b)) \in -1..1
<1>1. PICK x \in Int : x = Tick2ms(a + d) - Tick2ms(a)
  BY TicksPass
<1>2. PICK y \in Int : y = Tick2ms(b + d) - Tick2ms(b)
  BY TicksPass
<1>3. /\ x * TicksPerSecond < d * MSEC_NUMBER + TicksPerSecond
      /\ d * MSEC_NUMBER < x * TicksPerSecond + TicksPerSecond
  BY <1>1, TicksPass
<1>4. /\ y * TicksPerSecond < d * MSEC_NUMBER + TicksPerSecond
      /\ d * MSEC_NUMBER < y * TicksPerSecond + TicksPerSecond
      /\ d * MSEC_NUMBER \in Nat
  BY <1>2, TicksPass
<1>5. /\ (x - y) * TicksPerSecond = x * TicksPerSecond - y * TicksPerSecond
      /\ (y - x) * TicksPerSecond = y * TicksPerSecond - x * TicksPerSecond
      /\ x * TicksPerSecond \in Int /\ y * TicksPerSecond \in Int
      /\ TicksPerSecond \in Nat \ {0}
  BY Sizes, Product
<1>6. 2 * TicksPerSecond = TicksPerSecond + TicksPerSecond
  BY <1>5
<1>7. (x - y) * TicksPerSecond < 2 * TicksPerSecond /\ (y - x) * TicksPerSecond < 2 * TicksPerSecond
  BY <1>3, <1>4, <1>5, <1>6
<1>8. x - y \in Int /\ y - x \in Int /\ 2 \in Int
  OBVIOUS
<1>9. x - y < 2 /\ y - x < 2
  BY <1>5, <1>7, <1>8, CancelProduct
<1> QED BY <1>1, <1>2, <1>9

(* No tick is more than one millisecond.                                    *)
LEMMA PassSlowly ==
  ASSUME NEW a \in Nat, NEW d \in Nat
  PROVE  Tick2ms(a + d) - Tick2ms(a) \in 0..d
<1>1. PICK x \in Int : x = Tick2ms(a + d) - Tick2ms(a)
  BY TicksPass
<1>2. x * TicksPerSecond < d * MSEC_NUMBER + TicksPerSecond
  BY <1>1, TicksPass
<1>3. d * MSEC_NUMBER <= d * TicksPerSecond
  <2>1. MSEC_NUMBER * d <= TicksPerSecond * d
    <3>1. MSEC_NUMBER \in Int /\ TicksPerSecond \in Int /\ MSEC_NUMBER <= TicksPerSecond
      BY ClockSizes, Sizes
    <3> QED BY <3>1, ProductOrder
  <2>2. MSEC_NUMBER * d = d * MSEC_NUMBER /\ TicksPerSecond * d = d * TicksPerSecond
    BY ClockSizes, Sizes
  <2> QED BY <2>1, <2>2
<1>4. (d + 1) * TicksPerSecond = d * TicksPerSecond + TicksPerSecond
  BY Sizes
<1>5. d * MSEC_NUMBER \in Int /\ d * TicksPerSecond \in Int /\ x * TicksPerSecond \in Int
      /\ TicksPerSecond \in Nat \ {0}
  BY ClockSizes, Sizes
<1>6. x * TicksPerSecond < (d + 1) * TicksPerSecond
  BY <1>2, <1>3, <1>4, <1>5
<1>7. x < d + 1
  <2>1. d + 1 \in Int
    OBVIOUS
  <2> QED BY <1>5, <1>6, <2>1, CancelProduct
<1>8. Tick2ms(a) <= Tick2ms(a + d) /\ Tick2ms(a) \in Nat /\ Tick2ms(a + d) \in Nat
  <2>1. PICK b \in Nat : b = a + d /\ a <= b
    OBVIOUS
  <2> QED BY <2>1, Tick2msInOrder, Tick2msIs
<1> QED BY <1>1, <1>7, <1>8

(*****************************************************************************)
(* The clock counts                                                          *)
(*****************************************************************************)

(* The values of the variables of the clock.                                *)
TypeOK ==
  /\ {cal, context, instant} \subseteq Calendars
  /\ pc \in {"idle", "date", "sub", "time"}
  /\ ticks \in 0..Horizon
  /\ {since, age} \subseteq Nat
  /\ {left, round} \subseteq Int

(* The ticks that are left do not reach 2100.                               *)
EndsBefore2100 == CalendarValue(cal) + (Horizon - ticks) < 36525 * TicksPerDay

(* The calendar and the context are as many ticks apart as have passed.     *)
CountsSinceContext == CalendarValue(cal) = CalendarValue(context) + since

(* A stamp is the value, in milliseconds, that the calendar had then.       *)
StampIsOld ==
  stamp # None =>
    /\ age <= CalendarValue(cal)
    /\ stamp = Tick2ms((CalendarValue(cal) - age) % TickMod)

(* The inductive invariant of the clock.                                    *)
CountInv == TypeOK /\ EndsBefore2100 /\ CountsSinceContext /\ StampIsOld

(* The invariant holds at the start.                                        *)
LEMMA InitCount == Init => CountInv
<1> SUFFICES ASSUME Init PROVE CountInv
  OBVIOUS
<1>1. cal \in Starts /\ cal \in Calendars /\ Horizon \in Nat
  BY RtcAssumption DEF Init
<1>2. CalendarValue(cal) \in Nat
  BY <1>1, TimeFields
<1>3. TypeOK
  BY <1>1 DEF Init, TypeOK
<1>4. EndsBefore2100
  BY <1>1, <1>2, RtcAssumption DEF Init, EndsBefore2100
<1>5. CountsSinceContext
  BY <1>2 DEF Init, CountsSinceContext
<1>6. StampIsOld
  BY DEF Init, StampIsOld
<1> QED BY <1>3, <1>4, <1>5, <1>6 DEF CountInv

(* A tick of the hardware adds one to the value of the calendar.            *)
LEMMA TickCounts ==
  ASSUME CountInv, Tick
  PROVE  /\ CountInv'
         /\ CalendarValue(cal') = CalendarValue(cal) + 1
<1>1. /\ cal \in Calendars /\ context \in Calendars /\ instant \in Calendars
      /\ ticks \in 0..Horizon /\ Horizon \in Nat
      /\ since \in Nat /\ age \in Nat /\ round \in Int /\ left \in Int
  BY RtcAssumption DEF CountInv, TypeOK
<1>2. CalendarValue(cal) \in Nat /\ CalendarValue(context) \in Nat
  BY <1>1, TimeFields
<1>3. ticks < Horizon /\ cal' = NextTick(cal) /\ ticks' = ticks + 1
  BY DEF Tick
<1>4. CalendarValue(cal) + 1 < 36525 * TicksPerDay
  <2>1. CalendarValue(cal) + (Horizon - ticks) < 36525 * TicksPerDay
    BY DEF CountInv, EndsBefore2100
  <2> QED BY <2>1, <1>1, <1>2, <1>3, Sizes
<1>5. cal' \in Calendars /\ CalendarValue(cal') = CalendarValue(cal) + 1
  BY <1>1, <1>3, <1>4, NextTickIsNext
<1>6. /\ since' = since + 1
      /\ context' = context /\ instant' = instant /\ pc' = pc
      /\ stamp' = stamp
      /\ age' = IF stamp = None THEN 0 ELSE age + 1
      /\ round' = IF pc = "idle" THEN 0 ELSE round + 1
      /\ left' = IF alarm = None THEN 0 ELSE left - 1
  BY DEF Tick
<1>7. TypeOK'
  <2>1. pc \in {"idle", "date", "sub", "time"}
    BY DEF CountInv, TypeOK
  <2> QED BY <1>1, <1>3, <1>5, <1>6, <2>1 DEF TypeOK
<1>8. EndsBefore2100'
  BY <1>1, <1>2, <1>3, <1>5 DEF CountInv, EndsBefore2100
<1>9. CountsSinceContext'
  BY <1>1, <1>2, <1>5, <1>6 DEF CountInv, CountsSinceContext
<1>10. StampIsOld'
  <2> SUFFICES ASSUME stamp # None
               PROVE  /\ age' <= CalendarValue(cal')
                      /\ stamp = Tick2ms((CalendarValue(cal') - age') % TickMod)
    BY <1>6 DEF StampIsOld
  <2>1. age' = age + 1
    BY <1>6
  <2>2. age <= CalendarValue(cal) /\ stamp = Tick2ms((CalendarValue(cal) - age) % TickMod)
    BY DEF CountInv, StampIsOld
  <2>3. CalendarValue(cal') - age' = CalendarValue(cal) - age
    BY <1>1, <1>2, <1>5, <2>1
  <2> QED BY <1>1, <1>2, <1>5, <2>1, <2>2, <2>3
<1> QED BY <1>5, <1>7, <1>8, <1>9, <1>10 DEF CountInv

(* Every step keeps the invariant.                                          *)
LEMMA StepCount ==
  ASSUME CountInv, [Next]_vars
  PROVE  CountInv'
<1>1. /\ cal \in Calendars /\ context \in Calendars /\ instant \in Calendars
      /\ ticks \in 0..Horizon /\ Horizon \in Nat
      /\ since \in Nat /\ age \in Nat /\ round \in Int /\ left \in Int
      /\ pc \in {"idle", "date", "sub", "time"}
  BY RtcAssumption DEF CountInv, TypeOK
<1>2. CalendarValue(cal) \in Nat /\ CalendarValue(context) \in Nat /\ CalendarValue(instant) \in Nat
  BY <1>1, TimeFields
<1>3. CASE Tick
  BY <1>3, TickCounts
<1>4. CASE ReadCalendar
  <2>1. UNCHANGED <<cal, ticks, context, alarm, since, left, stamp, age>>
    BY <1>4 DEF ReadCalendar, alarmVars, stampVars
  <2>2. instant' \in Calendars
    BY <1>1, <1>4 DEF ReadCalendar, ReadFirst, ReadDate, ReadSubSeconds, ReadTime
  <2>3. pc' \in {"idle", "date", "sub", "time"}
    BY <1>4 DEF ReadCalendar, ReadFirst, ReadDate, ReadSubSeconds, ReadTime
  <2>4. round' \in Int
    BY <1>1, <1>2, <1>4 DEF ReadCalendar, ReadFirst, ReadDate, ReadSubSeconds, ReadTime
  <2>5. TypeOK'
    BY <1>1, <2>1, <2>2, <2>3, <2>4 DEF TypeOK
  <2> QED BY <2>1, <2>5 DEF CountInv, EndsBefore2100, CountsSinceContext, StampIsOld
<1>5. CASE UseAlarm
  <2>1. UNCHANGED <<cal, ticks, pc, instant, round, stamp, age>>
    BY <1>5 DEF UseAlarm, readVars, stampVars
  <2>2. \/ context' = cal /\ since' = 0 /\ left' = left
        \/ context' = context /\ since' = since /\ left' \in Int
    <3>1. CASE SetTimerContext
      BY <3>1 DEF SetTimerContext
    <3>2. CASE StopAlarm
      BY <3>2 DEF StopAlarm
    <3>3. ASSUME NEW timeout \in Timeouts, StartWakeUpAlarm(timeout)
          PROVE  context' = context /\ since' = since /\ left' \in Int
      <4>1. timeout \in Nat
        BY RtcAssumption
      <4> QED BY <1>1, <3>3, <4>1 DEF StartWakeUpAlarm
    <3> QED BY <1>5, <3>1, <3>2, <3>3 DEF UseAlarm
  <2>3. TypeOK'
    BY <1>1, <2>1, <2>2 DEF TypeOK
  <2>4. CountsSinceContext'
    BY <1>2, <2>1, <2>2 DEF CountInv, CountsSinceContext
  <2> QED BY <2>1, <2>3, <2>4 DEF CountInv, EndsBefore2100, StampIsOld
<1>6. CASE GetCurrentTime
  <2>1. UNCHANGED <<cal, ticks, pc, instant, round, context, alarm, since, left>>
    BY <1>6 DEF GetCurrentTime, readVars, alarmVars
  <2>2. stamp' = Tick2ms(CalendarValue(cal) % TickMod) /\ age' = 0
    BY <1>6 DEF GetCurrentTime, TimerValue
  <2>3. TypeOK'
    BY <1>1, <2>1, <2>2 DEF TypeOK
  <2>4. CalendarValue(cal) - 0 = CalendarValue(cal)
    BY <1>2
  <2>5. StampIsOld'
    BY <1>2, <2>1, <2>2, <2>4 DEF StampIsOld
  <2> QED BY <2>1, <2>3, <2>5 DEF CountInv, EndsBefore2100, CountsSinceContext
<1>7. CASE UNCHANGED vars
  BY <1>7 DEF vars, readVars, alarmVars, stampVars, CountInv, TypeOK, EndsBefore2100,
     CountsSinceContext, StampIsOld
<1> QED BY <1>3, <1>4, <1>5, <1>6, <1>7 DEF Next

(* In every behaviour of the clock, whatever its readers and its alarm do,  *)
(* the calendar counts the ticks of RTC_TimeBase: its value and those of    *)
(* the context and the stamp are as many ticks apart as have passed.        *)
THEOREM Counting == Spec => []CountInv
<1>1. Init => CountInv
  BY InitCount
<1>2. CountInv /\ [Next]_vars => CountInv'
  BY StepCount
<1> QED BY <1>1, <1>2, PTL DEF Spec

(* HW_RTC_GetTimerElapsedTime (hw_rtc.c) counts every tick since the        *)
(* context was set once, over the ends of days, months and leap years, and  *)
(* over the wrap of the 32-bit value.                                       *)
THEOREM ElapsedTrue == Spec => []ElapsedCountsTicks
<1>1. CountInv => ElapsedCountsTicks
  <2> SUFFICES ASSUME CountInv PROVE ElapsedCountsTicks
    OBVIOUS
  <2>1. cal \in Calendars /\ context \in Calendars /\ since \in Nat
    BY DEF CountInv, TypeOK
  <2>2. CalendarValue(cal) \in Nat /\ CalendarValue(context) \in Nat
    BY <2>1, TimeFields
  <2>3. CalendarValue(cal) - CalendarValue(context) = since
    BY <2>1, <2>2 DEF CountInv, CountsSinceContext
  <2> QED BY <2>3 DEF ElapsedCountsTicks, TimerElapsedTime
<1> QED BY <1>1, Counting, PTL

(* TimerGetElapsedTime (timeServer.c) of a stamp is its true age in whole   *)
(* milliseconds or up to two more, until a second before the ticks have     *)
(* gone round once.                                                         *)
THEOREM StampTrue == Spec => []StampAgeIsTrue
<1>1. CountInv => StampAgeIsTrue
  <2> SUFFICES ASSUME CountInv, stamp # None, age + TicksPerSecond <= TickMod
               PROVE  GetElapsedTime(stamp) - Tick2ms(age) \in 0..2
    BY DEF StampAgeIsTrue
  <2>1. cal \in Calendars /\ age \in Nat
    BY DEF CountInv, TypeOK
  <2>2. CalendarValue(cal) \in Nat
    BY <2>1, TimeFields
  <2>3. age <= CalendarValue(cal) /\ stamp = Tick2ms((CalendarValue(cal) - age) % TickMod)
    BY DEF CountInv, StampIsOld
  <2> QED BY <2>1, <2>2, <2>3, AgeOfStamp DEF GetElapsedTime
<1> QED BY <1>1, Counting, PTL

(*****************************************************************************)
(* Readings                                                                  *)
(*****************************************************************************)

(* The calendar when first_read was read, and the one the date is of.        *)
ReadIsRecent ==
  pc # "idle" =>
    \E first \in Calendars :
      /\ first.SubSeconds = first_read
      /\ round \in 0..MaxRound
      /\ CalendarValue(cal) = CalendarValue(first) + round
      /\ pc = "sub" =>
           \E dated \in Calendars :
             /\ date = DateOf(dated)
             /\ CalendarValue(first) <= CalendarValue(dated)
             /\ CalendarValue(dated) <= CalendarValue(cal)
      /\ pc = "time" =>
           /\ sub = instant.SubSeconds
           /\ CalendarValue(instant) <= CalendarValue(cal)
           /\ \E dated \in Calendars :
                /\ date = DateOf(dated)
                /\ CalendarValue(first) <= CalendarValue(dated)
                /\ CalendarValue(dated) <= CalendarValue(instant)

(* Every step keeps what is known of a reading.                             *)
LEMMA StepRead ==
  ASSUME CountInv, ReadIsRecent, [Next]_vars
  PROVE  ReadIsRecent'
<1>1. /\ cal \in Calendars /\ instant \in Calendars
      /\ pc \in {"idle", "date", "sub", "time"}
  BY DEF CountInv, TypeOK
<1>2. CalendarValue(cal) \in Nat /\ CalendarValue(instant) \in Nat
  BY <1>1, TimeFields
<1>3. MaxRound \in Nat
  BY RtcAssumption
<1>4. ASSUME NEW c \in Calendars PROVE CalendarValue(c) \in Nat
  BY <1>4, TimeFields
<1>5. CASE Tick
  <2>1. /\ CalendarValue(cal') = CalendarValue(cal) + 1
        /\ UNCHANGED <<pc, first_read, date, sub, instant>>
    BY <1>5, TickCounts DEF Tick
  <2> SUFFICES ASSUME pc # "idle" PROVE ReadIsRecent'
    BY <2>1 DEF ReadIsRecent
  <2>2. round' = round + 1 /\ round < MaxRound
    BY <1>5 DEF Tick
  <2>3. PICK first \in Calendars :
          /\ first.SubSeconds = first_read
          /\ round \in 0..MaxRound
          /\ CalendarValue(cal) = CalendarValue(first) + round
          /\ pc = "sub" =>
               \E dated \in Calendars :
                 /\ date = DateOf(dated)
                 /\ CalendarValue(first) <= CalendarValue(dated)
                 /\ CalendarValue(dated) <= CalendarValue(cal)
          /\ pc = "time" =>
               /\ sub = instant.SubSeconds
               /\ CalendarValue(instant) <= CalendarValue(cal)
               /\ \E dated \in Calendars :
                    /\ date = DateOf(dated)
                    /\ CalendarValue(first) <= CalendarValue(dated)
                    /\ CalendarValue(dated) <= CalendarValue(instant)
    BY DEF ReadIsRecent
  <2>4. CalendarValue(first) \in Nat
    BY <1>4
  <2>5. round' \in 0..MaxRound /\ CalendarValue(cal') = CalendarValue(first) + round'
    BY <1>2, <1>3, <2>1, <2>2, <2>3, <2>4
  <2>6. ASSUME pc = "sub"
        PROVE  \E dated \in Calendars :
                 /\ date = DateOf(dated)
                 /\ CalendarValue(first) <= CalendarValue(dated)
                 /\ CalendarValue(dated) <= CalendarValue(cal')
    <3>1. PICK dated \in Calendars :
            /\ date = DateOf(dated)
            /\ CalendarValue(first) <= CalendarValue(dated)
            /\ CalendarValue(dated) <= CalendarValue(cal)
      BY <2>3, <2>6
    <3>2. CalendarValue(dated) <= CalendarValue(cal')
      BY <1>2, <1>4, <2>1, <3>1
    <3> QED BY <3>1, <3>2
  <2>7. pc = "time" => CalendarValue(instant) <= CalendarValue(cal')
    BY <1>2, <2>1, <2>3
  <2> QED BY <2>1, <2>3, <2>5, <2>6, <2>7 DEF ReadIsRecent
<1>6. CASE ReadCalendar
  <2>1. cal' = cal
    BY <1>6 DEF ReadCalendar
  <2>2. CASE ReadFirst
    <3>1. pc' = "date" /\ first_read' = cal.SubSeconds /\ round' = 0
      BY <2>2 DEF ReadFirst
    <3>2. CalendarValue(cal') = CalendarValue(cal) + round' /\ round' \in 0..MaxRound
      BY <1>2, <1>3, <2>1, <3>1
    <3> QED BY <1>1, <3>1, <3>2 DEF ReadIsRecent
  <2>3. CASE ReadDate
    <3>1. pc = "date" /\ pc' = "sub" /\ date' = DateOf(cal) /\ UNCHANGED <<first_read, round>>
      BY <2>3 DEF ReadDate, DateOf
    <3>2. PICK first \in Calendars :
            /\ first.SubSeconds = first_read
            /\ round \in 0..MaxRound
            /\ CalendarValue(cal) = CalendarValue(first) + round
      BY <3>1 DEF ReadIsRecent
    <3>3. CalendarValue(first) <= CalendarValue(cal)
      BY <1>2, <1>3, <1>4, <3>2
    <3>4. CalendarValue(cal) <= CalendarValue(cal)
      BY <1>2
    <3> QED BY <1>1, <2>1, <3>1, <3>2, <3>3, <3>4 DEF ReadIsRecent
  <2>4. CASE ReadSubSeconds
    <3>1. /\ pc = "sub" /\ pc' = "time" /\ sub' = cal.SubSeconds /\ instant' = cal
          /\ UNCHANGED <<first_read, date, round>>
      BY <2>4 DEF ReadSubSeconds
    <3>2. PICK first \in Calendars :
            /\ first.SubSeconds = first_read
            /\ round \in 0..MaxRound
            /\ CalendarValue(cal) = CalendarValue(first) + round
            /\ \E dated \in Calendars :
                 /\ date = DateOf(dated)
                 /\ CalendarValue(first) <= CalendarValue(dated)
                 /\ CalendarValue(dated) <= CalendarValue(cal)
      BY <3>1 DEF ReadIsRecent
    <3>3. CalendarValue(cal) <= CalendarValue(cal)
      BY <1>2
    <3> QED BY <1>1, <2>1, <3>1, <3>2, <3>3 DEF ReadIsRecent
  <2>5. CASE ReadTime
    <3>1. CASE sub = first_read
      <4>1. pc' = "idle"
        BY <2>5, <3>1 DEF ReadTime
      <4> QED BY <4>1 DEF ReadIsRecent
    <3>2. CASE sub # first_read
      <4>1. /\ pc = "time" /\ pc' = "date" /\ first_read' = sub
            /\ round' = CalendarValue(cal) - CalendarValue(instant)
        BY <2>5, <3>2 DEF ReadTime
      <4>2. PICK first \in Calendars, dated \in Calendars :
              /\ round \in 0..MaxRound
              /\ CalendarValue(cal) = CalendarValue(first) + round
              /\ sub = instant.SubSeconds
              /\ CalendarValue(instant) <= CalendarValue(cal)
              /\ CalendarValue(first) <= CalendarValue(dated)
              /\ CalendarValue(dated) <= CalendarValue(instant)
        BY <4>1 DEF ReadIsRecent
      <4>3. round' \in 0..MaxRound /\ CalendarValue(cal) = CalendarValue(instant) + round'
        BY <1>2, <1>3, <1>4, <4>1, <4>2
      <4> QED BY <1>1, <2>1, <4>1, <4>2, <4>3 DEF ReadIsRecent
    <3> QED BY <3>1, <3>2
  <2> QED BY <1>6, <2>2, <2>3, <2>4, <2>5 DEF ReadCalendar
<1>7. CASE UseAlarm \/ GetCurrentTime \/ UNCHANGED vars
  <2>1. UNCHANGED <<cal, pc, first_read, date, sub, instant, round>>
    BY <1>7 DEF UseAlarm, GetCurrentTime, vars, readVars
  <2> QED BY <2>1 DEF ReadIsRecent
<1> QED BY <1>5, <1>6, <1>7 DEF Next

(* The value of a reading from the parts that were read.                    *)
LEMMA ValueWithDate ==
  ASSUME CountInv, date = DateOf(instant), sub = instant.SubSeconds
  PROVE  ValueRead = (Days(instant) * SECONDS_IN_1DAY + SecondOfDay(cal)) * TicksPerSecond
                       + (PREDIV_S - instant.SubSeconds)
<1>1. cal \in Fields /\ instant \in Calendars
  BY DEF CountInv, TypeOK, Calendars
<1>2. /\ date.Year = instant.Year
      /\ date.Month = instant.Month
      /\ date.Date = instant.Date
  BY DEF DateOf
<1> DEFINE x == [cal EXCEPT !.Year = date.Year, !.Month = date.Month, !.Date = date.Date,
                            !.SubSeconds = sub]
<1>3. /\ x.Year = instant.Year
      /\ x.Month = instant.Month
      /\ x.Date = instant.Date
      /\ x.Hours = cal.Hours
      /\ x.Minutes = cal.Minutes
      /\ x.Seconds = cal.Seconds
      /\ x.SubSeconds = instant.SubSeconds
  BY <1>1, <1>2 DEF Fields
<1>4. ValueRead = CalendarValue(x)
  BY DEF ValueRead
<1> HIDE DEF x
<1>5. Days(x) = Days(instant)
  BY <1>3 DEF Days
<1>6. SecondOfDay(x) = SecondOfDay(cal)
  BY <1>3 DEF SecondOfDay
<1> QED BY <1>3, <1>4, <1>5, <1>6 DEF CalendarValue

(* What a reading returns when its last register is read.                   *)
LEMMA ReadingAccurate ==
  ASSUME CountInv, ReadIsRecent, pc = "time", sub = first_read
  PROVE  ValueRead = CalendarValue(instant)
                       + (IF SecondOfDay(cal) # SecondOfDay(instant) THEN TicksPerSecond ELSE 0)
                       - (IF cal.Date # instant.Date THEN TicksPerDay ELSE 0)
<1>1. /\ cal \in Calendars /\ instant \in Calendars
      /\ CalendarValue(cal) \in Nat /\ CalendarValue(instant) \in Nat
  BY TimeFields DEF CountInv, TypeOK
<1>2. PICK first \in Calendars, dated \in Calendars :
        /\ first.SubSeconds = first_read
        /\ round \in 0..MaxRound
        /\ CalendarValue(cal) = CalendarValue(first) + round
        /\ sub = instant.SubSeconds
        /\ CalendarValue(instant) <= CalendarValue(cal)
        /\ date = DateOf(dated)
        /\ CalendarValue(first) <= CalendarValue(dated)
        /\ CalendarValue(dated) <= CalendarValue(instant)
  BY DEF ReadIsRecent
<1>3. CalendarValue(first) \in Nat /\ CalendarValue(dated) \in Nat
  BY TimeFields
<1>4. MaxRound \in 0..PREDIV_S
  BY RtcAssumption
<1>5. CalendarValue(instant) = CalendarValue(first)
  <2>0. CalendarValue(instant) - CalendarValue(first) \in 0..PREDIV_S
    BY <1>1, <1>2, <1>3, <1>4, Sizes
  <2>1. PICK n \in 0..PREDIV_S : CalendarValue(instant) = CalendarValue(first) + n
    BY <1>1, <1>3, <2>0
  <2>2. n = 0
    BY <1>1, <1>2, <2>1, WithinSecond
  <2> QED BY <1>3, <2>1, <2>2
<1>6. dated = instant
  <2>1. CalendarValue(dated) = CalendarValue(instant)
    BY <1>1, <1>2, <1>3, <1>5
  <2> QED BY <1>1, <2>1, SameValue
<1>7. PICK n \in 0..PREDIV_S : CalendarValue(cal) = CalendarValue(instant) + n
  BY <1>1, <1>2, <1>3, <1>4, <1>5, Sizes
<1>8. SecondsOf(cal) = SecondsOf(instant) \/ SecondsOf(cal) = SecondsOf(instant) + 1
  BY <1>1, <1>7, WithinSecond
<1>9. PICK D \in Nat, E \in Nat, s \in 0..(SECONDS_IN_1DAY - 1), t \in 0..(SECONDS_IN_1DAY - 1) :
        /\ D = Days(instant) /\ E = Days(cal)
        /\ s = SecondOfDay(instant) /\ t = SecondOfDay(cal)
  BY <1>1, DaysFromMonth, TimeFields
<1>10. PICK w \in 0..PREDIV_S : w = PREDIV_S - instant.SubSeconds
  BY <1>1, ValueOf, Sizes
<1>11. ValueRead = (D * SECONDS_IN_1DAY + t) * TicksPerSecond + w
  BY <1>2, <1>6, <1>9, <1>10, ValueWithDate
<1>12. CalendarValue(instant) = (D * SECONDS_IN_1DAY + s) * TicksPerSecond + w
  BY <1>9, <1>10 DEF CalendarValue
<1>13. \/ E * SECONDS_IN_1DAY + t = D * SECONDS_IN_1DAY + s
       \/ E * SECONDS_IN_1DAY + t = D * SECONDS_IN_1DAY + s + 1
  BY <1>8, <1>9 DEF SecondsOf
<1>14. D * SECONDS_IN_1DAY \in Int
  BY Sizes
<1>15. (D * SECONDS_IN_1DAY + s) * TicksPerSecond \in Int
  BY <1>14, Sizes
<1>16. CASE E * SECONDS_IN_1DAY + t = D * SECONDS_IN_1DAY + s
  <2>1. E = D /\ t = s
    <3>1. SECONDS_IN_1DAY \in Nat \ {0}
      BY Sizes
    <3>2. D \in Int /\ E \in Int
      OBVIOUS
    <3> QED BY <1>16, <3>1, <3>2, Euclid, Zenon
  <2>2. cal.Date = instant.Date
    BY <1>1, <1>9, <2>1, DateSameOrNext
  <2>3. ValueRead = CalendarValue(instant)
    BY <1>11, <1>12, <2>1
  <2> QED BY <1>1, <1>9, <2>1, <2>2, <2>3
<1>17. CASE E * SECONDS_IN_1DAY + t = D * SECONDS_IN_1DAY + s + 1 /\ s + 1 < SECONDS_IN_1DAY
  <2>1. E = D /\ t = s + 1
    <3>1. SECONDS_IN_1DAY \in Nat \ {0}
      BY Sizes
    <3>2. PICK v \in 0..(SECONDS_IN_1DAY - 1) : v = s + 1
      BY <1>17, Sizes
    <3>3. E * SECONDS_IN_1DAY + t = D * SECONDS_IN_1DAY + v
      BY <1>14, <1>17, <3>2
    <3>4. E \in Int
      OBVIOUS
    <3>5. D \in Int
      OBVIOUS
    <3>6. E = D /\ t = v
      BY <3>1, <3>3, <3>4, <3>5, SMT
    <3> QED BY <3>2, <3>6
  <2>2. cal.Date = instant.Date
    BY <1>1, <1>9, <2>1, DateSameOrNext
  <2>3. SecondOfDay(cal) # SecondOfDay(instant)
    BY <1>9, <2>1
  <2>4. D * SECONDS_IN_1DAY + t = D * SECONDS_IN_1DAY + s + 1
    BY <1>14, <2>1
  <2>5. (D * SECONDS_IN_1DAY + s + 1) * TicksPerSecond
          = (D * SECONDS_IN_1DAY + s) * TicksPerSecond + TicksPerSecond
    BY <1>14, Sizes, Product
  <2>6. ValueRead = CalendarValue(instant) + TicksPerSecond
    BY <1>11, <1>12, <1>15, <2>4, <2>5, Sizes
  <2> QED BY <2>2, <2>3, <2>6, <1>1, Sizes
<1>18. CASE E * SECONDS_IN_1DAY + t = D * SECONDS_IN_1DAY + s + 1 /\ ~(s + 1 < SECONDS_IN_1DAY)
  <2>1. s = SECONDS_IN_1DAY - 1
    BY <1>18, Sizes
  <2>2. (D + 1) * SECONDS_IN_1DAY = D * SECONDS_IN_1DAY + SECONDS_IN_1DAY
    BY Sizes
  <2>3. E = D + 1 /\ t = 0
    <3>1. SECONDS_IN_1DAY \in Nat \ {0}
      BY Sizes
    <3>2. D + 1 \in Int /\ E \in Int /\ 0 \in 0..(SECONDS_IN_1DAY - 1)
      BY Sizes
    <3>3. E * SECONDS_IN_1DAY + t = (D + 1) * SECONDS_IN_1DAY + 0
      BY <1>14, <1>18, <2>1, <2>2, Sizes
    <3> QED BY <3>1, <3>2, <3>3, Euclid, Zenon
  <2>4. cal.Date # instant.Date
    BY <1>1, <1>9, <2>3, DateSameOrNext
  <2>5. SecondOfDay(cal) # SecondOfDay(instant)
    BY <1>9, <2>1, <2>3, Sizes
  <2>6. (D * SECONDS_IN_1DAY + s) * TicksPerSecond
          = (D * SECONDS_IN_1DAY) * TicksPerSecond + s * TicksPerSecond
    BY <1>14, Sizes, Product
  <2>7. s * TicksPerSecond = TicksPerDay - TicksPerSecond
    BY <2>1, Sizes, Product DEF TicksPerDay
  <2>8. D * SECONDS_IN_1DAY + t = D * SECONDS_IN_1DAY
    BY <1>14, <2>3
  <2>9. (D * SECONDS_IN_1DAY) * TicksPerSecond \in Int
    BY <1>14, Sizes
  <2>10. ValueRead = CalendarValue(instant) + TicksPerSecond - TicksPerDay
    BY <1>11, <1>12, <2>6, <2>7, <2>8, <2>9, Sizes
  <2> QED BY <2>4, <2>5, <2>10
<1> QED BY <1>13, <1>16, <1>17, <1>18

(* HW_RTC_GetCalendarValue (hw_rtc.c:573) returns the time at which it read *)
(* the sub-seconds that it read twice, but for a second, or a second and a  *)
(* day, that ends before it reads TR.                                       *)
THEOREM ReadTrue == Spec => ReadUpToCarry
<1>1. Init => ReadIsRecent
  BY DEF Init, ReadIsRecent
<1>2. CountInv /\ ReadIsRecent /\ [Next]_vars => ReadIsRecent'
  BY StepRead
<1>3. ASSUME CountInv, ReadIsRecent, [Next]_vars, pc = "time", pc' = "idle"
      PROVE  sub = first_read
  <2>1. CASE ReadTime
    BY <1>3, <2>1 DEF ReadTime
  <2>2. CASE ReadFirst \/ ReadDate \/ ReadSubSeconds
    BY <1>3, <2>2 DEF ReadFirst, ReadDate, ReadSubSeconds
  <2>3. CASE Tick \/ UseAlarm \/ GetCurrentTime \/ UNCHANGED vars
    BY <1>3, <2>3 DEF Tick, UseAlarm, GetCurrentTime, vars, readVars
  <2> QED BY <1>3, <2>1, <2>2, <2>3 DEF Next, ReadCalendar
<1>4. ASSUME CountInv, ReadIsRecent, [Next]_vars
      PROVE  [pc = "time" /\ pc' = "idle" =>
                LET secondEnded == SecondOfDay(cal) # SecondOfDay(instant)
                    dayEnded == cal.Date # instant.Date
                IN ValueRead = CalendarValue(instant)
                                 + (IF secondEnded THEN TicksPerSecond ELSE 0)
                                 - (IF dayEnded THEN TicksPerDay ELSE 0)]_vars
  BY <1>3, <1>4, ReadingAccurate
<1> QED BY <1>1, <1>2, <1>4, Counting, PTL DEF Spec, ReadUpToCarry

(*****************************************************************************)
(* The alarm                                                                 *)
(*****************************************************************************)

(* TimerSetTimeout asks for an alarm when its first timer expires, which no  *)
(* delay of the MAC puts a month ahead.                                      *)
ShorterThanAMonth == \A timeout \in Timeouts : timeout < 27 * TicksPerDay

(* The calendar has shown every tick since the context was set.              *)
Passed ==
  \A v \in CalendarValue(context)..CalendarValue(cal) :
    \E a \in Calendars : CalendarValue(a) = v

(* The time of the alarm is ahead: HW_RTC_StartWakeUpAlarm found its fields *)
(* from some context...                                                     *)
AlarmIsAhead ==
  /\ left > 0
  /\ \E c \in Calendars, timeout \in Nat :
       /\ timeout < 27 * TicksPerDay
       /\ alarm = AlarmAt(c, timeout)
       /\ CalendarValue(c) <= CalendarValue(cal)
       /\ CalendarValue(c) + timeout = CalendarValue(cal) + left

(* ...or it is past, and the calendar has shown it.                         *)
AlarmIsBehind ==
  /\ left <= 0
  /\ alarm \in AlarmRecords
  /\ \E a \in Calendars :
       /\ CalendarValue(a) = CalendarValue(cal) + left
       /\ Matches(alarm, a)

(* The inductive invariant of the alarm.                                    *)
AlarmInv == Passed /\ (alarm # None => AlarmIsAhead \/ AlarmIsBehind)

(* The invariant holds at the start.                                        *)
LEMMA InitAlarm == Init => AlarmInv
<1> SUFFICES ASSUME Init PROVE AlarmInv
  OBVIOUS
<1>1. context = cal /\ alarm = None /\ cal \in Calendars
  BY RtcAssumption DEF Init
<1>2. CalendarValue(cal) \in Nat
  BY <1>1, TimeFields
<1>3. Passed
  <2> SUFFICES ASSUME NEW v \in CalendarValue(cal)..CalendarValue(cal)
               PROVE  \E a \in Calendars : CalendarValue(a) = v
    BY <1>1 DEF Passed
  <2>1. v = CalendarValue(cal)
    BY <1>2
  <2> QED BY <1>1, <2>1
<1> QED BY <1>1, <1>3 DEF AlarmInv

(* A tick keeps the invariant; when the time of the alarm comes, the fields *)
(* match.                                                                   *)
LEMMA TickAlarm ==
  ASSUME CountInv, AlarmInv, Tick
  PROVE  AlarmInv'
<1>1. /\ cal \in Calendars /\ cal' \in Calendars /\ context \in Calendars
      /\ left \in Int /\ CalendarValue(cal') = CalendarValue(cal) + 1
      /\ context' = context /\ alarm' = alarm
      /\ left' = IF alarm = None THEN 0 ELSE left - 1
  BY TickCounts DEF CountInv, TypeOK, Tick
<1>2. CalendarValue(cal) \in Nat /\ CalendarValue(cal') \in Nat /\ CalendarValue(context) \in Nat
  BY <1>1, TimeFields
<1>3. Passed'
  <2> SUFFICES ASSUME NEW v \in CalendarValue(context)..CalendarValue(cal')
               PROVE  \E a \in Calendars : CalendarValue(a) = v
    BY <1>1 DEF Passed
  <2>1. CASE v = CalendarValue(cal')
    BY <1>1, <2>1
  <2>2. CASE v # CalendarValue(cal')
    <3>1. v \in CalendarValue(context)..CalendarValue(cal)
      BY <1>1, <1>2, <2>2
    <3> QED BY <3>1 DEF AlarmInv, Passed
  <2> QED BY <2>1, <2>2
<1>4. ASSUME alarm # None PROVE (AlarmIsAhead \/ AlarmIsBehind)'
  <2>1. left' = left - 1
    BY <1>1, <1>4
  <2>2. CASE AlarmIsAhead
    <3>1. PICK c \in Calendars, timeout \in Nat :
            /\ timeout < 27 * TicksPerDay
            /\ alarm = AlarmAt(c, timeout)
            /\ CalendarValue(c) <= CalendarValue(cal)
            /\ CalendarValue(c) + timeout = CalendarValue(cal) + left
      BY <2>2 DEF AlarmIsAhead
    <3>2. CalendarValue(c) \in Nat
      BY TimeFields
    <3>3. /\ CalendarValue(c) <= CalendarValue(cal')
          /\ CalendarValue(c) + timeout = CalendarValue(cal') + (left - 1)
      BY <1>1, <1>2, <3>1, <3>2
    <3>4. left > 0
      BY <2>2 DEF AlarmIsAhead
    <3>5. CASE left - 1 > 0
      BY <1>1, <2>1, <3>1, <3>3, <3>5 DEF AlarmIsAhead
    <3>6. CASE left = 1
      <4>1. CalendarValue(cal') = CalendarValue(c) + timeout
        BY <1>2, <3>2, <3>3, <3>6
      <4>2. Matches(AlarmAt(c, timeout), cal')
        BY <1>1, <1>2, <3>1, <3>2, <3>3, <4>1, AlarmAhead
      <4>3. CalendarValue(cal') = CalendarValue(cal') + (left - 1)
        BY <1>2, <3>6
      <4>4. AlarmAt(c, timeout) \in AlarmRecords
        BY AlarmFields
      <4> QED BY <1>1, <2>1, <3>1, <3>6, <4>2, <4>3, <4>4 DEF AlarmIsBehind
    <3> QED BY <1>1, <3>4, <3>5, <3>6
  <2>3. CASE AlarmIsBehind
    <3>1. CalendarValue(cal') + (left - 1) = CalendarValue(cal) + left
      BY <1>1, <1>2
    <3> QED BY <1>1, <2>1, <2>3, <3>1 DEF AlarmIsBehind
  <2> QED BY <1>4, <2>2, <2>3 DEF AlarmInv
<1> QED BY <1>1, <1>3, <1>4 DEF AlarmInv

(* HW_RTC_StartWakeUpAlarm makes the invariant true, even if the context is *)
(* so old that the elapsed ticks have wrapped.                              *)
LEMMA StartAlarm ==
  ASSUME ShorterThanAMonth, CountInv, AlarmInv, NEW timeout \in Timeouts,
         StartWakeUpAlarm(timeout), cal' = cal
  PROVE  AlarmInv'
<1>1. /\ context' = context /\ alarm' = AlarmAt(context, timeout) /\ left' = timeout - since
  BY DEF StartWakeUpAlarm
<1>2. timeout \in Nat /\ timeout < 27 * TicksPerDay
  BY RtcAssumption DEF ShorterThanAMonth
<1>3. cal \in Calendars /\ context \in Calendars /\ since \in Nat
      /\ CalendarValue(cal) = CalendarValue(context) + since
  BY DEF CountInv, TypeOK, CountsSinceContext
<1>4. CalendarValue(cal) \in Nat /\ CalendarValue(context) \in Nat
  BY <1>3, TimeFields
<1>5. Passed'
  BY <1>1 DEF AlarmInv, Passed
<1>6. PICK n \in Int : n = timeout - since
  BY <1>2, <1>3
<1>7. /\ CalendarValue(context) <= CalendarValue(cal)
      /\ CalendarValue(context) + timeout = CalendarValue(cal) + n
  BY <1>2, <1>3, <1>4, <1>6
<1>8. CASE n > 0
  BY <1>1, <1>2, <1>3, <1>6, <1>7, <1>8, <1>5 DEF AlarmInv, AlarmIsAhead
<1>9. CASE n <= 0
  <2>1. CalendarValue(cal) + n \in CalendarValue(context)..CalendarValue(cal)
    BY <1>2, <1>4, <1>7, <1>9
  <2>2. \E a \in Calendars : CalendarValue(a) = CalendarValue(cal) + n
    BY <2>1 DEF AlarmInv, Passed
  <2>3. /\ AlarmAt(context, timeout) \in AlarmRecords
        /\ \E a \in Calendars :
             /\ CalendarValue(a) = CalendarValue(cal) + n
             /\ Matches(AlarmAt(context, timeout), a)
    BY <1>2, <1>3, <1>7, <1>9, <2>2, AlarmSet
  <2> QED BY <1>1, <1>5, <1>6, <1>9, <2>3 DEF AlarmInv, AlarmIsBehind
<1> QED BY <1>6, <1>8, <1>9

(* Every step keeps the invariant.                                          *)
LEMMA StepAlarm ==
  ASSUME ShorterThanAMonth, CountInv, AlarmInv, [Next]_vars
  PROVE  AlarmInv'
<1>1. CASE Tick
  BY <1>1, TickAlarm
<1>2. CASE UseAlarm
  <2>1. cal' = cal
    BY <1>2 DEF UseAlarm
  <2>2. CASE SetTimerContext
    <3>1. context' = cal /\ alarm' = alarm /\ left' = left
      BY <2>2 DEF SetTimerContext
    <3>2. cal \in Calendars /\ context \in Calendars
      BY DEF CountInv, TypeOK
    <3>3. CalendarValue(cal) \in Nat
      BY <3>2, TimeFields
    <3>4. Passed'
      <4> SUFFICES ASSUME NEW v \in CalendarValue(cal)..CalendarValue(cal)
                   PROVE  \E a \in Calendars : CalendarValue(a) = v
        BY <2>1, <3>1 DEF Passed
      <4>1. v = CalendarValue(cal)
        BY <3>3
      <4> QED BY <3>2, <4>1
    <3> QED BY <2>1, <3>1, <3>4 DEF AlarmInv, AlarmIsAhead, AlarmIsBehind
  <2>3. CASE StopAlarm
    BY <2>1, <2>3 DEF StopAlarm, AlarmInv, Passed
  <2>4. ASSUME NEW timeout \in Timeouts, StartWakeUpAlarm(timeout) PROVE AlarmInv'
    BY <2>1, <2>4, StartAlarm
  <2> QED BY <1>2, <2>2, <2>3, <2>4 DEF UseAlarm
<1>3. CASE ReadCalendar \/ GetCurrentTime \/ UNCHANGED vars
  <2>1. UNCHANGED <<cal, context, alarm, left>>
    BY <1>3 DEF ReadCalendar, GetCurrentTime, vars, alarmVars
  <2> QED BY <2>1 DEF AlarmInv, Passed, AlarmIsAhead, AlarmIsBehind
<1> QED BY <1>1, <1>2, <1>3 DEF Next

(* Of alarms less than 27 days ahead: the fields that                       *)
(* HW_RTC_StartWakeUpAlarm (hw_rtc.c) writes match the calendar at the time *)
(* that was asked for, not before, and not again for 28 days, whatever      *)
(* field overflows.                                                         *)
THEOREM AlarmTrue ==
  ASSUME ShorterThanAMonth
  PROVE  Spec => []AlarmOnTime
<1>1. Init => CountInv /\ AlarmInv
  BY InitCount, InitAlarm
<1>2. CountInv /\ AlarmInv /\ [Next]_vars => (CountInv /\ AlarmInv)'
  <2> SUFFICES ASSUME CountInv, AlarmInv, [Next]_vars PROVE CountInv' /\ AlarmInv'
    OBVIOUS
  <2>1. CountInv'
    BY StepCount
  <2>2. AlarmInv'
    BY ShorterThanAMonth, StepAlarm
  <2> QED BY <2>1, <2>2
<1>3. CountInv /\ AlarmInv => AlarmOnTime
  <2> SUFFICES ASSUME CountInv, AlarmInv, alarm # None, left > 0 - (28 * TicksPerDay)
               PROVE  Matches(alarm, cal) <=> left = 0
    BY DEF AlarmOnTime
  <2>1. cal \in Calendars /\ left \in Int
    BY DEF CountInv, TypeOK
  <2>2. CalendarValue(cal) \in Nat
    BY <2>1, TimeFields
  <2>3. CASE AlarmIsAhead
    <3>1. PICK c \in Calendars, timeout \in Nat :
            /\ timeout < 27 * TicksPerDay
            /\ alarm = AlarmAt(c, timeout)
            /\ CalendarValue(c) <= CalendarValue(cal)
            /\ CalendarValue(c) + timeout = CalendarValue(cal) + left
      BY <2>3 DEF AlarmIsAhead
    <3>2. CalendarValue(c) \in Nat /\ left > 0
      BY <2>3, TimeFields DEF AlarmIsAhead
    <3>3. CalendarValue(cal) < CalendarValue(c) + timeout
      BY <2>1, <2>2, <3>1, <3>2
    <3>4. Matches(alarm, cal) <=> CalendarValue(cal) = CalendarValue(c) + timeout
      BY <2>1, <2>2, <3>1, <3>2, <3>3, AlarmAhead
    <3> QED BY <2>1, <2>2, <3>2, <3>3, <3>4
  <2>4. CASE AlarmIsBehind
    <3>1. PICK a \in Calendars : CalendarValue(a) = CalendarValue(cal) + left /\ Matches(alarm, a)
      BY <2>4 DEF AlarmIsBehind
    <3>2. left <= 0 /\ alarm \in AlarmRecords
      BY <2>4 DEF AlarmIsBehind
    <3>3. CalendarValue(a) \in Nat /\ 28 * TicksPerDay \in Nat
      BY TimeFields, Sizes
    <3>4. /\ CalendarValue(a) <= CalendarValue(cal)
          /\ CalendarValue(cal) < CalendarValue(a) + 28 * TicksPerDay
      BY <2>1, <2>2, <3>1, <3>2, <3>3
    <3>5. Matches(alarm, cal) => CalendarValue(cal) = CalendarValue(a)
      BY <2>1, <3>1, <3>2, <3>4, AlarmBehind
    <3>6. CalendarValue(cal) = CalendarValue(a) => cal = a
      BY <2>1, SameValue
    <3> QED BY <2>1, <2>2, <3>1, <3>3, <3>5, <3>6
  <2> QED BY <2>3, <2>4 DEF AlarmInv
<1> QED BY <1>1, <1>2, <1>3, PTL DEF Spec

(*****************************************************************************)
(* The duty cycle                                                            *)
(*****************************************************************************)

(* The duty cycles of a DutyCycleReq.                                       *)
LEMMA PowersOfTwo ==
  ASSUME NEW e \in 0..15
  PROVE  2^e \in Nat \ {0}
<1>1. CASE e = 0
  BY <1>1, 2^0 = 1
<1>2. CASE e = 1
  BY <1>2, 2^1 = 2
<1>3. CASE e = 2
  BY <1>3, 2^2 = 4
<1>4. CASE e = 3
  BY <1>4, 2^3 = 8
<1>5. CASE e = 4
  BY <1>5, 2^4 = 16
<1>6. CASE e = 5
  BY <1>6, 2^5 = 32
<1>7. CASE e = 6
  BY <1>7, 2^6 = 64
<1>8. CASE e = 7
  BY <1>8, 2^7 = 128
<1>9. CASE e = 8
  BY <1>9, 2^8 = 256
<1>10. CASE e = 9
  BY <1>10, 2^9 = 512
<1>11. CASE e = 10
  BY <1>11, 2^10 = 1024
<1>12. CASE e = 11
  BY <1>12, 2^11 = 2048
<1>13. CASE e = 12
  BY <1>13, 2^12 = 4096
<1>14. CASE e = 13
  BY <1>14, 2^13 = 8192
<1>15. CASE e = 14
  BY <1>15, 2^14 = 16384
<1>16. CASE e = 15
  BY <1>16, 2^15 = 32768
<1> QED BY <1>1, <1>2, <1>3, <1>4, <1>5, <1>6, <1>7, <1>8,
       <1>9, <1>10, <1>11, <1>12, <1>13, <1>14, <1>15, <1>16

(* Ms2Tick rounds down what does not wrap.                                  *)
LEMMA Ms2TickIs ==
  ASSUME NEW ms \in Nat, ms * TicksPerSecond < TickMod * MSEC_NUMBER
  PROVE  /\ Ms2Tick(ms) \in Nat
         /\ Ms2Tick(ms) * MSEC_NUMBER <= ms * TicksPerSecond
         /\ ms * TicksPerSecond < Ms2Tick(ms) * MSEC_NUMBER + MSEC_NUMBER
<1>1. ms * TicksPerSecond \in Nat
  BY Sizes
<1>2. PICK q \in Nat, r \in 0..(MSEC_NUMBER - 1) :
        /\ q = (ms * TicksPerSecond) \div MSEC_NUMBER
        /\ r = (ms * TicksPerSecond) % MSEC_NUMBER
        /\ ms * TicksPerSecond = q * MSEC_NUMBER + r
  <2>1. MSEC_NUMBER \in Nat \ {0}
    BY ClockSizes
  <2> QED BY <1>1, <2>1, Quotient, Zenon
<1>3. q * MSEC_NUMBER \in Nat /\ r \in Nat /\ r < MSEC_NUMBER
  <2>1. r \in Int /\ 0 <= r /\ r < MSEC_NUMBER
    BY ClockSizes
  <2>2. q * MSEC_NUMBER \in Nat
    BY ClockSizes
  <2> QED BY <2>1, <2>2
<1>4. q < TickMod
  <2>1. q * MSEC_NUMBER < TickMod * MSEC_NUMBER
    BY <1>1, <1>2, <1>3, ClockSizes
  <2>2. q \in Int /\ TickMod \in Int
    BY <1>2, ClockSizes
  <2> QED BY <2>1, <2>2, ClockSizes, CancelProduct
<1>5. Ms2Tick(ms) = q % TickMod
  BY <1>2 DEF Ms2Tick
<1>6. q % TickMod = q
  <2>1. q \in 0..(TickMod - 1)
    BY <1>2, <1>4, ClockSizes
  <2> QED BY <2>1, ClockSizes
<1>7. Ms2Tick(ms) = q
  BY <1>5, <1>6
<1>8. q * MSEC_NUMBER <= ms * TicksPerSecond
  BY <1>1, <1>2, <1>3
<1>9. ms * TicksPerSecond < q * MSEC_NUMBER + MSEC_NUMBER
  BY <1>1, <1>2, <1>3, ClockSizes
<1> QED BY <1>2, <1>7, <1>8, <1>9

(* What the conversions lose of a delay is less than the shortest one.       *)
LEMMA DelayEnds ==
  ASSUME NEW old \in Nat, NEW off \in Nat, NEW ms \in Nat,
         off * TicksPerSecond < TickMod * MSEC_NUMBER,
         Tick2ms(old) <= ms, ms < off,
         PREDIV_S <= MSEC_NUMBER * MIN_ALARM_DELAY
  PROVE  /\ off - ms \in Nat
         /\ old <= Ms2Tick(off)
         /\ old + Ms2Tick(off - ms) <= Ms2Tick(off) + MIN_ALARM_DELAY
         /\ Ms2Tick(off - ms) \in Nat
         /\ Ms2Tick(off) \in Nat
<1>1. /\ Tick2ms(old) \in Nat
      /\ old * MSEC_NUMBER < Tick2ms(old) * TicksPerSecond + TicksPerSecond
  BY Tick2msIs
<1>2. PICK rest \in Nat : rest = off - ms
  OBVIOUS
<1>3. rest + Tick2ms(old) <= off /\ Tick2ms(old) + 1 <= off /\ rest <= off
  BY <1>1, <1>2
<1>4. (rest + Tick2ms(old)) * TicksPerSecond <= off * TicksPerSecond
  <2>1. rest + Tick2ms(old) \in Int /\ off \in Int /\ TicksPerSecond \in Nat
    BY <1>1, <1>2, Sizes
  <2> QED BY <1>3, <2>1, ProductOrder
<1>5. (Tick2ms(old) + 1) * TicksPerSecond <= off * TicksPerSecond
  <2>1. Tick2ms(old) + 1 \in Int /\ off \in Int /\ TicksPerSecond \in Nat
    BY <1>1, <1>2, Sizes
  <2> QED BY <1>3, <2>1, ProductOrder
<1>6. rest * TicksPerSecond <= off * TicksPerSecond
  <2>1. rest \in Int /\ off \in Int /\ TicksPerSecond \in Nat
    BY <1>2, Sizes
  <2> QED BY <1>3, <2>1, ProductOrder
<1>7. MIN_ALARM_DELAY \in Nat \ {0}
  BY RtcAssumption
<1> DEFINE T == TicksPerSecond
           M == MSEC_NUMBER
           s == Tick2ms(old)
           rT == rest * TicksPerSecond
           sT == Tick2ms(old) * TicksPerSecond
           oT == off * TicksPerSecond
           oM == old * MSEC_NUMBER
<1>8. rT \in Nat /\ sT \in Nat /\ oT \in Nat /\ oM \in Nat
  BY <1>1, <1>2, Sizes, ClockSizes
<1>9. (rest + s) * T = rT + sT /\ (s + 1) * T = sT + T
  BY <1>1, <1>2, Sizes, Product
<1>10. rT < TickMod * MSEC_NUMBER
  <2>1. TickMod * MSEC_NUMBER \in Nat
    BY ClockSizes
  <2> QED BY <1>6, <1>8, <2>1
<1> DEFINE a == Ms2Tick(rest)
           b == Ms2Tick(off)
           aM == Ms2Tick(rest) * MSEC_NUMBER
           bM == Ms2Tick(off) * MSEC_NUMBER
<1>11. /\ a \in Nat /\ b \in Nat
       /\ aM <= rT /\ oT < bM + M
  BY <1>2, <1>10, Ms2TickIs
<1>12. aM \in Nat /\ bM \in Nat /\ M \in Nat \ {0} /\ T \in Nat \ {0} /\ T = PREDIV_S + 1
       /\ PREDIV_S \in Nat
  BY <1>11, Sizes, ClockSizes
<1>13. rT + sT <= oT /\ sT + T <= oT /\ oM < sT + T
  BY <1>1, <1>4, <1>5, <1>9
<1> HIDE DEF T, s, rT, sT, oT, oM, aM, bM
<1>14. old < b + 1
  <2>1. oM < bM + M
    BY <1>8, <1>11, <1>12, <1>13
  <2>2. (b + 1) * MSEC_NUMBER = bM + M
    BY <1>11, ClockSizes DEF bM
  <2>3. old * MSEC_NUMBER < (b + 1) * MSEC_NUMBER
    BY <2>1, <2>2 DEF oM
  <2>4. old \in Int /\ b + 1 \in Int
    BY <1>11
  <2> QED BY <2>3, <2>4, ClockSizes, CancelProduct
<1>15. old + a < b + MIN_ALARM_DELAY + 1
  <2>1. oM + aM < bM + M + PREDIV_S
    BY <1>8, <1>11, <1>12, <1>13
  <2>2. MSEC_NUMBER * MIN_ALARM_DELAY = MIN_ALARM_DELAY * MSEC_NUMBER
        /\ MIN_ALARM_DELAY * MSEC_NUMBER \in Nat
    BY <1>7, ClockSizes
  <2>3. (b + MIN_ALARM_DELAY + 1) * MSEC_NUMBER = bM + MIN_ALARM_DELAY * MSEC_NUMBER + M
    BY <1>7, <1>11, ClockSizes DEF bM
  <2>4. (old + a) * MSEC_NUMBER = oM + aM
    BY <1>11, ClockSizes DEF aM, oM
  <2>5. (old + a) * MSEC_NUMBER < (b + MIN_ALARM_DELAY + 1) * MSEC_NUMBER
    BY <1>8, <1>12, <2>1, <2>2, <2>3, <2>4
  <2>6. old + a \in Int /\ b + MIN_ALARM_DELAY + 1 \in Int
    BY <1>7, <1>11
  <2> QED BY <2>5, <2>6, ClockSizes, CancelProduct
<1>16. old <= b /\ old + a <= b + MIN_ALARM_DELAY
  BY <1>7, <1>11, <1>14, <1>15
<1> QED BY <1>2, <1>11, <1>16

(* What is left of the time-off when the duty cycle refuses a transmission,  *)
(* and until when TxDelayedTimer waits.                                      *)
DutyInv ==
  /\ TxTimeOnAir \in TimesOnAir \cup {0}
  /\ AggregatedDCycle \in {1} \cup {2^maxDCycle : maxDCycle \in MaxDCycles}
  /\ timer \in Nat
  /\ between \in Nat
  /\ phase \in {"restricted", "delayed"} => stamp # None
  /\ phase = "restricted" /\ between = 0 => AggregatedTimeOff > ElapsedMs
  /\ phase = "forgotten" => overtaken /\ between > 0
  /\ phase = "delayed" /\ timer > 0 /\ age + TicksPerSecond <= TickMod =>
       \/ overtaken /\ between > 0
       \/ age + timer <= Ms2Tick(AggregatedTimeOff) + MIN_ALARM_DELAY

(* A time-off fits into the ticks.                                          *)
LEMMA TimeOffFits ==
  ASSUME DutyInv
  PROVE  /\ AggregatedTimeOff \in Nat
         /\ AggregatedTimeOff < MsMod
         /\ AggregatedTimeOff * TicksPerSecond < TickMod * MSEC_NUMBER
<1>1. MsMod \in Nat \ {0} /\ TimesOnAir \subseteq Nat \ {0} /\ MaxDCycles \subseteq 0..15
  BY DutyCycleAssumption
<1>2. TxTimeOnAir \in Nat
  BY <1>1 DEF DutyInv
<1>3. TickMod * MSEC_NUMBER \in Nat /\ 0 < TickMod * MSEC_NUMBER
  BY ClockSizes
<1>4. PICK off \in Nat : off = TxTimeOnAir * AggregatedDCycle - TxTimeOnAir
                         /\ off * TicksPerSecond < TickMod * MSEC_NUMBER
  <2>1. CASE AggregatedDCycle = 1 \/ TxTimeOnAir = 0
    <3>1. AggregatedDCycle \in Nat
      <4>1. CASE AggregatedDCycle = 1
        BY <4>1
      <4>2. ASSUME NEW e \in MaxDCycles, AggregatedDCycle = 2^e PROVE AggregatedDCycle \in Nat
        BY <1>1, <4>2, PowersOfTwo
      <4> QED BY <4>1, <4>2 DEF DutyInv
    <3>2. TxTimeOnAir * AggregatedDCycle - TxTimeOnAir = 0
      BY <1>2, <2>1, <3>1
    <3>3. 0 * TicksPerSecond = 0
      BY Sizes
    <3> QED BY <1>3, <3>2, <3>3
  <2>2. ASSUME TxTimeOnAir # 0, NEW e \in MaxDCycles, AggregatedDCycle = 2^e
        PROVE  \E off \in Nat : /\ off = TxTimeOnAir * AggregatedDCycle - TxTimeOnAir
                                /\ off * TicksPerSecond < TickMod * MSEC_NUMBER
    <3>1. TxTimeOnAir \in TimesOnAir
      BY <2>2 DEF DutyInv
    <3>2. TxTimeOnAir * AggregatedDCycle * TicksPerSecond < TickMod * MSEC_NUMBER
      BY <2>2, <3>1, DutyCycleAssumption
    <3>3. AggregatedDCycle \in Nat \ {0}
      BY <1>1, <2>2, PowersOfTwo
    <3>4. PICK off \in Nat : off = TxTimeOnAir * AggregatedDCycle - TxTimeOnAir
      BY <1>2, <3>3
    <3>5. TxTimeOnAir * AggregatedDCycle \in Nat
      BY <1>2, <3>3
    <3>6. off <= TxTimeOnAir * AggregatedDCycle
      BY <1>2, <3>4, <3>5
    <3>7. off * TicksPerSecond <= TxTimeOnAir * AggregatedDCycle * TicksPerSecond
      <4>1. off \in Int /\ TxTimeOnAir * AggregatedDCycle \in Int /\ TicksPerSecond \in Nat
        BY <3>5, Sizes
      <4> QED BY <3>6, <4>1, ProductOrder
    <3>8. off * TicksPerSecond \in Nat /\ TxTimeOnAir * AggregatedDCycle * TicksPerSecond \in Nat
      BY <3>5, Sizes
    <3> QED BY <1>3, <3>2, <3>4, <3>7, <3>8
  <2> QED BY <2>1, <2>2 DEF DutyInv
<1>5. AggregatedTimeOff = off % MsMod
  BY <1>4 DEF AggregatedTimeOff
<1>6. off % MsMod \in Nat /\ off % MsMod <= off /\ off % MsMod < MsMod
  <2>1. off % MsMod \in 0..(MsMod - 1)
    BY <1>1
  <2>2. off % MsMod \in Nat /\ off % MsMod <= off
    BY <1>1, DivModNat
  <2> QED BY <1>1, <2>1, <2>2
<1>7. (off % MsMod) * TicksPerSecond <= off * TicksPerSecond
  <2>1. off % MsMod \in Int /\ off \in Int /\ TicksPerSecond \in Nat
    BY <1>6, Sizes
  <2> QED BY <1>6, <2>1, ProductOrder
<1>8. (off % MsMod) * TicksPerSecond \in Nat /\ off * TicksPerSecond \in Nat
  BY <1>6, Sizes
<1> QED BY <1>3, <1>4, <1>5, <1>6, <1>7, <1>8

(* What TimerGetElapsedTime may say of the end of the last transmission.    *)
LEMMA StampAge ==
  ASSUME CountInv, stamp # None
  PROVE  /\ ElapsedMs \in Nat
         /\ Tick2ms(age) \in Nat
         /\ ElapsedMs <= Tick2ms(age) + 2
         /\ age + TicksPerSecond <= TickMod => Tick2ms(age) <= ElapsedMs
<1>1. cal \in Calendars /\ age \in Nat
  BY DEF CountInv, TypeOK
<1>2. CalendarValue(cal) \in Nat
  BY <1>1, TimeFields
<1>3. age <= CalendarValue(cal) /\ stamp = Tick2ms((CalendarValue(cal) - age) % TickMod)
  BY DEF CountInv, StampIsOld
<1>4. ElapsedMs = Tick2ms((CalendarValue(cal) - Ms2Tick(stamp)) % TickMod)
  BY DEF ElapsedMs, GetElapsedTime
<1>5. /\ ElapsedMs \in Nat
      /\ ElapsedMs <= Tick2ms(age) + 2
      /\ age + TicksPerSecond <= TickMod => ElapsedMs - Tick2ms(age) \in 0..2
  BY <1>1, <1>2, <1>3, <1>4, AgeOfStamp
<1>6. Tick2ms(age) \in Nat
  BY <1>1, Tick2msIs
<1> QED BY <1>5, <1>6

(* The duty cycle uses the clock as Rtc allows.                             *)
LEMMA DutyStepsClock ==
  ASSUME DutyNext \/ UNCHANGED <<vars, dutyVars>>
  PROVE  [Next]_vars
<1>1. CASE Tick /\ DutyTick
  BY <1>1 DEF Next
<1>2. CASE UseDutyCycle
  <2>1. CASE TxDone
    BY <1>2, <2>1 DEF UseDutyCycle, TxDone, Next, GetCurrentTime
  <2>2. CASE UNCHANGED stampVars
    BY <1>2, <2>2 DEF UseDutyCycle, vars
  <2> QED BY <1>2, <2>1, <2>2 DEF UseDutyCycle
<1>3. CASE UNCHANGED <<vars, dutyVars>>
  BY <1>3
<1> QED BY <1>1, <1>2, <1>3 DEF DutyNext

(* The invariant holds at the start.                                        *)
LEMMA InitDuty == DutyInit => CountInv /\ DutyInv
<1> SUFFICES ASSUME DutyInit PROVE CountInv /\ DutyInv
  OBVIOUS
<1>1. CountInv
  BY InitCount DEF DutyInit
<1>2. DutyInv
  BY DEF DutyInit, DutyInv
<1> QED BY <1>1, <1>2

(* A tick keeps the invariant.                                              *)
LEMMA TickDuty ==
  ASSUME CountInv, DutyInv, Tick, DutyTick
  PROVE  DutyInv'
<1>1. /\ age \in Nat /\ TickMod \in Nat /\ TicksPerSecond \in Nat
  BY Sizes, ClockSizes DEF CountInv, TypeOK
<1>2. /\ UNCHANGED <<phase, TxTimeOnAir, AggregatedDCycle, overtaken, stamp>>
      /\ age' = IF stamp = None THEN 0 ELSE age + 1
      /\ timer \in Nat /\ between \in Nat
      /\ timer' = IF timer = 0 THEN 0 ELSE timer - 1
      /\ between' = IF phase = "restricted" THEN between + 1 ELSE between
  BY DEF Tick, DutyTick, DutyInv
<1>3. /\ AggregatedTimeOff' = AggregatedTimeOff
      /\ Ms2Tick(AggregatedTimeOff)' = Ms2Tick(AggregatedTimeOff)
  BY <1>2 DEF AggregatedTimeOff, Ms2Tick
<1>4. timer' \in Nat /\ between' \in Nat
  BY <1>2
<1>5. /\ phase' \in {"restricted", "delayed"} => stamp' # None
      /\ phase' = "restricted" /\ between' = 0 => AggregatedTimeOff' > ElapsedMs'
  BY <1>2 DEF DutyInv
<1>6. phase' = "forgotten" => overtaken' /\ between' > 0
  BY <1>2 DEF DutyInv
<1>7. ASSUME phase' = "delayed", timer' > 0, age' + TicksPerSecond <= TickMod
      PROVE  \/ overtaken' /\ between' > 0
             \/ age' + timer' <= Ms2Tick(AggregatedTimeOff)' + MIN_ALARM_DELAY
  <2>1. timer > 0 /\ timer' = timer - 1
    BY <1>2, <1>7
  <2>2. stamp # None
    BY <1>2, <1>7 DEF DutyInv
  <2>3. age' = age + 1 /\ age' + timer' = age + timer /\ age + TicksPerSecond <= TickMod
    BY <1>1, <1>2, <1>7, <2>1, <2>2
  <2> QED BY <1>2, <1>3, <1>7, <2>1, <2>3 DEF DutyInv
<1>8. /\ TxTimeOnAir' \in TimesOnAir \cup {0}
      /\ AggregatedDCycle' \in {1} \cup {2^maxDCycle : maxDCycle \in MaxDCycles}
  BY <1>2 DEF DutyInv
<1> QED BY <1>4, <1>5, <1>6, <1>7, <1>8 DEF DutyInv

(* The second reading of the clock: unless the time-off has ended since the *)
(* first, what is left of it is not zero, and TxDelayedTimer expires with   *)
(* it.                                                                      *)
LEMMA DelayKeeps ==
  ASSUME CountInv, DutyInv, Delay, UNCHANGED <<cal, ticks, stamp, age>>
  PROVE  DutyInv'
<1>1. /\ age \in Nat /\ TickMod \in Nat /\ TicksPerSecond \in Nat
  BY Sizes, ClockSizes DEF CountInv, TypeOK
<1>2. /\ phase = "restricted"
      /\ phase' = IF ~allowDelayedTx THEN "idle"
                  ELSE IF DutyCycleTimeOff # 0 THEN "delayed" ELSE "forgotten"
      /\ timer' = IF phase' = "delayed" THEN TimerTicks(DutyCycleTimeOff) ELSE timer
      /\ overtaken' = (AggregatedTimeOff <= ElapsedMs)
      /\ UNCHANGED <<TxTimeOnAir, AggregatedDCycle, between>>
  BY DEF Delay
<1>3. /\ stamp # None /\ (between = 0 => AggregatedTimeOff > ElapsedMs)
      /\ between \in Nat /\ timer \in Nat
  BY <1>2 DEF DutyInv
<1>4. /\ AggregatedTimeOff' = AggregatedTimeOff
      /\ Ms2Tick(AggregatedTimeOff)' = Ms2Tick(AggregatedTimeOff)
  BY <1>2 DEF AggregatedTimeOff, Ms2Tick
<1>5. /\ ElapsedMs \in Nat
      /\ age + TicksPerSecond <= TickMod => Tick2ms(age) <= ElapsedMs
  BY <1>3, StampAge
<1>6. /\ AggregatedTimeOff \in Nat
      /\ AggregatedTimeOff < MsMod
      /\ AggregatedTimeOff * TicksPerSecond < TickMod * MSEC_NUMBER
      /\ MsMod \in Nat \ {0}
  BY TimeOffFits, DutyCycleAssumption
<1>7. MIN_ALARM_DELAY \in Nat \ {0}
  BY RtcAssumption
<1>8. DutyCycleTimeOff \in Nat
  <2>1. AggregatedTimeOff - ElapsedMs \in Int
    BY <1>5, <1>6
  <2>2. (AggregatedTimeOff - ElapsedMs) % MsMod \in 0..(MsMod - 1)
    BY <1>6, <2>1
  <2> QED BY <1>6, <2>2 DEF DutyCycleTimeOff
<1>9. Ms2Tick(DutyCycleTimeOff) \in Nat
  <2>1. (DutyCycleTimeOff * TicksPerSecond) \div MSEC_NUMBER \in Nat
    <3>1. DutyCycleTimeOff * TicksPerSecond \in Nat
      BY <1>8, Sizes
    <3> QED BY <3>1, ClockSizes, DivModNat
  <2> QED BY <2>1, ClockSizes DEF Ms2Tick
<1>10. timer' \in Nat
  BY <1>2, <1>3, <1>7, <1>9 DEF TimerTicks
<1>11. overtaken' => between' > 0
  <2>1. overtaken' => AggregatedTimeOff <= ElapsedMs
    BY <1>2, Zenon
  <2>2. AggregatedTimeOff <= ElapsedMs => between > 0
    BY <1>3, <1>5, <1>6
  <2> QED BY <1>2, <2>1, <2>2
<1>12. ASSUME ~overtaken'
       PROVE  /\ AggregatedTimeOff > ElapsedMs
              /\ DutyCycleTimeOff = AggregatedTimeOff - ElapsedMs
  <2>1. AggregatedTimeOff > ElapsedMs
    <3>1. ~(AggregatedTimeOff <= ElapsedMs)
      BY <1>2, <1>12, Zenon
    <3> QED BY <1>5, <1>6, <3>1
  <2>2. AggregatedTimeOff - ElapsedMs \in 0..(MsMod - 1)
    BY <1>5, <1>6, <2>1
  <2> QED BY <1>6, <2>1, <2>2 DEF DutyCycleTimeOff
<1>13. phase' = "forgotten" => overtaken' /\ between' > 0
  BY <1>2, <1>5, <1>6, <1>11, <1>12
<1>14. ASSUME phase' = "delayed", age + TicksPerSecond <= TickMod, ~overtaken'
       PROVE  age + timer' <= Ms2Tick(AggregatedTimeOff) + MIN_ALARM_DELAY
  <2>1. /\ age <= Ms2Tick(AggregatedTimeOff)
        /\ age + Ms2Tick(DutyCycleTimeOff) <= Ms2Tick(AggregatedTimeOff) + MIN_ALARM_DELAY
        /\ Ms2Tick(AggregatedTimeOff) \in Nat
    <3>1. Tick2ms(age) <= ElapsedMs /\ ElapsedMs < AggregatedTimeOff
      BY <1>5, <1>6, <1>12, <1>14
    <3>2. PREDIV_S <= MSEC_NUMBER * MIN_ALARM_DELAY
      BY DutyCycleAssumption
    <3>3. /\ age <= Ms2Tick(AggregatedTimeOff)
          /\ age + Ms2Tick(AggregatedTimeOff - ElapsedMs)
               <= Ms2Tick(AggregatedTimeOff) + MIN_ALARM_DELAY
          /\ Ms2Tick(AggregatedTimeOff) \in Nat
      BY <1>1, <1>5, <1>6, <3>1, <3>2, DelayEnds
    <3> QED BY <1>12, <1>14, <3>3
  <2>2. timer' = IF Ms2Tick(DutyCycleTimeOff) < MIN_ALARM_DELAY THEN MIN_ALARM_DELAY
                 ELSE Ms2Tick(DutyCycleTimeOff)
    BY <1>2, <1>14 DEF TimerTicks
  <2> QED BY <1>1, <1>7, <1>9, <2>1, <2>2
<1>15. phase' # "restricted"
  BY <1>2
<1> QED BY <1>1, <1>2, <1>3, <1>4, <1>10, <1>11, <1>13, <1>14, <1>15 DEF DutyInv

(* Every step keeps the invariant.                                          *)
LEMMA StepDuty ==
  ASSUME CountInv, DutyInv, DutyNext \/ UNCHANGED <<vars, dutyVars>>
  PROVE  DutyInv'
<1> USE DEF DutyInv
<1>1. CASE Tick /\ DutyTick
  BY <1>1, TickDuty
<1>2. CASE UseDutyCycle /\ TxDone
  BY <1>2 DEF TxDone, AggregatedTimeOff, Ms2Tick
<1>3. CASE UseDutyCycle /\ ~TxDone
  <2>1. UNCHANGED <<cal, ticks, stamp, age>>
    BY <1>3 DEF UseDutyCycle, stampVars
  <2>2. CASE ScheduleTx
    BY <2>1, <2>2 DEF ScheduleTx
  <2>3. CASE NextChannel
    <3>1. /\ phase' \in {"sending", "restricted"}
          /\ UNCHANGED <<AggregatedDCycle, timer, between, overtaken>>
          /\ TxTimeOnAir' \in TimesOnAir \cup {0}
      BY <2>3 DEF NextChannel
    <3>2. ASSUME phase' = "restricted"
          PROVE  stamp # None /\ AggregatedTimeOff > ElapsedMs /\ TxTimeOnAir' = TxTimeOnAir
      <4>1. stamp # None /\ ~(AggregatedTimeOff <= ElapsedMs) /\ TxTimeOnAir' = TxTimeOnAir
        BY <2>3, <3>2 DEF NextChannel
      <4>2. AggregatedTimeOff \in Nat /\ ElapsedMs \in Nat
        BY <4>1, TimeOffFits, StampAge
      <4> QED BY <4>1, <4>2
    <3>3. phase' = "restricted" => AggregatedTimeOff' > ElapsedMs'
      BY <2>1, <3>1, <3>2 DEF AggregatedTimeOff, ElapsedMs, GetElapsedTime, Ms2Tick, Tick2ms
    <3> QED BY <2>1, <3>1, <3>2, <3>3
  <2>4. CASE Delay
    BY <2>1, <2>4, DelayKeeps
  <2>5. CASE DutyCycleReq
    BY <2>1, <2>5 DEF DutyCycleReq
  <2> QED BY <1>3, <2>2, <2>3, <2>4, <2>5 DEF UseDutyCycle
<1>4. CASE UNCHANGED <<vars, dutyVars>>
  BY <1>4 DEF vars, dutyVars, stampVars, AggregatedTimeOff, ElapsedMs, GetElapsedTime,
             Ms2Tick, Tick2ms
<1> QED BY <1>1, <1>2, <1>3, <1>4 DEF DutyNext

(* The invariant holds in every behaviour of the duty cycle.                *)
THEOREM DutyInvariance == DutySpec => [](CountInv /\ DutyInv)
<1>1. DutyInit => CountInv /\ DutyInv
  BY InitDuty
<1>2. CountInv /\ DutyInv /\ [DutyNext]_<<vars, dutyVars>> => (CountInv /\ DutyInv)'
  <2> SUFFICES ASSUME CountInv, DutyInv, [DutyNext]_<<vars, dutyVars>> PROVE CountInv' /\ DutyInv'
    OBVIOUS
  <2>1. CountInv'
    BY DutyStepsClock, StepCount
  <2>2. DutyInv'
    BY StepDuty
  <2> QED BY <2>1, <2>2
<1> QED BY <1>1, <1>2, PTL DEF DutySpec

(* A retransmission that RegionAS923NextChannel delays (LoRaMac.c:2245) is  *)
(* due at the end of the time-off, at most the shortest delay of a timer    *)
(* later, unless the time-off ends between the two readings of the clock.   *)
THEOREM RetransmissionDue == DutySpec => []RetransmissionIsDue
<1>1. DutyInv => RetransmissionIsDue
  BY DEF DutyInv, RetransmissionIsDue
<1> QED BY <1>1, DutyInvariance, PTL

(* ScheduleTx starts no transmission before the time-off after the last one *)
(* has passed, but for two milliseconds, and not after a wrap of the clock  *)
(* either.                                                                  *)
THEOREM DutyRespected == DutySpec => DutyCycleRespected
<1>1. CountInv /\ DutyInv /\ [DutyNext]_<<vars, dutyVars>> =>
        [phase' = "sending" /\ phase # "sending" /\ stamp # None =>
           Tick2ms(age) + 2 >= AggregatedTimeOff]_<<vars, dutyVars>>
  <2> SUFFICES ASSUME CountInv, DutyInv, DutyNext, phase' = "sending",
                      phase # "sending", stamp # None
               PROVE  Tick2ms(age) + 2 >= AggregatedTimeOff
    OBVIOUS
  <2>1. NextChannel
    BY DEF DutyNext, DutyTick, UseDutyCycle, TxDone, ScheduleTx, Delay, DutyCycleReq
  <2>2. AggregatedTimeOff <= ElapsedMs
    BY <2>1 DEF NextChannel
  <2>3. ElapsedMs \in Nat /\ Tick2ms(age) \in Nat /\ ElapsedMs <= Tick2ms(age) + 2
    BY StampAge
  <2>4. AggregatedTimeOff \in Nat
    BY TimeOffFits
  <2> QED BY <2>2, <2>3, <2>4
<1> QED BY <1>1, DutyInvariance, PTL DEF DutySpec, DutyCycleRespected

(*****************************************************************************)
(* The system time                                                           *)
(*****************************************************************************)

(* Equal but for a whole number of wraps.                                    *)
Cong(a, b) == \E k \in Int : a - b = k * WrapMs

(* After a whole number of wraps of the ticks the seconds wrap too.         *)
LEMMA WrapSizes ==
  /\ TickMod \div TicksPerSecond \in Nat \ {0}
  /\ TickMod = (TickMod \div TicksPerSecond) * TicksPerSecond
  /\ WrapMs \in Nat \ {0}
  /\ SecondsMod \in Nat \ {0}
  /\ TickMod \div TicksPerSecond <= SecondsMod
  /\ \E j \in Int : SecondsMod * MSEC_NUMBER = j * WrapMs
  /\ FRACTIONS \in Nat \ {0}
  /\ ServerStart \in Nat
<1> DEFINE n == TickMod \div TicksPerSecond
<1>1. n \in Nat /\ TickMod = n * TicksPerSecond
  <2>1. TickMod % TicksPerSecond = 0
    BY RtcAssumption
  <2>2. TickMod = (TickMod \div TicksPerSecond) * TicksPerSecond + (TickMod % TicksPerSecond)
    <3>1. TickMod \in Int
      BY ClockSizes
    <3>2. TicksPerSecond \in Nat \ {0}
      BY Sizes
    <3> QED BY <3>1, <3>2, DivMod, Zenon
  <2>3. n \in Nat
    BY ClockSizes, Sizes, DivModNat
  <2>4. n * TicksPerSecond \in Nat
    BY <2>3, Sizes
  <2> QED BY <2>1, <2>2, <2>3, <2>4
<1>2. n # 0
  BY <1>1, ClockSizes, Sizes
<1>3. /\ SecondsMod \in Nat \ {0} /\ SecondsMod % n = 0
      /\ FRACTIONS \in Nat \ {0} /\ ServerStart \in Nat
  BY SysTimeAssumption
<1>4. WrapMs = n * MSEC_NUMBER
  BY DEF WrapMs
<1> HIDE DEF n
<1>5. WrapMs \in Nat \ {0}
  BY <1>1, <1>2, <1>4, ClockSizes
<1>6. PICK j \in Nat : SecondsMod = j * n
  <2>1. SecondsMod = (SecondsMod \div n) * n + (SecondsMod % n)
    BY <1>1, <1>2, <1>3, DivMod
  <2>2. SecondsMod \div n \in Nat
    BY <1>1, <1>2, <1>3, DivModNat
  <2>3. (SecondsMod \div n) * n \in Nat
    BY <1>1, <2>2
  <2>4. SecondsMod = (SecondsMod \div n) * n
    BY <1>3, <2>1, <2>3
  <2> QED BY <2>2, <2>4
<1>7. n <= SecondsMod
  <2>1. j # 0
    BY <1>1, <1>3, <1>6
  <2>2. 1 * n <= j * n
    <3>1. 1 <= j
      BY <1>6, <2>1
    <3>2. 1 \in Int /\ j \in Int /\ n \in Nat
      BY <1>1, <1>6
    <3> QED BY <3>1, <3>2, ProductOrder
  <2> QED BY <1>1, <1>6, <2>2
<1>8. SecondsMod * MSEC_NUMBER = j * WrapMs
  BY <1>1, <1>4, <1>6, ClockSizes
<1>9. j \in Int
  BY <1>6
<1> QED BY <1>1, <1>2, <1>3, <1>5, <1>7, <1>8, <1>9 DEF n

(* A difference of some wraps.                                              *)
LEMMA CongIs ==
  ASSUME NEW a \in Int, NEW b \in Int, NEW k \in Int, a = b + k * WrapMs
  PROVE  Cong(a, b)
<1>1. k * WrapMs \in Int
  BY WrapSizes
<1>2. a - b = k * WrapMs
  BY <1>1
<1> QED BY <1>2 DEF Cong

(* A number is equal to itself but for no wrap.                             *)
LEMMA CongSame ==
  ASSUME NEW a \in Int
  PROVE  Cong(a, a)
<1>1. 0 * WrapMs = 0
  BY WrapSizes
<1>2. a - a = 0 * WrapMs
  BY <1>1
<1>3. 0 \in Int
  OBVIOUS
<1> QED BY <1>2, <1>3 DEF Cong

(* Wraps add up and subtract.                                               *)
LEMMA CongAdd ==
  ASSUME NEW a \in Int, NEW b \in Int, NEW c \in Int, NEW d \in Int,
         Cong(a, b), Cong(c, d)
  PROVE  Cong(a + c, b + d) /\ Cong(a - c, b - d)
<1>1. PICK k \in Int : a - b = k * WrapMs
  BY DEF Cong
<1>2. PICK l \in Int : c - d = l * WrapMs
  BY DEF Cong
<1>3. /\ (k + l) * WrapMs = k * WrapMs + l * WrapMs
      /\ (k - l) * WrapMs = k * WrapMs - l * WrapMs
      /\ k * WrapMs \in Int /\ l * WrapMs \in Int
  BY WrapSizes, Product
<1>4. (a + c) - (b + d) = (k + l) * WrapMs /\ (a - c) - (b - d) = (k - l) * WrapMs
  BY <1>1, <1>2, <1>3
<1>5. k + l \in Int /\ k - l \in Int
  OBVIOUS
<1>6. Cong(a + c, b + d)
  BY <1>4, <1>5 DEF Cong
<1>7. Cong(a - c, b - d)
  BY <1>4, <1>5 DEF Cong
<1> QED BY <1>6, <1>7

(* Wraps of two differences add up.                                         *)
LEMMA CongTrans ==
  ASSUME NEW a \in Int, NEW b \in Int, NEW c \in Int, Cong(a, b), Cong(b, c)
  PROVE  Cong(a, c)
<1>1. PICK k \in Int : a - b = k * WrapMs
  BY DEF Cong
<1>2. PICK l \in Int : b - c = l * WrapMs
  BY DEF Cong
<1>3. /\ (k + l) * WrapMs = k * WrapMs + l * WrapMs
      /\ k * WrapMs \in Int /\ l * WrapMs \in Int
  BY WrapSizes, Product
<1>4. a - c = (k + l) * WrapMs
  BY <1>1, <1>2, <1>3
<1>5. k + l \in Int
  OBVIOUS
<1> QED BY <1>4, <1>5 DEF Cong

(* Numbers that are equal but for wraps have the same remainder.            *)
LEMMA CongMod ==
  ASSUME NEW a \in Int, NEW b \in Int, Cong(a, b)
  PROVE  a % WrapMs = b % WrapMs
<1>1. PICK k \in Int : a - b = k * WrapMs
  BY DEF Cong
<1>2. WrapMs \in Nat \ {0}
  BY WrapSizes
<1>3. /\ b \div WrapMs \in Int
      /\ b % WrapMs \in 0..(WrapMs - 1)
      /\ b = (b \div WrapMs) * WrapMs + (b % WrapMs)
  BY <1>2, DivMod
<1> DEFINE q == b \div WrapMs
           r == b % WrapMs
<1>4. q \in Int /\ r \in 0..(WrapMs - 1) /\ b = q * WrapMs + r
  BY <1>3
<1> HIDE DEF q, r
<1>5. /\ (k + q) * WrapMs = k * WrapMs + q * WrapMs
      /\ k * WrapMs \in Int /\ q * WrapMs \in Int
  BY <1>2, <1>4, Product
<1>6. r \in Int
  BY <1>2, <1>4
<1>7. a = (k + q) * WrapMs + r
  BY <1>1, <1>4, <1>5, <1>6
<1>8. k + q \in Int
  BY <1>4
<1>9. ((k + q) * WrapMs + r) % WrapMs = r
  BY <1>2, <1>4, <1>8, ModIs, Zenon
<1> QED BY <1>7, <1>9 DEF r

(* The fields of a system time.                                             *)
LEMMA InMsOf ==
  ASSUME NEW t \in SysTimes
  PROVE  /\ InMs(t) \in Nat
         /\ t.Seconds \in Nat
         /\ t.SubSeconds \in 0..(MSEC_NUMBER - 1)
<1>1. t.Seconds \in 0..(SecondsMod - 1) /\ t.SubSeconds \in 0..(MSEC_NUMBER - 1)
  BY DEF SysTimes
<1>2. t.Seconds \in Nat /\ t.SubSeconds \in Nat
  BY <1>1, WrapSizes, ClockSizes
<1>3. t.Seconds * MSEC_NUMBER \in Nat
  BY <1>2, ClockSizes
<1> QED BY <1>1, <1>2, <1>3 DEF InMs

(* The seconds are cut to 32 bits, a whole number of wraps.                  *)
LEMMA SecondsCut ==
  ASSUME NEW s \in Int, NEW u \in 0..(MSEC_NUMBER - 1)
  PROVE  LET t == [Seconds |-> s % SecondsMod, SubSeconds |-> u]
         IN /\ t \in SysTimes
            /\ Cong(InMs(t), s * MSEC_NUMBER + u)
<1> DEFINE t == [Seconds |-> s % SecondsMod, SubSeconds |-> u]
           d == s \div SecondsMod
           r == s % SecondsMod
<1>1. SecondsMod \in Nat \ {0}
  BY WrapSizes
<1>2. r \in 0..(SecondsMod - 1) /\ d \in Int /\ s = d * SecondsMod + r
  BY <1>1, DivMod
<1>3. t \in SysTimes
  BY <1>2 DEF SysTimes
<1>4. InMs(t) = r * MSEC_NUMBER + u
  BY DEF InMs
<1> HIDE DEF t, d, r
<1>5. PICK j \in Int : SecondsMod * MSEC_NUMBER = j * WrapMs
  BY WrapSizes
<1>6. r \in Int /\ u \in Int /\ MSEC_NUMBER \in Int /\ SecondsMod \in Int /\ WrapMs \in Int
  BY <1>1, <1>2, ClockSizes, WrapSizes
<1>7. s * MSEC_NUMBER = d * (SecondsMod * MSEC_NUMBER) + r * MSEC_NUMBER
  BY <1>2, <1>6
<1>8. d * (j * WrapMs) = (d * j) * WrapMs
  BY <1>2, <1>6
<1>9. /\ s * MSEC_NUMBER \in Int /\ r * MSEC_NUMBER \in Int /\ (d * j) * WrapMs \in Int
      /\ d * j \in Int
  BY <1>2, <1>6
<1>10. s * MSEC_NUMBER + u = (r * MSEC_NUMBER + u) + (d * j) * WrapMs
  BY <1>5, <1>6, <1>7, <1>8, <1>9
<1>11. Cong(s * MSEC_NUMBER + u, r * MSEC_NUMBER + u)
  <2>1. s * MSEC_NUMBER + u \in Int /\ r * MSEC_NUMBER + u \in Int
    BY <1>6, <1>9
  <2> QED BY <1>9, <1>10, <2>1, CongIs
<1>12. Cong(r * MSEC_NUMBER + u, s * MSEC_NUMBER + u)
  <2>1. -(d * j) \in Int /\ (-(d * j)) * WrapMs = -((d * j) * WrapMs)
    BY <1>6, <1>9
  <2>2. r * MSEC_NUMBER + u = (s * MSEC_NUMBER + u) + (-(d * j)) * WrapMs
    BY <1>6, <1>9, <1>10, <2>1
  <2>3. s * MSEC_NUMBER + u \in Int /\ r * MSEC_NUMBER + u \in Int
    BY <1>6, <1>9
  <2> QED BY <2>1, <2>2, <2>3, CongIs
<1> QED BY <1>3, <1>4, <1>12 DEF t

(* SysTimeAdd carries the milliseconds into the seconds.                    *)
LEMMA AddMs ==
  ASSUME NEW a \in SysTimes, NEW b \in SysTimes
  PROVE  /\ SysTimeAdd(a, b) \in SysTimes
         /\ Cong(InMs(SysTimeAdd(a, b)), InMs(a) + InMs(b))
<1>1. /\ a.Seconds \in Nat /\ b.Seconds \in Nat
      /\ a.SubSeconds \in Nat /\ b.SubSeconds \in Nat
      /\ a.Seconds * MSEC_NUMBER \in Nat /\ b.Seconds * MSEC_NUMBER \in Nat
  BY InMsOf, ClockSizes
<1>2. MSEC_NUMBER \in Nat \ {0}
  BY ClockSizes
<1>3. PICK ms \in Nat : ms = a.SubSeconds + b.SubSeconds
  BY <1>1
<1>4. PICK q \in Nat, r \in 0..(MSEC_NUMBER - 1) :
        q = ms \div MSEC_NUMBER /\ r = ms % MSEC_NUMBER /\ ms = q * MSEC_NUMBER + r
  BY <1>2, Quotient, Zenon
<1>5. PICK s \in Nat : s = a.Seconds + b.Seconds + q
  BY <1>1, <1>4
<1>6. SysTimeAdd(a, b) = [Seconds |-> s % SecondsMod, SubSeconds |-> r]
  BY <1>3, <1>4, <1>5 DEF SysTimeAdd
<1>7. s * MSEC_NUMBER + r = InMs(a) + InMs(b)
  <2>1. (a.Seconds + b.Seconds + q) * MSEC_NUMBER
          = a.Seconds * MSEC_NUMBER + b.Seconds * MSEC_NUMBER + q * MSEC_NUMBER
    <3>1. PICK x \in Nat, y \in Nat : x = a.Seconds /\ y = b.Seconds
      BY <1>1
    <3>2. (x + y + q) * MSEC_NUMBER = x * MSEC_NUMBER + y * MSEC_NUMBER + q * MSEC_NUMBER
      BY <1>2
    <3> QED BY <3>1, <3>2
  <2>2. q * MSEC_NUMBER \in Nat /\ r \in Int
    BY <1>2, <1>4
  <2> QED BY <1>1, <1>3, <1>4, <1>5, <2>1, <2>2 DEF InMs
<1>8. s \in Int
  BY <1>5
<1> QED BY <1>4, <1>6, <1>7, <1>8, SecondsCut

(* SysTimeSub borrows a second for negative milliseconds.                   *)
LEMMA SubMs ==
  ASSUME NEW a \in SysTimes, NEW b \in SysTimes
  PROVE  /\ SysTimeSub(a, b) \in SysTimes
         /\ Cong(InMs(SysTimeSub(a, b)), InMs(a) - InMs(b))
<1>1. /\ a.Seconds \in Nat /\ b.Seconds \in Nat
      /\ a.SubSeconds \in 0..(MSEC_NUMBER - 1) /\ b.SubSeconds \in 0..(MSEC_NUMBER - 1)
      /\ a.Seconds * MSEC_NUMBER \in Nat /\ b.Seconds * MSEC_NUMBER \in Nat
  BY InMsOf, ClockSizes
<1>2. MSEC_NUMBER \in Nat \ {0}
  BY ClockSizes
<1>3. PICK ms \in Int : ms = a.SubSeconds - b.SubSeconds
  BY <1>1, <1>2
<1>4. ms > -MSEC_NUMBER /\ ms < MSEC_NUMBER /\ a.SubSeconds \in Int /\ b.SubSeconds \in Int
  BY <1>1, <1>2, <1>3
<1>5. PICK q \in {0, 1} : q = IF ms < 0 THEN 1 ELSE 0
  OBVIOUS
<1>6. PICK r \in Int : r = ms + q * MSEC_NUMBER
  BY <1>2
<1>7. r \in 0..(MSEC_NUMBER - 1)
  BY <1>2, <1>4, <1>5, <1>6
<1>8. ms % MSEC_NUMBER = r
  <2>1. -q \in Int /\ (-q) * MSEC_NUMBER + r = ms
    BY <1>2, <1>6
  <2>2. ((-q) * MSEC_NUMBER + r) % MSEC_NUMBER = r
    BY <1>2, <1>7, <2>1, ModIs, Zenon
  <2> QED BY <2>1, <2>2
<1>9. PICK s \in Int : s = a.Seconds - b.Seconds - q
  BY <1>1
<1>10. SysTimeSub(a, b) = [Seconds |-> s % SecondsMod, SubSeconds |-> r]
  BY <1>3, <1>5, <1>8, <1>9 DEF SysTimeSub
<1>11. s * MSEC_NUMBER + r = InMs(a) - InMs(b)
  <2>1. (a.Seconds - b.Seconds - q) * MSEC_NUMBER
          = a.Seconds * MSEC_NUMBER - b.Seconds * MSEC_NUMBER - q * MSEC_NUMBER
    BY <1>1, <1>2
  <2>2. q * MSEC_NUMBER \in Nat
    BY <1>2
  <2> QED BY <1>1, <1>3, <1>4, <1>6, <1>9, <2>1, <2>2 DEF InMs
<1> QED BY <1>7, <1>9, <1>10, <1>11, SecondsCut

(* HW_RTC_GetCalendarTime is the calendar in milliseconds but for a whole   *)
(* number of wraps.                                                         *)
LEMMA CalendarTimeMs ==
  ASSUME CalendarValue(cal) \in Nat
  PROVE  /\ CalendarTime \in SysTimes
         /\ Cong(InMs(CalendarTime), Tick2ms(CalendarValue(cal)))
<1>1. PICK v \in Nat : v = CalendarValue(cal)
  OBVIOUS
<1>2. PICK wraps \in Nat, w \in 0..(TickMod - 1) :
        wraps = v \div TickMod /\ w = v % TickMod /\ v = wraps * TickMod + w
  BY ClockSizes, Quotient, Zenon
<1>3. w \in Nat
  BY <1>2, ClockSizes
<1>4. PICK sec \in Nat, t \in 0..(TicksPerSecond - 1) :
        sec = w \div TicksPerSecond /\ t = w % TicksPerSecond /\ w = sec * TicksPerSecond + t
  <2>1. TicksPerSecond \in Nat \ {0}
    BY Sizes
  <2> QED BY <1>3, <2>1, Quotient, Zenon
<1>5. t \in Nat /\ t < TicksPerSecond /\ t * MSEC_NUMBER \in Nat /\ sec * TicksPerSecond \in Nat
  BY <1>4, Sizes, ClockSizes
<1>6. PICK u \in Nat, z \in 0..(TicksPerSecond - 1) :
        /\ u = (t * MSEC_NUMBER) \div TicksPerSecond
        /\ z = (t * MSEC_NUMBER) % TicksPerSecond
        /\ t * MSEC_NUMBER = u * TicksPerSecond + z
  <2>1. TicksPerSecond \in Nat \ {0}
    BY Sizes
  <2> QED BY <1>5, <2>1, Quotient, Zenon
<1>7. u < MSEC_NUMBER
  <2>1. z \in Nat /\ u * TicksPerSecond \in Nat
    BY <1>6, Sizes
  <2>2. t * MSEC_NUMBER < TicksPerSecond * MSEC_NUMBER
    BY <1>5, Sizes, ClockSizes
  <2>3. TicksPerSecond * MSEC_NUMBER = MSEC_NUMBER * TicksPerSecond
        /\ MSEC_NUMBER * TicksPerSecond \in Nat
    BY Sizes, ClockSizes
  <2>4. u * TicksPerSecond < MSEC_NUMBER * TicksPerSecond
    BY <1>5, <1>6, <2>1, <2>2, <2>3
  <2>5. u \in Int /\ MSEC_NUMBER \in Int
    BY <1>6, ClockSizes
  <2> QED BY <2>4, <2>5, Sizes, CancelProduct
<1> DEFINE n == TickMod \div TicksPerSecond
<1>8. n \in Nat \ {0} /\ TickMod = n * TicksPerSecond /\ n <= SecondsMod /\ SecondsMod \in Nat
      /\ WrapMs = n * MSEC_NUMBER
  BY WrapSizes DEF WrapMs
<1> HIDE DEF n
<1>9. sec < n
  <2>1. sec * TicksPerSecond < n * TicksPerSecond
    BY <1>2, <1>4, <1>5, <1>8, ClockSizes
  <2>2. sec \in Int /\ n \in Int
    BY <1>4, <1>8
  <2> QED BY <2>1, <2>2, Sizes, CancelProduct
<1>10. Tick2ms(t) = u
  <2>1. t % TicksPerSecond = t /\ t \div TicksPerSecond = 0
    <3>1. 0 * TicksPerSecond + t = t
      BY <1>5, Sizes
    <3>2. 0 \in Int
      OBVIOUS
    <3>3. TicksPerSecond \in Nat \ {0}
      BY Sizes
    <3>4. /\ (0 * TicksPerSecond + t) % TicksPerSecond = t
          /\ (0 * TicksPerSecond + t) \div TicksPerSecond = 0
      BY <1>4, <3>2, <3>3, ModIs, Zenon
    <3> QED BY <3>1, <3>4
  <2>2. 0 * MSEC_NUMBER = 0
    BY ClockSizes
  <2> QED BY <1>6, <2>1, <2>2 DEF Tick2ms
<1>11. CalendarTime = [Seconds |-> sec, SubSeconds |-> u]
  BY <1>1, <1>2, <1>4, <1>10 DEF CalendarTime, TimerValue
<1>12. CalendarTime \in SysTimes
  <2>1. sec \in 0..(SecondsMod - 1)
    BY <1>4, <1>8, <1>9
  <2>2. u \in 0..(MSEC_NUMBER - 1)
    BY <1>6, <1>7, ClockSizes
  <2> QED BY <1>11, <2>1, <2>2 DEF SysTimes
<1>13. InMs(CalendarTime) = sec * MSEC_NUMBER + u
  BY <1>11 DEF InMs
<1>14. Tick2ms(v) = (wraps * n + sec) * MSEC_NUMBER + u
  <2>1. v = (wraps * n + sec) * TicksPerSecond + t
    <3>1. (wraps * n + sec) * TicksPerSecond = wraps * (n * TicksPerSecond) + sec * TicksPerSecond
      <4>1. wraps * n \in Int /\ sec \in Int /\ TicksPerSecond \in Int
        BY <1>2, <1>4, <1>8, Sizes
      <4>2. (wraps * n + sec) * TicksPerSecond = (wraps * n) * TicksPerSecond + sec * TicksPerSecond
        BY <4>1, Product
      <4>3. (wraps * n) * TicksPerSecond = wraps * (n * TicksPerSecond)
        <5>1. wraps \in Int /\ n \in Int /\ TicksPerSecond \in Int
          BY <1>2, <1>8, <4>1
        <5> QED BY <5>1
      <4> QED BY <4>2, <4>3
    <3>2. wraps * (n * TicksPerSecond) \in Nat
      BY <1>2, <1>8, Sizes
    <3> QED BY <1>2, <1>4, <1>5, <1>8, <3>1, <3>2
  <2>2. wraps * n + sec \in Int
    BY <1>2, <1>4, <1>8
  <2>3. TicksPerSecond \in Nat \ {0}
    BY Sizes
  <2>4. /\ ((wraps * n + sec) * TicksPerSecond + t) % TicksPerSecond = t
        /\ ((wraps * n + sec) * TicksPerSecond + t) \div TicksPerSecond = wraps * n + sec
    BY <1>4, <2>2, <2>3, ModIs, Zenon
  <2>5. v % TicksPerSecond = t /\ v \div TicksPerSecond = wraps * n + sec
    BY <2>1, <2>4
  <2> QED BY <1>6, <2>5 DEF Tick2ms
<1>15. (wraps * n + sec) * MSEC_NUMBER = wraps * WrapMs + sec * MSEC_NUMBER
  BY <1>2, <1>4, <1>8, ClockSizes
<1>16. wraps * WrapMs \in Int /\ sec * MSEC_NUMBER + u \in Int /\ -wraps \in Int
       /\ (-wraps) * WrapMs = -(wraps * WrapMs) /\ sec * MSEC_NUMBER \in Int /\ u \in Int
  BY <1>2, <1>4, <1>6, ClockSizes, WrapSizes
<1>17. Tick2ms(v) \in Int /\ InMs(CalendarTime) = Tick2ms(v) + (-wraps) * WrapMs
  BY <1>13, <1>14, <1>15, <1>16
<1>18. Cong(InMs(CalendarTime), Tick2ms(v))
  <2>1. InMs(CalendarTime) \in Int
    BY <1>13, <1>16
  <2> QED BY <1>16, <1>17, <2>1, CongIs
<1> QED BY <1>1, <1>12, <1>18

(* A fraction of a second, in milliseconds and rounded up.                  *)
LEMMA StampStep ==
  /\ DIVC(MSEC_NUMBER, FRACTIONS) \in Nat
  /\ MSEC_NUMBER <= DIVC(MSEC_NUMBER, FRACTIONS) * FRACTIONS
<1>1. MSEC_NUMBER \in Nat \ {0} /\ FRACTIONS \in Nat \ {0}
  BY ClockSizes, WrapSizes
<1>2. PICK a \in Nat : a = MSEC_NUMBER + FRACTIONS - 1
  BY <1>1
<1>3. PICK q \in Nat, r \in 0..(FRACTIONS - 1) :
        q = a \div FRACTIONS /\ r = a % FRACTIONS /\ a = q * FRACTIONS + r
  BY <1>1, Quotient, Zenon
<1>4. q * FRACTIONS \in Nat
  BY <1>1
<1>5. MSEC_NUMBER <= q * FRACTIONS
  BY <1>1, <1>2, <1>3, <1>4
<1>6. DIVC(MSEC_NUMBER, FRACTIONS) = q
  BY <1>2, <1>3 DEF DIVC
<1> QED BY <1>5, <1>6

(* The server's stamp is behind its clock, by a fraction of a second at     *)
(* most.                                                                    *)
LEMMA ServerMs ==
  ASSUME NEW now \in Nat
  PROVE  LET t == [Seconds |-> (now \div TicksPerSecond) % SecondsMod,
                   SubSeconds |-> ((((now % TicksPerSecond) * FRACTIONS) \div TicksPerSecond)
                                     * MSEC_NUMBER) \div FRACTIONS]
         IN /\ t \in SysTimes
            /\ \E p \in 0..DIVC(MSEC_NUMBER, FRACTIONS) : Cong(InMs(t), Tick2ms(now) - p)
<1>1. /\ TicksPerSecond \in Nat \ {0} /\ MSEC_NUMBER \in Nat \ {0} /\ FRACTIONS \in Nat \ {0}
      /\ DIVC(MSEC_NUMBER, FRACTIONS) \in Nat
      /\ MSEC_NUMBER <= DIVC(MSEC_NUMBER, FRACTIONS) * FRACTIONS
  BY Sizes, ClockSizes, WrapSizes, StampStep
<1>2. PICK s \in Nat : s = now \div TicksPerSecond
  BY <1>1, DivModNat
<1>3. PICK r \in Nat : r = now % TicksPerSecond /\ r < TicksPerSecond
  <2>1. now % TicksPerSecond \in 0..(TicksPerSecond - 1)
    <3>1. now \in Int
      OBVIOUS
    <3>2. TicksPerSecond \in Nat \ {0}
      BY <1>1
    <3> QED BY <3>1, <3>2, DivMod, Zenon
  <2> QED BY <1>1, <2>1
<1>4. PICK f \in Nat : /\ f = (r * FRACTIONS) \div TicksPerSecond
                       /\ f * TicksPerSecond <= r * FRACTIONS
                       /\ r * FRACTIONS < f * TicksPerSecond + TicksPerSecond
  <2>1. r * FRACTIONS \in Nat
    BY <1>1
  <2> QED BY <1>1, <2>1, DivModNat
<1>5. PICK g \in Nat : /\ g = (f * MSEC_NUMBER) \div FRACTIONS
                       /\ g * FRACTIONS <= f * MSEC_NUMBER
                       /\ f * MSEC_NUMBER < g * FRACTIONS + FRACTIONS
  <2>1. f * MSEC_NUMBER \in Nat
    BY <1>1
  <2> QED BY <1>1, <2>1, DivModNat
<1>6. PICK h \in Nat : /\ h = (r * MSEC_NUMBER) \div TicksPerSecond
                       /\ h * TicksPerSecond <= r * MSEC_NUMBER
                       /\ r * MSEC_NUMBER < h * TicksPerSecond + TicksPerSecond
  <2>1. r * MSEC_NUMBER \in Nat
    BY <1>1
  <2> QED BY <1>1, <2>1, DivModNat
<1>7. h - g \in 0..DIVC(MSEC_NUMBER, FRACTIONS)
  BY <1>1, <1>4, <1>5, <1>6, FloorOfFloor
<1>8. f < FRACTIONS
  <2>1. r * FRACTIONS < TicksPerSecond * FRACTIONS
    BY <1>1, <1>3, ProductStrict
  <2>2. TicksPerSecond * FRACTIONS = FRACTIONS * TicksPerSecond
        /\ r * FRACTIONS \in Int /\ TicksPerSecond * FRACTIONS \in Int /\ f * TicksPerSecond \in Int
    BY <1>1
  <2>3. f * TicksPerSecond < FRACTIONS * TicksPerSecond
    BY <1>4, <2>1, <2>2
  <2>4. f \in Int /\ FRACTIONS \in Int
    BY <1>1
  <2> QED BY <1>1, <2>3, <2>4, CancelProduct
<1>9. g < MSEC_NUMBER
  <2>1. f * MSEC_NUMBER < FRACTIONS * MSEC_NUMBER
    BY <1>1, <1>8, ProductStrict
  <2>2. FRACTIONS * MSEC_NUMBER = MSEC_NUMBER * FRACTIONS
        /\ f * MSEC_NUMBER \in Int /\ FRACTIONS * MSEC_NUMBER \in Int /\ g * FRACTIONS \in Int
    BY <1>1
  <2>3. g * FRACTIONS < MSEC_NUMBER * FRACTIONS
    BY <1>5, <2>1, <2>2
  <2>4. g \in Int /\ MSEC_NUMBER \in Int
    BY <1>1
  <2> QED BY <1>1, <2>3, <2>4, CancelProduct
<1>10. g \in 0..(MSEC_NUMBER - 1) /\ s \in Int
  BY <1>1, <1>9
<1> DEFINE t == [Seconds |-> s % SecondsMod, SubSeconds |-> g]
<1>11. t \in SysTimes /\ Cong(InMs(t), s * MSEC_NUMBER + g)
  BY <1>10, SecondsCut
<1>12. Tick2ms(now) = s * MSEC_NUMBER + h
  BY <1>2, <1>3, <1>6 DEF Tick2ms
<1>13. s * MSEC_NUMBER \in Nat
  BY <1>1
<1>14. Tick2ms(now) - (h - g) = s * MSEC_NUMBER + g
  BY <1>12, <1>13
<1>15. Cong(InMs(t), Tick2ms(now) - (h - g))
  BY <1>11, <1>14
<1>16. t = [Seconds |-> (now \div TicksPerSecond) % SecondsMod,
            SubSeconds |-> ((((now % TicksPerSecond) * FRACTIONS) \div TicksPerSecond)
                              * MSEC_NUMBER) \div FRACTIONS]
  BY <1>2, <1>3, <1>4, <1>5
<1> HIDE DEF t
<1> QED BY <1>7, <1>11, <1>15, <1>16

(* How far the server's clock is ahead of the calendar: they go on          *)
(* together.                                                                *)
Ahead == ServerTicks - CalendarValue(cal)

(* What the stamp may lose.                                                 *)
Step == DIVC(MSEC_NUMBER, FRACTIONS)

(* The server has stamped an uplink. Here and below y is the calendar then, *)
(* and p what the stamp, and then the reading of SysTimeSet, lose.          *)
StampPending ==
  \E y \in Nat :
    /\ y <= CalendarValue(cal)
    /\ y + Ahead \in Nat
    /\ Cong(InMs(LastTxSysTime), InMs(DeltaTime) + Tick2ms(y))
    /\ \E p \in 0..Step : Cong(InMs(serverTime), Tick2ms(y + Ahead) - p)

(* SysTimeSet is to get the system time of the answer, setLate ticks ago.   *)
AnswerPending ==
  \E y \in Nat :
    /\ y + setLate <= CalendarValue(cal)
    /\ y + Ahead \in Nat
    /\ \E p \in 0..Step :
         Cong(InMs(sysTime),
              Tick2ms(y + Ahead) - p + Tick2ms(CalendarValue(cal) - setLate) - Tick2ms(y))

(* The system time has been set.                                            *)
TimeIsSet ==
  \E y \in Nat :
    /\ y <= CalendarValue(cal)
    /\ y + Ahead \in Nat
    /\ \E p \in 0..(Step + setLate) :
         Cong(InMs(DeltaTime), Tick2ms(y + Ahead) - p - Tick2ms(y))

(* The values of the variables of the system time.                          *)
SysTypeOK ==
  /\ {DeltaTime, LastTxSysTime} \subseteq SysTimes
  /\ {sysTime, serverTime} \subseteq SysTimes \cup {None}
  /\ setLate \in Nat

(* The inductive invariant of the system time.                              *)
SysInv ==
  /\ SysTypeOK
  /\ serverTime # None => sysTime = None /\ StampPending
  /\ sysTime # None => AnswerPending
  /\ isSet /\ sysTime = None => TimeIsSet

(* None is no system time.                                                  *)
LEMMA NoneIsNoTime == None \notin SysTimes
<1>1. 0..(SecondsMod - 1) \subseteq Nat /\ 0..(MSEC_NUMBER - 1) \subseteq Nat
  BY WrapSizes, ClockSizes
<1> QED BY <1>1, SysTimeAssumption DEF SysTimes

(* The clocks at an instant.                                                *)
LEMMA Now ==
  ASSUME CountInv
  PROVE  /\ CalendarValue(cal) \in Nat
         /\ ServerTicks \in Nat
         /\ Ahead \in Int
         /\ CalendarValue(cal) + Ahead = ServerTicks
         /\ CalendarTime \in SysTimes
         /\ Cong(InMs(CalendarTime), Tick2ms(CalendarValue(cal)))
<1>1. cal \in Calendars /\ ticks \in 0..Horizon /\ Horizon \in Nat
  BY RtcAssumption DEF CountInv, TypeOK
<1>2. CalendarValue(cal) \in Nat
  BY <1>1, TimeFields
<1>3. ServerTicks \in Nat
  BY <1>1, WrapSizes DEF ServerTicks
<1> QED BY <1>2, <1>3, CalendarTimeMs DEF Ahead

(* SysTimeGet adds the calendar to the difference kept.                     *)
LEMMA GetMs ==
  ASSUME CountInv, SysTypeOK
  PROVE  /\ SysTimeGet \in SysTimes
         /\ Cong(InMs(SysTimeGet), InMs(DeltaTime) + Tick2ms(CalendarValue(cal)))
<1>1. DeltaTime \in SysTimes
  BY DEF SysTypeOK
<1>2. /\ SysTimeGet \in SysTimes
      /\ Cong(InMs(SysTimeGet), InMs(DeltaTime) + InMs(CalendarTime))
  BY <1>1, Now, AddMs DEF SysTimeGet
<1>3. /\ InMs(SysTimeGet) \in Int /\ InMs(DeltaTime) \in Int /\ InMs(CalendarTime) \in Int
      /\ Tick2ms(CalendarValue(cal)) \in Int
  BY <1>1, <1>2, Now, InMsOf, Tick2msIs
<1>4. Cong(InMs(DeltaTime) + InMs(CalendarTime), InMs(DeltaTime) + Tick2ms(CalendarValue(cal)))
  BY <1>3, Now, CongSame, CongAdd
<1>5. Cong(InMs(SysTimeGet), InMs(DeltaTime) + Tick2ms(CalendarValue(cal)))
  <2>1. InMs(DeltaTime) + InMs(CalendarTime) \in Int
        /\ InMs(DeltaTime) + Tick2ms(CalendarValue(cal)) \in Int
    BY <1>3
  <2> QED BY <1>2, <1>3, <1>4, <2>1, CongTrans
<1> QED BY <1>2, <1>5

(* The system time uses the clock as Rtc allows.                            *)
LEMMA SysStepsClock ==
  ASSUME SysTimeNext \/ UNCHANGED <<vars, sysTimeVars>>
  PROVE  [Next]_vars
  BY DEF SysTimeNext, UseSysTime, Next

(* The invariant holds at the start.                                        *)
LEMMA InitSys == SysTimeInit => CountInv /\ SysInv
<1> SUFFICES ASSUME SysTimeInit PROVE CountInv /\ SysInv
  OBVIOUS
<1>1. CountInv
  BY InitCount DEF SysTimeInit
<1>2. [Seconds |-> 0, SubSeconds |-> 0] \in SysTimes
  BY WrapSizes, ClockSizes DEF SysTimes
<1>3. SysInv
  BY <1>2 DEF SysTimeInit, SysInv, SysTypeOK
<1> QED BY <1>1, <1>3

(* A tick keeps the invariant: both clocks count it.                        *)
LEMMA TickSys ==
  ASSUME CountInv, SysInv, Tick, SysTimeTick
  PROVE  SysInv'
<1>1. /\ CalendarValue(cal') = CalendarValue(cal) + 1
      /\ ticks' = ticks + 1
      /\ UNCHANGED <<DeltaTime, LastTxSysTime, sysTime, serverTime, isSet>>
      /\ setLate' = IF sysTime = None THEN setLate ELSE setLate + 1
  BY TickCounts DEF Tick, SysTimeTick
<1>2. CalendarValue(cal) \in Nat /\ Ahead \in Int /\ setLate \in Nat /\ ticks \in Int
  BY Now DEF SysInv, SysTypeOK, CountInv, TypeOK
<1>3. Ahead' = Ahead
  <2>1. ServerStart \in Nat
    BY WrapSizes
  <2>2. ServerTicks' = ServerTicks + 1 /\ ServerTicks \in Int
    BY <1>1, <1>2, <2>1 DEF ServerTicks
  <2> QED BY <1>1, <1>2, <2>2 DEF Ahead
<1>4. SysTypeOK'
  BY <1>1, <1>2 DEF SysInv, SysTypeOK
<1>5. ASSUME StampPending PROVE StampPending'
  <2>1. PICK y \in Nat :
          /\ y <= CalendarValue(cal)
          /\ y + Ahead \in Nat
          /\ Cong(InMs(LastTxSysTime), InMs(DeltaTime) + Tick2ms(y))
          /\ \E p \in 0..Step : Cong(InMs(serverTime), Tick2ms(y + Ahead) - p)
    BY <1>5 DEF StampPending
  <2>2. y <= CalendarValue(cal')
    BY <1>1, <1>2, <2>1
  <2> QED BY <1>1, <1>3, <2>1, <2>2 DEF StampPending
<1>6. ASSUME sysTime # None, AnswerPending PROVE AnswerPending'
  <2>1. PICK y \in Nat :
          /\ y + setLate <= CalendarValue(cal)
          /\ y + Ahead \in Nat
          /\ \E p \in 0..Step :
               Cong(InMs(sysTime),
                    Tick2ms(y + Ahead) - p + Tick2ms(CalendarValue(cal) - setLate) - Tick2ms(y))
    BY <1>6 DEF AnswerPending
  <2>2. /\ y + setLate' <= CalendarValue(cal')
        /\ CalendarValue(cal') - setLate' = CalendarValue(cal) - setLate
    BY <1>1, <1>2, <1>6, <2>1
  <2> QED BY <1>1, <1>3, <2>1, <2>2 DEF AnswerPending
<1>7. ASSUME sysTime = None, TimeIsSet PROVE TimeIsSet'
  <2>1. PICK y \in Nat :
          /\ y <= CalendarValue(cal)
          /\ y + Ahead \in Nat
          /\ \E p \in 0..(Step + setLate) :
               Cong(InMs(DeltaTime), Tick2ms(y + Ahead) - p - Tick2ms(y))
    BY <1>7 DEF TimeIsSet
  <2>2. y <= CalendarValue(cal') /\ setLate' = setLate
    BY <1>1, <1>2, <1>7, <2>1
  <2> QED BY <1>1, <1>3, <2>1, <2>2 DEF TimeIsSet
<1> QED BY <1>1, <1>4, <1>5, <1>6, <1>7 DEF SysInv

(* OnRadioTxDone notes the instant that the server stamps.                  *)
LEMMA TxDoneSys ==
  ASSUME CountInv, SysInv, OnRadioTxDone, UNCHANGED vars
  PROVE  SysInv'
<1>1. /\ UNCHANGED <<cal, ticks, DeltaTime, sysTime, isSet, setLate>>
      /\ sysTime = None
      /\ LastTxSysTime' = SysTimeGet
  BY DEF OnRadioTxDone, vars
<1>2. /\ serverTime' \in SysTimes
      /\ \E p \in 0..Step : Cong(InMs(serverTime'), Tick2ms(ServerTicks) - p)
  <2>1. ServerTicks \in Nat
    BY Now
  <2> QED BY <2>1, ServerMs DEF OnRadioTxDone, Step
<1>3. /\ SysTimeGet \in SysTimes
      /\ Cong(InMs(SysTimeGet), InMs(DeltaTime) + Tick2ms(CalendarValue(cal)))
  BY GetMs DEF SysInv
<1>4. Ahead' = Ahead /\ CalendarValue(cal) + Ahead = ServerTicks /\ CalendarValue(cal) \in Nat
      /\ ServerTicks \in Nat
  BY <1>1, Now DEF Ahead, ServerTicks
<1>5. StampPending'
  <2>1. PICK y \in Nat : y = CalendarValue(cal)
    BY <1>4
  <2>2. /\ y <= CalendarValue(cal')
        /\ y + Ahead' \in Nat
        /\ Cong(InMs(LastTxSysTime'), InMs(DeltaTime') + Tick2ms(y))
    BY <1>1, <1>3, <1>4, <2>1
  <2>3. \E p \in 0..Step : Cong(InMs(serverTime'), Tick2ms(y + Ahead') - p)
    BY <1>2, <1>4, <2>1
  <2> QED BY <2>2, <2>3 DEF StampPending
<1>6. SysTypeOK'
  BY <1>1, <1>2, <1>3 DEF SysInv, SysTypeOK
<1>7. TimeIsSet => TimeIsSet'
  BY <1>1, <1>4 DEF TimeIsSet
<1> QED BY <1>1, <1>5, <1>6, <1>7 DEF SysInv

(* The answer: the server's stamp and what has passed since.                *)
LEMMA AnswerSys ==
  ASSUME CountInv, SysInv, DeviceTimeAns, UNCHANGED vars
  PROVE  SysInv'
<1>1. /\ UNCHANGED <<cal, ticks, DeltaTime, LastTxSysTime, isSet>>
      /\ serverTime # None
      /\ sysTime' = SysTimeAdd(SysTimeGet, SysTimeSub(serverTime, LastTxSysTime))
      /\ serverTime' = None
      /\ setLate' = 0
  BY DEF DeviceTimeAns, vars
<1>2. /\ serverTime \in SysTimes /\ LastTxSysTime \in SysTimes /\ DeltaTime \in SysTimes
      /\ SysTypeOK /\ StampPending
  BY <1>1 DEF SysInv, SysTypeOK
<1>3. /\ SysTimeGet \in SysTimes
      /\ Cong(InMs(SysTimeGet), InMs(DeltaTime) + Tick2ms(CalendarValue(cal)))
  BY <1>2, GetMs
<1>4. /\ SysTimeSub(serverTime, LastTxSysTime) \in SysTimes
      /\ Cong(InMs(SysTimeSub(serverTime, LastTxSysTime)), InMs(serverTime) - InMs(LastTxSysTime))
  BY <1>2, SubMs
<1>5. /\ sysTime' \in SysTimes
      /\ Cong(InMs(sysTime'), InMs(SysTimeGet) + InMs(SysTimeSub(serverTime, LastTxSysTime)))
  BY <1>1, <1>3, <1>4, AddMs
<1>6. /\ Ahead' = Ahead /\ Ahead \in Int /\ CalendarValue(cal) \in Nat
  BY <1>1, Now DEF Ahead, ServerTicks
<1>7. PICK y \in Nat :
        /\ y <= CalendarValue(cal)
        /\ y + Ahead \in Nat
        /\ Cong(InMs(LastTxSysTime), InMs(DeltaTime) + Tick2ms(y))
        /\ \E p \in 0..Step : Cong(InMs(serverTime), Tick2ms(y + Ahead) - p)
  BY <1>2 DEF StampPending
<1>8. PICK p \in 0..Step : Cong(InMs(serverTime), Tick2ms(y + Ahead) - p)
  BY <1>7
<1> DEFINE delta == InMs(DeltaTime)
           last == InMs(LastTxSysTime)
           server == InMs(serverTime)
           got == InMs(SysTimeGet)
           diff == InMs(SysTimeSub(serverTime, LastTxSysTime))
           new == InMs(sysTime')
           atNow == Tick2ms(CalendarValue(cal))
           atTx == Tick2ms(y)
           sent == Tick2ms(y + Ahead) - p
<1>9. /\ delta \in Int /\ last \in Int /\ server \in Int
      /\ got \in Int /\ diff \in Int /\ new \in Int
      /\ atNow \in Int /\ atTx \in Int
  BY <1>2, <1>3, <1>4, <1>5, <1>6, InMsOf, Tick2msIs
<1>10. sent \in Int
  <2>1. Tick2ms(y + Ahead) \in Int
    BY <1>7, Tick2msIs
  <2>2. p \in Int
    BY StampStep DEF Step
  <2> QED BY <2>1, <2>2
<1>11. /\ Cong(new, got + diff)
       /\ Cong(got, delta + atNow)
       /\ Cong(diff, server - last)
       /\ Cong(last, delta + atTx)
       /\ Cong(server, sent)
  BY <1>3, <1>4, <1>5, <1>7, <1>8
<1> HIDE DEF delta, last, server, got, diff, new, atNow, atTx, sent
<1>12. Cong(server - last, sent - (delta + atTx))
  <2>1. delta + atTx \in Int
    BY <1>9
  <2> QED BY <1>9, <1>10, <1>11, <2>1, CongAdd
<1>13. Cong(diff, sent - (delta + atTx))
  <2>1. server - last \in Int /\ sent - (delta + atTx) \in Int
    BY <1>9, <1>10
  <2> QED BY <1>9, <1>11, <1>12, <2>1, CongTrans
<1>14. Cong(got + diff, (delta + atNow) + (sent - (delta + atTx)))
  <2>1. delta + atNow \in Int /\ sent - (delta + atTx) \in Int
    BY <1>9, <1>10
  <2> QED BY <1>9, <1>11, <1>13, <2>1, CongAdd
<1>15. (delta + atNow) + (sent - (delta + atTx)) = sent + atNow - atTx
  BY <1>9, <1>10
<1>16. Cong(new, sent + atNow - atTx)
  <2>1. got + diff \in Int /\ sent + atNow - atTx \in Int
    BY <1>9, <1>10
  <2>2. Cong(got + diff, sent + atNow - atTx)
    BY <1>14, <1>15
  <2> QED BY <1>9, <1>11, <2>1, <2>2, CongTrans
<1>17. AnswerPending'
  <2>1. CalendarValue(cal') - setLate' = CalendarValue(cal) /\ y + setLate' <= CalendarValue(cal')
    BY <1>1, <1>6, <1>7
  <2>2. Cong(InMs(sysTime'),
             Tick2ms(y + Ahead) - p + Tick2ms(CalendarValue(cal') - setLate') - Tick2ms(y))
    BY <1>16, <2>1 DEF new, sent, atNow, atTx
  <2>3. \E q \in 0..Step :
          Cong(InMs(sysTime'),
               Tick2ms(y + Ahead) - q + Tick2ms(CalendarValue(cal') - setLate') - Tick2ms(y))
    BY <2>2
  <2> QED BY <1>6, <1>7, <2>1, <2>3 DEF AnswerPending
<1>18. SysTypeOK'
  BY <1>1, <1>2, <1>5 DEF SysTypeOK
<1>19. sysTime' # None
  BY <1>5, NoneIsNoTime
<1> QED BY <1>1, <1>17, <1>18, <1>19 DEF SysInv

(* SysTimeSet reads the clock again.                                        *)
LEMMA SetSys ==
  ASSUME CountInv, SysInv, SysTimeSet, UNCHANGED vars
  PROVE  SysInv'
<1>1. /\ UNCHANGED <<cal, ticks, LastTxSysTime, serverTime, setLate>>
      /\ sysTime # None
      /\ DeltaTime' = SysTimeSub(sysTime, CalendarTime)
      /\ sysTime' = None
  BY DEF SysTimeSet, vars
<1>2. /\ sysTime \in SysTimes /\ serverTime = None /\ SysTypeOK /\ AnswerPending
      /\ setLate \in Nat
  BY <1>1 DEF SysInv, SysTypeOK
<1>3. /\ CalendarTime \in SysTimes
      /\ Cong(InMs(CalendarTime), Tick2ms(CalendarValue(cal)))
      /\ CalendarValue(cal) \in Nat /\ Ahead \in Int
  BY Now
<1>4. /\ DeltaTime' \in SysTimes
      /\ Cong(InMs(DeltaTime'), InMs(sysTime) - InMs(CalendarTime))
  BY <1>1, <1>2, <1>3, SubMs
<1>5. Ahead' = Ahead
  BY <1>1 DEF Ahead, ServerTicks
<1>6. PICK y \in Nat :
        /\ y + setLate <= CalendarValue(cal)
        /\ y + Ahead \in Nat
        /\ \E p \in 0..Step :
             Cong(InMs(sysTime),
                  Tick2ms(y + Ahead) - p + Tick2ms(CalendarValue(cal) - setLate) - Tick2ms(y))
  BY <1>2 DEF AnswerPending
<1>7. PICK p \in 0..Step :
        Cong(InMs(sysTime),
             Tick2ms(y + Ahead) - p + Tick2ms(CalendarValue(cal) - setLate) - Tick2ms(y))
  BY <1>6
<1>8. PICK b \in Nat : b = CalendarValue(cal) - setLate
  BY <1>2, <1>3, <1>6
<1> DEFINE new == InMs(DeltaTime')
           old == InMs(sysTime)
           read == InMs(CalendarTime)
           atSet == Tick2ms(CalendarValue(cal))
           atAns == Tick2ms(b)
           atTx == Tick2ms(y)
           sent == Tick2ms(y + Ahead)
<1>9. /\ new \in Int /\ old \in Int /\ read \in Int /\ atSet \in Int /\ atAns \in Int
      /\ atTx \in Int /\ sent \in Int
  BY <1>2, <1>3, <1>4, <1>6, InMsOf, Tick2msIs
<1>10. p \in Int /\ 0 <= p /\ p <= Step /\ Step \in Nat
  BY StampStep DEF Step
<1>11. atSet - atAns \in 0..setLate
  <2>1. b + setLate = CalendarValue(cal)
    BY <1>2, <1>3, <1>8
  <2>2. Tick2ms(b + setLate) - Tick2ms(b) \in 0..setLate
    BY <1>2, PassSlowly
  <2> QED BY <2>1, <2>2
<1>12. /\ Cong(new, old - read)
       /\ Cong(old, sent - p + atAns - atTx)
       /\ Cong(read, atSet)
  BY <1>3, <1>4, <1>7, <1>8
<1> HIDE DEF new, old, read, atSet, atAns, atTx, sent
<1>13. PICK q \in Int : q = p + (atSet - atAns)
  BY <1>9, <1>10
<1>14. q \in 0..(Step + setLate)
  BY <1>2, <1>9, <1>10, <1>11, <1>13
<1>15. Cong(old - read, (sent - p + atAns - atTx) - atSet)
  <2>1. sent - p + atAns - atTx \in Int
    BY <1>9, <1>10
  <2> QED BY <1>9, <1>12, <2>1, CongAdd
<1>16. (sent - p + atAns - atTx) - atSet = sent - q - atTx
  BY <1>9, <1>10, <1>13
<1>17. Cong(new, sent - q - atTx)
  <2>1. old - read \in Int /\ sent - q - atTx \in Int
    BY <1>9
  <2>2. Cong(old - read, sent - q - atTx)
    BY <1>15, <1>16
  <2> QED BY <1>9, <1>12, <2>1, <2>2, CongTrans
<1>18. TimeIsSet'
  <2>1. Cong(InMs(DeltaTime'), Tick2ms(y + Ahead) - q - Tick2ms(y))
    BY <1>17 DEF new, sent, atTx
  <2>2. y <= CalendarValue(cal)
    BY <1>2, <1>3, <1>6
  <2>3. \E r \in 0..(Step + setLate) :
          Cong(InMs(DeltaTime'), Tick2ms(y + Ahead) - r - Tick2ms(y))
    BY <1>14, <2>1
  <2> QED BY <1>1, <1>5, <1>6, <2>2, <2>3 DEF TimeIsSet
<1>19. SysTypeOK'
  BY <1>1, <1>2, <1>4 DEF SysTypeOK
<1> QED BY <1>1, <1>2, <1>18, <1>19 DEF SysInv

(* Every step keeps the invariant.                                          *)
LEMMA StepSys ==
  ASSUME CountInv, SysInv, SysTimeNext \/ UNCHANGED <<vars, sysTimeVars>>
  PROVE  SysInv'
<1>1. CASE Tick /\ SysTimeTick
  BY <1>1, TickSys
<1>2. CASE UseSysTime
  BY <1>2, TxDoneSys, AnswerSys, SetSys DEF UseSysTime
<1>3. CASE (ReadCalendar \/ UseAlarm \/ GetCurrentTime \/ UNCHANGED vars) /\ UNCHANGED sysTimeVars
  <2>1. UNCHANGED <<cal, ticks>>
    BY <1>3 DEF ReadCalendar, UseAlarm, GetCurrentTime, vars
  <2>2. Ahead' = Ahead
    BY <2>1 DEF Ahead, ServerTicks
  <2>3. UNCHANGED <<DeltaTime, LastTxSysTime, sysTime, serverTime, isSet, setLate>>
    BY <1>3 DEF sysTimeVars
  <2> QED BY <2>1, <2>2, <2>3 DEF SysInv, SysTypeOK, StampPending, AnswerPending, TimeIsSet
<1> QED BY <1>1, <1>2, <1>3 DEF SysTimeNext

(* What the invariant says of the system time that the node reads.          *)
LEMMA TimeSetIsTrue ==
  ASSUME CountInv, SysInv, isSet, sysTime = None
  PROVE  (Tick2ms(ServerTicks) - InMs(SysTimeGet)) % WrapMs
           \in {e % WrapMs : e \in -1..(Step + setLate + 1)}
<1>1. SysTypeOK /\ DeltaTime \in SysTimes /\ setLate \in Nat /\ TimeIsSet
  BY DEF SysInv, SysTypeOK
<1>2. /\ CalendarValue(cal) \in Nat /\ ServerTicks \in Nat /\ Ahead \in Int
      /\ CalendarValue(cal) + Ahead = ServerTicks
  BY Now
<1>3. /\ SysTimeGet \in SysTimes
      /\ Cong(InMs(SysTimeGet), InMs(DeltaTime) + Tick2ms(CalendarValue(cal)))
  BY <1>1, GetMs
<1>4. PICK y \in Nat :
        /\ y <= CalendarValue(cal)
        /\ y + Ahead \in Nat
        /\ \E p \in 0..(Step + setLate) :
             Cong(InMs(DeltaTime), Tick2ms(y + Ahead) - p - Tick2ms(y))
  BY <1>1 DEF TimeIsSet
<1>5. PICK p \in 0..(Step + setLate) : Cong(InMs(DeltaTime), Tick2ms(y + Ahead) - p - Tick2ms(y))
  BY <1>4
<1>6. p \in Int /\ 0 <= p /\ p <= Step + setLate /\ Step \in Nat
  BY <1>1, StampStep DEF Step
<1>7. PICK a \in Nat : a = y + Ahead
  BY <1>4
<1>8. PICK d \in Nat : d = CalendarValue(cal) - y
  BY <1>2, <1>4
<1>9. a + d = ServerTicks /\ y + d = CalendarValue(cal)
  BY <1>2, <1>7, <1>8
<1>10. (Tick2ms(ServerTicks) - Tick2ms(a)) - (Tick2ms(CalendarValue(cal)) - Tick2ms(y)) \in -1..1
  BY <1>9, PassAlike
<1> DEFINE server == Tick2ms(ServerTicks)
           sent == Tick2ms(a)
           now == Tick2ms(CalendarValue(cal))
           atTx == Tick2ms(y)
           got == InMs(SysTimeGet)
           delta == InMs(DeltaTime)
<1>11. /\ server \in Int /\ sent \in Int /\ now \in Int
       /\ atTx \in Int /\ got \in Int /\ delta \in Int
  BY <1>1, <1>2, <1>3, InMsOf, Tick2msIs
<1>12. /\ Cong(got, delta + now)
       /\ Cong(delta, sent - p - atTx)
       /\ (server - sent) - (now - atTx) \in -1..1
  BY <1>3, <1>5, <1>7, <1>10
<1> HIDE DEF server, sent, now, atTx, got, delta
<1>13. PICK e \in Int : e = (server - sent) - (now - atTx) + p
  BY <1>6, <1>11
<1>14. e \in -1..(Step + setLate + 1)
  BY <1>1, <1>6, <1>11, <1>12, <1>13
<1>15. Cong(delta + now, (sent - p - atTx) + now)
  <2>1. sent - p - atTx \in Int
    BY <1>6, <1>11
  <2>2. Cong(now, now)
    BY <1>11, CongSame
  <2> QED BY <1>11, <1>12, <2>1, <2>2, CongAdd
<1>16. Cong(got, (sent - p - atTx) + now)
  <2>1. delta + now \in Int /\ (sent - p - atTx) + now \in Int
    BY <1>6, <1>11
  <2> QED BY <1>11, <1>12, <1>15, <2>1, CongTrans
<1>17. Cong(server - got, server - ((sent - p - atTx) + now))
  <2>1. (sent - p - atTx) + now \in Int
    BY <1>6, <1>11
  <2>2. Cong(server, server)
    BY <1>11, CongSame
  <2> QED BY <1>11, <1>16, <2>1, <2>2, CongAdd
<1>18. server - ((sent - p - atTx) + now) = e /\ server - got \in Int
  BY <1>6, <1>11, <1>13
<1>19. Cong(server - got, e)
  BY <1>17, <1>18
<1>20. (server - got) % WrapMs = e % WrapMs
  BY <1>18, <1>19, CongMod
<1>21. (server - got) % WrapMs \in {f % WrapMs : f \in -1..(Step + setLate + 1)}
  BY <1>14, <1>20
<1> QED BY <1>21 DEF server, got

(* Once an answer to a DeviceTimeReq has set it, and however long ago,      *)
(* SysTimeGet (systime.c) is the server's time, but for the fraction of a   *)
(* second in the stamp, a millisecond lost in conversions, the time between *)
(* the two readings of the clock, and a whole number of wraps               *)
(* (hw_rtc.c:627).                                                          *)
THEOREM SysTimeTrue == SysTimeSpec => []SysTimeIsServerTime
<1>1. SysTimeInit => CountInv /\ SysInv
  BY InitSys
<1>2. CountInv /\ SysInv /\ [SysTimeNext]_<<vars, sysTimeVars>> => (CountInv /\ SysInv)'
  <2> SUFFICES ASSUME CountInv, SysInv, [SysTimeNext]_<<vars, sysTimeVars>>
               PROVE  CountInv' /\ SysInv'
    OBVIOUS
  <2>1. CountInv'
    BY SysStepsClock, StepCount
  <2>2. SysInv'
    BY StepSys
  <2> QED BY <2>1, <2>2
<1>3. CountInv /\ SysInv => SysTimeIsServerTime
  BY TimeSetIsTrue DEF SysTimeIsServerTime, Step
<1> QED BY <1>1, <1>2, <1>3, PTL DEF SysTimeSpec
===============================================================================
