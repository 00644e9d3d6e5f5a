------------------------- MODULE ControllerProofs -------------------------
(***************************************************************************)
(* Proofs about Controller, for every configuration the validation of      *)
(* config.go accepts and for surroundings of any size.                     *)
(***************************************************************************)
EXTENDS Controller, TLAPS

----------------------------------------------------------------------------
(* The helpers                                                              *)

\* The ages at which the timers stop are natural numbers.
LEMMA ElapsedType == Elapsed \in [Timer -> Nat]
<1> SUFFICES ASSUME NEW t \in Timer PROVE Elapsed[t] \in Nat
    BY DEF Elapsed
<1> USE ConfigAssumption
<1>1. CASE t = "lastTeslaPoll" BY <1>1 DEF Elapsed, Later
<1>2. CASE t = "lastOnlineAt" BY <1>2 DEF Elapsed
<1>3. CASE t = "lastNonActionableAt" BY <1>3 DEF Elapsed
<1>4. CASE t = "lastWakeAttempt" BY <1>4 DEF Elapsed
<1>5. CASE t = "lastChargeStartAttempt" BY <1>5 DEF Elapsed
<1>6. CASE t = "lastCommandFailure" BY <1>6 DEF Elapsed
<1>7. CASE t = "lastAmpsAdjustAt" BY <1>7 DEF Elapsed
<1>. QED BY <1>1, <1>2, <1>3, <1>4, <1>5, <1>6, <1>7 DEF Timer

\* Stamp and Forget turn ages into ages.
LEMMA AgesType ==
    ASSUME NEW ages \in [Timer -> Nat], NEW T
    PROVE  Stamp(ages, T) \in [Timer -> Nat] /\ Forget(ages, T) \in [Timer -> Nat]
BY ElapsedType DEF Stamp, Forget

\* What a poll returns, and what a tick works with, are charge states.
LEMMA ChargeStateType ==
    ASSUME TypeOK
    PROVE  chargeState \in ChargeState /\ NoChargeState \in ChargeState
<1> USE ConfigAssumption, EnvironmentAssumption
<1>1. NoChargeState \in ChargeState
    BY DEF NoChargeState, ChargeState, Amps
<1>2. Draw \in Amps
    BY DEF TypeOK, Draw, Amps
<1>3. FleetReading \in ChargeState
    BY <1>1, <1>2 DEF FleetReading, ChargeState, TypeOK
<1>. QED BY <1>1, <1>3 DEF chargeState, TypeOK

\* calculateAvailableAmps never leaves 0 .. MaxChargeAmps.
LEMMA AvailableType ==
    ASSUME TypeOK, NEW cs \in ChargeState
    PROVE  calculateAvailableAmps(cs) \in Amps
<1> USE ConfigAssumption, EnvironmentAssumption
<1>1. Draw \in Int /\ solar \in Int /\ LineVoltage \in Int /\ LineVoltage > 0
    BY DEF TypeOK, Draw, Amps
<1>2. Draw * LineVoltage \in Int
    BY <1>1
<1>3. gridWatts \in Int
    BY <1>1, <1>2 DEF gridWatts
<1>4. surplusWatts \in Int
    BY <1>3 DEF surplusWatts, Later
<1>5. /\ (-gridWatts) \div LineVoltage \in Int
      /\ surplusWatts \div LineVoltage \in Int
    BY <1>1, <1>3, <1>4
<1>6. cs.AmpsActual \in Int
    <2>1. cs.AmpsActual \in Amps BY DEF ChargeState
    <2>. QED BY <2>1 DEF Amps
<1> DEFINE amps == IF cs.State = "Charging"
                   THEN ((-gridWatts) \div LineVoltage) + cs.AmpsActual
                   ELSE surplusWatts \div LineVoltage
<1>7. amps \in Int
    BY <1>5, <1>6
<1>8. calculateAvailableAmps(cs) = IF amps < 0 THEN 0
                                   ELSE IF amps > MaxChargeAmps
                                        THEN MaxChargeAmps ELSE amps
    BY DEF calculateAvailableAmps
<1> HIDE DEF amps
<1>. QED BY <1>7, <1>8 DEF Amps

\* The commands leave a car a car.
CarType == [online : BOOLEAN, state : CarStates, amps : Amps]

\* Commands turn a car into a car.
LEMMA CommandsType ==
    ASSUME NEW c \in CarType, NEW a \in Amps, NEW o, NEW d \in CarType
    PROVE  /\ AmpsSet(c, a) \in CarType /\ Started(c) \in CarType
           /\ Halted(c) \in CarType /\ Woken(c) \in CarType
           /\ After(o, c, d) \in CarType
<1>1. /\ MinChargeAmps \in Amps /\ MaxChargeAmps \in Amps
      /\ {"Stopped", "Charging"} \subseteq CarStates
    BY ConfigAssumption, EnvironmentAssumption DEF Amps
<1>2. AmpsSet(c, a) \in CarType
    BY <1>1 DEF CarType, AmpsSet
<1>3. Started(c) \in CarType
    BY <1>1 DEF CarType, Started
<1>4. Halted(c) \in CarType
    BY <1>1 DEF CarType, Halted
<1>5. Woken(c) \in CarType /\ After(o, c, d) \in CarType
    BY DEF CarType, Woken, After
<1>. QED BY <1>2, <1>3, <1>4, <1>5

\* sinceSeen, and the values a tick stamps on it, are ages.
LEMMA SinceSeenType ==
    ASSUME TypeOK
    PROVE  sinceSeen \in [Timer -> Nat]
<1>1. since \in [Timer -> Nat]
    BY DEF TypeOK
<1> DEFINE polled == IF shouldPollTesla THEN Stamp(since, {"lastTeslaPoll"})
                     ELSE since
<1>2. polled \in [Timer -> Nat]
    BY <1>1, AgesType
<1> HIDE DEF polled
<1>3. /\ Stamp(polled, {"lastOnlineAt", "lastNonActionableAt"}) \in [Timer -> Nat]
      /\ Stamp(polled, {"lastOnlineAt"}) \in [Timer -> Nat]
    BY <1>2, AgesType
<1>4. Forget(Stamp(polled, {"lastOnlineAt"}), {"lastNonActionableAt"})
        \in [Timer -> Nat]
    BY <1>3, AgesType
<1>5. sinceSeen \in {polled,
                     Stamp(polled, {"lastOnlineAt", "lastNonActionableAt"}),
                     Forget(Stamp(polled, {"lastOnlineAt"}),
                            {"lastNonActionableAt"})}
    BY DEF sinceSeen, polled
<1>. QED BY <1>2, <1>3, <1>4, <1>5

\* maybeClearError leaves the controller in one of its states.
LEMMA ClearType ==
    ASSUME TypeOK PROVE maybeClearError \in State
BY DEF TypeOK, maybeClearError, State

----------------------------------------------------------------------------
(* Sessions                                                                 *)

StatsType == [samples : Nat, peak : Amps, total : Nat]

\* Statistics that may belong to session id.
StatsOK(st, id) ==
    /\ st \in StatsType
    /\ id = 0 => st = NoStats
    /\ st.samples <= st.total
    /\ st.total <= st.samples * st.peak

\* No samples, no sum.
LEMMA NoStatsOK == ASSUME NEW id PROVE StatsOK(NoStats, id)
BY ConfigAssumption DEF StatsOK, NoStats, StatsType, Amps

\* A sample keeps the sum between the number of samples and their number
\* times the peak.
LEMMA SumBound ==
    ASSUME NEW n \in Nat, NEW p \in Nat, NEW q \in Nat, NEW t \in Nat,
           NEW a \in Nat, t <= n * p, p <= q, a <= q
    PROVE  t + a <= (n + 1) * q
<1>1. n * p <= n * q
    <2>1. n * q = n * p + n * (q - p) /\ n * (q - p) \in Nat /\ n * p \in Nat
        OBVIOUS
    <2>. QED BY <2>1
<1>2. (n + 1) * q = n * q + q /\ n * q \in Nat /\ n * p \in Nat
    OBVIOUS
<1>. QED BY <1>1, <1>2

\* recordSessionSample keeps the statistics in order.
LEMMA SampleOK ==
    ASSUME TypeOK, SessionBookkeeping
    PROVE  StatsOK(recordSessionSample(chargeState), activeSessionID)
<1> DEFINE cs == chargeState
           r == recordSessionSample(cs)
<1>1. StatsOK(sessionStats, activeSessionID)
    BY DEF TypeOK, SessionBookkeeping, StatsOK, StatsType
<1>2. CASE r = sessionStats
    BY <1>1, <1>2
<1>3. CASE r # sessionStats
    <2>1. cs.AmpsActual \in Amps
        BY ChargeStateType DEF ChargeState
    <2>2. cs.AmpsActual \in Nat /\ cs.AmpsActual >= 1 /\ activeSessionID # 0
        <3>1. cs.AmpsActual > 0 /\ activeSessionID # 0
            BY <1>3, <2>1, ConfigAssumption DEF recordSessionSample, Amps
        <3>. QED BY <2>1, <3>1, ConfigAssumption DEF Amps
    <2>3. r = [samples |-> sessionStats.samples + 1,
               peak    |-> Later(sessionStats.peak, cs.AmpsActual),
               total   |-> sessionStats.total + cs.AmpsActual]
        BY <1>3 DEF recordSessionSample
    <2> DEFINE n == sessionStats.samples
               p == sessionStats.peak
               t == sessionStats.total
               a == cs.AmpsActual
               q == Later(p, a)
    <2>4. n \in Nat /\ p \in Amps /\ t \in Nat /\ n <= t /\ t <= n * p
        BY <1>1 DEF StatsOK, StatsType
    <2>5. p \in Nat /\ a \in Nat /\ q \in Amps /\ q \in Nat /\ p <= q /\ a <= q
        <3>1. p \in 0 .. MaxChargeAmps /\ a \in 0 .. MaxChargeAmps /\ MaxChargeAmps \in Nat
            BY <2>1, <2>4, ConfigAssumption DEF Amps
        <3> HIDE DEF p, a
        <3>. QED BY <3>1 DEF Later, Amps
    <2>6. t + a <= (n + 1) * q
        <3> HIDE DEF n, p, t, a, q
        <3>. QED BY <2>4, <2>5, SumBound
    <2>7. n + 1 <= t + a
        BY <2>2, <2>4
    <2>8. r = [samples |-> n + 1, peak |-> q, total |-> t + a]
        BY <2>3
    <2>9. n + 1 \in Nat /\ t + a \in Nat
        BY <2>2, <2>4
    <2> HIDE DEF n, p, t, a, q, r
    <2>10. r \in StatsType /\ r.samples = n + 1 /\ r.peak = q /\ r.total = t + a
        BY <2>8, <2>5, <2>9 DEF StatsType
    <2>11. StatsOK(r, activeSessionID)
        BY <2>2, <2>6, <2>7, <2>10 DEF StatsOK
    <2>. QED BY <2>11 DEF r
<1>. QED BY <1>2, <1>3

\* What transitionTo does to the session.
TransitionOK ==
    /\ activeSessionID' \in SessionIDs \union {0}
    /\ openRows' \subseteq SessionIDs
    /\ sessionStats' \in StatsType
    /\ SessionBookkeeping'
    /\ healthy => openRows' \ {activeSessionID'}
                    \subseteq openRows \ {activeSessionID}

\* transitionTo opens, closes or leaves the session as the state requires.
LEMMA TransitionKeepsBooks ==
    ASSUME TypeOK, SessionBookkeeping,
           NEW s, NEW st, StatsOK(st, activeSessionID), transitionTo(s, st)
    PROVE  TransitionOK
<1>0. 0 \notin SessionIDs /\ 0 \notin openRows /\ openRows \subseteq SessionIDs
    BY EnvironmentAssumption DEF TypeOK
<1>1. activeSessionID \in SessionIDs \union {0}
    BY DEF TypeOK
<1>2. CASE s = "charging" /\ state # "charging"
    <2>1. StartSession
        BY <1>2 DEF transitionTo
    <2>2. activeSessionID = 0
        BY <1>2 DEF SessionBookkeeping
    <2>3. state' = "charging" /\ sessionStats' = NoStats
        BY <1>2, <2>1 DEF transitionTo, StartSession
    <2>4. StatsOK(sessionStats', activeSessionID')
        BY <2>3, NoStatsOK
    <2>5. CASE \E id \in SessionIDs \ openRows :
                   activeSessionID' = id /\ openRows' = openRows \union {id}
        BY <1>0, <2>2, <2>3, <2>4, <2>5
        DEF TransitionOK, SessionBookkeeping, StatsOK
    <2>6. CASE UNCHANGED <<activeSessionID, openRows>>
        BY <1>0, <1>1, <2>2, <2>3, <2>4, <2>6
        DEF TransitionOK, SessionBookkeeping, StatsOK
    <2>. QED BY <2>1, <2>5, <2>6 DEF StartSession
<1>3. CASE s # "charging" /\ state = "charging" /\ activeSessionID # 0
    <2>1. EndSession
        BY <1>3 DEF transitionTo
    <2>2. activeSessionID' = 0 /\ sessionStats' = NoStats
        BY <2>1 DEF EndSession
    <2>3. StatsOK(sessionStats', activeSessionID')
        BY <2>2, NoStatsOK
    <2>4. /\ openRows' \subseteq openRows
          /\ healthy => openRows' = openRows \ {activeSessionID}
        BY <2>1 DEF EndSession
    <2>. QED BY <1>0, <2>2, <2>3, <2>4
         DEF TransitionOK, SessionBookkeeping, StatsOK
<1>4. CASE ~(s = "charging" /\ state # "charging")
           /\ ~(s # "charging" /\ state = "charging" /\ activeSessionID # 0)
    <2>1. /\ state' = s /\ sessionStats' = st
          /\ activeSessionID' = activeSessionID /\ openRows' = openRows
        BY <1>4 DEF transitionTo
    <2>2. activeSessionID # 0 => s = "charging" /\ activeSessionID \in openRows
        BY <1>4 DEF SessionBookkeeping
    <2>. QED BY <1>0, <1>1, <2>1, <2>2
         DEF TransitionOK, SessionBookkeeping, StatsOK
<1>. QED BY <1>2, <1>3, <1>4

----------------------------------------------------------------------------
(* The inductive invariant                                                  *)

\* SessionBookkeeping is inductive only with the types: the row of a session
\* is open because ids are never 0 and come from the free ones.  That a
\* process in test mode opens no session rests on none being active.
IInv == TypeOK /\ SessionBookkeeping /\ CountersExclusive
               /\ SnapshotLagsOnlyInError /\ TestModeLeavesCarAlone

\* What a tick establishes apart from the counters, the current and the car.
TickOK ==
    /\ TeslaTestMode' = TeslaTestMode
    /\ state' \in State /\ mode' \in Mode
    /\ lastKnownPluggedIn' \in BOOLEAN /\ hasCachedState' \in BOOLEAN
    /\ cachedChargeState' \in ChargeState
    /\ since' \in [Timer -> Nat]
    /\ snapshot' \in [State : State, Mode : Mode, LastError : BOOLEAN]
    /\ unsaved' \in BOOLEAN
    /\ alive' = alive /\ solar' = solar /\ wakeWindow' = wakeWindow
    /\ healthy' = healthy
    /\ SnapshotLagsOnlyInError'
    /\ TransitionOK

CountersOK ==
    /\ consecutiveLow' \in 0 .. DeadbandPolls
    /\ consecutiveSurplus' \in 0 .. WakeThresholdPolls
    /\ CountersExclusive'

CarOK == lastChargeAmps' \in Amps /\ car' \in CarType

\* A tick that settles.
LEMMA SettleOK ==
    ASSUME IInv, NEW s \in State, NEW ages \in [Timer -> Nat], Settle(s, ages)
    PROVE  TickOK
<1>1. TransitionOK
    BY SampleOK, TransitionKeepsBooks DEF IInv, Settle
<1>2. state' = s
    BY DEF Settle, transitionTo
<1>3. chargeState \in ChargeState
    BY ChargeStateType DEF IInv
<1>4. lastKnownPluggedIn' \in BOOLEAN
    BY <1>3 DEF Settle, SeeCar, ChargeState, IInv, TypeOK
<1>5. snapshot' = [State |-> s, Mode |-> mode, LastError |-> FALSE]
    BY DEF Settle, Publish
<1>6. SnapshotLagsOnlyInError'
    BY <1>2, <1>5 DEF SnapshotLagsOnlyInError
<1>7. snapshot' \in [State : State, Mode : Mode, LastError : BOOLEAN]
    BY <1>5 DEF IInv, TypeOK
<1>. QED
    BY <1>1, <1>2, <1>3, <1>4, <1>6, <1>7
    DEF TickOK, Settle, SeeCar, Publish, IInv, TypeOK

\* Counting keeps the counters apart.
LEMMA CountingOK ==
    ASSUME IInv, SurplusTick \/ LowTick \/ resetCounters
                 \/ UNCHANGED <<consecutiveLow, consecutiveSurplus>>
    PROVE  CountersOK
BY ConfigAssumption
   DEF IInv, TypeOK, SurplusTick, LowTick, resetCounters, Bump, CountersOK,
       CountersExclusive

\* The car as it was, or after a command.
LEMMA CarStays ==
    ASSUME IInv, UNCHANGED <<lastChargeAmps, car>> PROVE CarOK
BY DEF IInv, TypeOK, CarOK, CarType

\* The ticks that end before the state machine.
LEMMA EarlyTicks ==
    ASSUME IInv, \/ InverterFails \/ TestModeTick \/ TeslaReadFails
                 \/ IdleTick \/ ManualTick
    PROVE  TickOK /\ CountersOK /\ CarOK
<1>1. StatsOK(sessionStats, activeSessionID)
    BY DEF IInv, TypeOK, SessionBookkeeping, StatsOK, StatsType
<1>2. {"error", "idle", "monitoring"} \subseteq State
    BY DEF State
<1>3. CASE InverterFails
    <2>1. transitionTo("error", sessionStats) BY <1>3 DEF InverterFails
    <2>2. TransitionOK BY <1>1, <2>1, TransitionKeepsBooks DEF IInv
    <2>3. state' = "error" BY <2>1 DEF transitionTo
    <2>4. SnapshotLagsOnlyInError' BY <2>3 DEF SnapshotLagsOnlyInError
    <2>5. TickOK
        BY <1>2, <1>3, <2>2, <2>3, <2>4
        DEF InverterFails, TickOK, IInv, TypeOK, envVars
    <2>6. CountersOK BY <1>3, CountingOK DEF InverterFails
    <2>7. CarOK BY <1>3, CarStays DEF InverterFails, envVars
    <2>. QED BY <2>5, <2>6, <2>7
<1>4. CASE TestModeTick
    <2>1. PICK s \in {"monitoring", "idle"} :
              transitionTo(s, sessionStats) /\ Publish(s)
        BY <1>4 DEF TestModeTick
    <2>2. TransitionOK BY <1>1, <2>1, TransitionKeepsBooks DEF IInv
    <2>3. state' = s /\ s \in State BY <1>2, <2>1 DEF transitionTo
    <2>4. snapshot' = [State |-> s, Mode |-> mode, LastError |-> FALSE]
          /\ unsaved' = TRUE
        BY <2>1 DEF Publish
    <2>5. SnapshotLagsOnlyInError' BY <2>3, <2>4 DEF SnapshotLagsOnlyInError
    <2>6. TickOK
        BY <1>4, <2>2, <2>3, <2>4, <2>5
        DEF TestModeTick, TickOK, IInv, TypeOK, envVars
    <2>7. CountersOK
        BY <1>4, ConfigAssumption
        DEF TestModeTick, resetCounters, Bump, CountersOK, CountersExclusive,
            IInv, TypeOK
    <2>8. CarOK BY <1>4, CarStays DEF TestModeTick, envVars
    <2>. QED BY <2>6, <2>7, <2>8
<1>5. CASE TeslaReadFails
    <2>1. transitionTo("error", sessionStats) BY <1>5 DEF TeslaReadFails
    <2>2. TransitionOK BY <1>1, <2>1, TransitionKeepsBooks DEF IInv
    <2>3. state' = "error" BY <2>1 DEF transitionTo
    <2>4. SnapshotLagsOnlyInError' BY <2>3 DEF SnapshotLagsOnlyInError
    <2>5. TickOK
        BY <1>2, <1>5, <2>2, <2>3, <2>4
        DEF TeslaReadFails, TickOK, IInv, TypeOK, envVars
    <2>6. CountersOK BY <1>5, CountingOK DEF TeslaReadFails
    <2>7. CarOK BY <1>5, CarStays DEF TeslaReadFails, envVars
    <2>. QED BY <2>5, <2>6, <2>7
<1>6. sinceSeen \in [Timer -> Nat]
    BY SinceSeenType DEF IInv
<1>7. CASE IdleTick
    <2>1. TickOK BY <1>2, <1>6, <1>7, SettleOK DEF IdleTick
    <2>2. CountersOK BY <1>7, CountingOK DEF IdleTick
    <2>3. CarOK BY <1>7, CarStays DEF IdleTick
    <2>. QED BY <2>1, <2>2, <2>3
<1>8. CASE ManualTick
    <2>1. maybeClearError \in State BY ClearType DEF IInv
    <2>2. TickOK BY <1>6, <1>8, <2>1, SettleOK DEF ManualTick
    <2>3. CountersOK BY <1>8, CountingOK DEF ManualTick
    <2>4. CarOK BY <1>8, CarStays DEF ManualTick
    <2>. QED BY <2>2, <2>3, <2>4
<1>. QED BY <1>3, <1>4, <1>5, <1>7, <1>8

\* The decisions of the state machine.
LEMMA DecideOK ==
    ASSUME IInv, Decide
    PROVE  TickOK /\ CountersOK /\ CarOK
<1>1. sinceSeen \in [Timer -> Nat]
    BY SinceSeenType DEF IInv
<1>2. \A T : Stamp(sinceSeen, T) \in [Timer -> Nat]
    BY <1>1, AgesType
<1>3. \A T, U : Stamp(Stamp(sinceSeen, T), U) \in [Timer -> Nat]
    BY <1>2, AgesType
<1>4. available \in Amps
    BY ChargeStateType, AvailableType DEF IInv, available
<1>5. car \in CarType /\ lastChargeAmps \in Amps /\ 0 \in Amps
    BY ConfigAssumption DEF IInv, TypeOK, CarType, Amps
<1>6. State = {"idle", "monitoring", "charging", "stopped_low_surplus",
               "wake_pending", "error"} /\ maybeClearError \in State
    BY ClearType DEF State, IInv
<1>7. \A o, d : d \in CarType => After(o, car, d) \in CarType
    BY <1>5 DEF After
<1>8. AmpsSet(car, available) \in CarType
    BY <1>4, <1>5, CommandsType
<1>9. Halted(car) \in CarType /\ Woken(car) \in CarType
    BY <1>4, <1>5, CommandsType
<1>10. CASE WaitToWake
    <2>1. \E s \in State : Settle(s, sinceSeen)
        BY <1>6, <1>10 DEF WaitToWake
    <2>2. TickOK BY <1>1, <2>1, SettleOK
    <2>3. CountersOK BY <1>10, CountingOK DEF WaitToWake
    <2>4. CarOK BY <1>10, CarStays DEF WaitToWake
    <2>. QED BY <2>2, <2>3, <2>4
<1>11. CASE WakeUp
    <2>1. PICK o : /\ car' = After(o, car, Woken(car))
                   /\ Settle(IF Errs(o) THEN "error" ELSE "wake_pending",
                             Stamp(sinceSeen, {"lastWakeAttempt"}))
        BY <1>11 DEF WakeUp
    <2>2. (IF Errs(o) THEN "error" ELSE "wake_pending") \in State
        BY <1>6
    <2>3. TickOK BY <1>2, <2>1, <2>2, SettleOK
    <2>4. CountersOK BY <1>11, CountingOK DEF WakeUp
    <2>5. CarOK BY <1>5, <1>7, <1>9, <1>11, <2>1 DEF WakeUp, CarOK
    <2>. QED BY <2>3, <2>4, <2>5
<1>12. CASE HoldStart
    <2>1. TickOK BY <1>1, <1>6, <1>12, SettleOK DEF HoldStart
    <2>2. CountersOK BY <1>12, CountingOK DEF HoldStart
    <2>3. CarOK BY <1>12, CarStays DEF HoldStart
    <2>. QED BY <2>1, <2>2, <2>3
<1>13. CASE StartCharging
    <2>1. PICK amps, start :
            LET ampsSet == After(amps, car, AmpsSet(car, available))
                tried   == Stamp(sinceSeen, {"lastChargeStartAttempt"})
            IN  \/ /\ car' = ampsSet
                   /\ Settle("error", Stamp(tried, {"lastCommandFailure"}))
                   /\ UNCHANGED lastChargeAmps
                \/ /\ car' = After(start, ampsSet, Started(ampsSet))
                   /\ Settle("error", Stamp(tried, {"lastAmpsAdjustAt",
                                                    "lastCommandFailure"}))
                   /\ UNCHANGED lastChargeAmps
                \/ /\ car' = After(start, ampsSet, Started(ampsSet))
                   /\ Settle("charging", Stamp(tried, {"lastAmpsAdjustAt"}))
                   /\ lastChargeAmps' = available
        BY <1>13 DEF StartCharging
    <2> DEFINE ampsSet == After(amps, car, AmpsSet(car, available))
               tried   == Stamp(sinceSeen, {"lastChargeStartAttempt"})
    <2>2. ampsSet \in CarType
        BY <1>7, <1>8
    <2>3. Started(ampsSet) \in CarType
        BY <1>4, <2>2, CommandsType
    <2>4. After(start, ampsSet, Started(ampsSet)) \in CarType
        BY <2>2, <2>3 DEF After
    <2>5. \E s \in State : \E T : Settle(s, Stamp(tried, T))
        BY <1>6, <2>1
    <2>6. TickOK BY <1>3, <2>5, SettleOK
    <2>7. CountersOK BY <1>13, CountingOK DEF StartCharging
    <2>8. CarOK BY <1>4, <1>5, <2>1, <2>2, <2>4 DEF CarOK
    <2>. QED BY <2>6, <2>7, <2>8
<1>14. CASE KeepCharging
    <2>1. TickOK BY <1>1, <1>6, <1>14, SettleOK DEF KeepCharging
    <2>2. CountersOK BY <1>14, CountingOK DEF KeepCharging
    <2>3. CarOK BY <1>14, CarStays DEF KeepCharging
    <2>. QED BY <2>1, <2>2, <2>3
<1>15. CASE AdjustAmps
    <2>1. PICK o : /\ car' = After(o, car, AmpsSet(car, available))
                   /\ lastChargeAmps' = IF Errs(o) THEN lastChargeAmps
                                        ELSE available
                   /\ Settle("charging",
                             Stamp(sinceSeen, IF Errs(o)
                                              THEN {"lastCommandFailure"}
                                              ELSE {"lastAmpsAdjustAt"}))
        BY <1>15 DEF AdjustAmps
    <2>2. TickOK BY <1>2, <1>6, <2>1, SettleOK
    <2>3. CountersOK BY <1>15, CountingOK DEF AdjustAmps
    <2>4. CarOK BY <1>4, <1>5, <1>7, <1>8, <2>1 DEF CarOK
    <2>. QED BY <2>2, <2>3, <2>4
<1>16. CASE StopCharging
    <2>1. PICK o :
            /\ car' = After(o, car, Halted(car))
            /\ IF Errs(o)
               THEN /\ Settle(maybeClearError,
                              Stamp(sinceSeen, {"lastCommandFailure"}))
                    /\ UNCHANGED lastChargeAmps
               ELSE /\ Settle("stopped_low_surplus", sinceSeen)
                    /\ lastChargeAmps' = 0
        BY <1>16 DEF StopCharging
    <2>2. TickOK BY <1>1, <1>2, <1>6, <2>1, SettleOK
    <2>3. CountersOK BY <1>16, CountingOK DEF StopCharging
    <2>4. CarOK BY <1>5, <1>7, <1>9, <2>1 DEF CarOK
    <2>. QED BY <2>2, <2>3, <2>4
<1>17. CASE RideOutLow
    <2>1. \E s \in State : Settle(s, sinceSeen)
        BY <1>6, <1>17 DEF RideOutLow
    <2>2. TickOK BY <1>1, <2>1, SettleOK
    <2>3. CountersOK BY <1>17, CountingOK DEF RideOutLow
    <2>4. CarOK BY <1>17, CarStays DEF RideOutLow
    <2>. QED BY <2>2, <2>3, <2>4
<1>. QED
    BY <1>10, <1>11, <1>12, <1>13, <1>14, <1>15, <1>16, <1>17 DEF Decide

\* In test mode a tick ends in InverterFails or TestModeTick, and neither
\* begins a charge.
LEMMA TestModeTicks ==
    ASSUME IInv, TickSteps PROVE TestModeLeavesCarAlone'
<1>1. TickOK
    BY EarlyTicks, DecideOK DEF TickSteps
<1>2. CASE ~TeslaTestMode
    BY <1>1, <1>2 DEF TickOK, TestModeLeavesCarAlone
<1>3. CASE TeslaTestMode
    <2>1. ~SurplusTick /\ ~LowTick
        BY <1>3 DEF SurplusTick, LowTick, Controlling
    <2>2. InverterFails \/ TestModeTick
        BY <1>3, <2>1
        DEF TickSteps, TeslaReadFails, IdleTick, ManualTick, Decide, WaitToWake,
            WakeUp, HoldStart, StartCharging, KeepCharging, AdjustAmps,
            StopCharging, RideOutLow
    <2>3. /\ activeSessionID = 0 /\ lastChargeAmps = 0 /\ ~hasCachedState
          /\ ~lastKnownPluggedIn
        BY <1>3 DEF IInv, TestModeLeavesCarAlone
    <2>4. UNCHANGED <<lastChargeAmps, hasCachedState, lastKnownPluggedIn>>
        BY <2>2 DEF InverterFails, TestModeTick
    <2>5. PICK s \in {"idle", "monitoring", "error"} :
              transitionTo(s, sessionStats)
        BY <2>2 DEF InverterFails, TestModeTick
    <2>6. state' = s /\ activeSessionID' = 0
        BY <2>3, <2>5 DEF transitionTo
    <2>. QED BY <2>3, <2>4, <2>6 DEF TestModeLeavesCarAlone
<1>. QED BY <1>2, <1>3 DEF IInv, TypeOK

\* A tick keeps the invariant and abandons no row while the store works.
LEMMA TickKeepsInvariant ==
    ASSUME IInv, NEW caller \in {"ticker", "refresh"}, Tick(caller)
    PROVE  /\ IInv'
           /\ healthy => openRows' \ {activeSessionID'}
                           \subseteq openRows \ {activeSessionID}
<1>1. TickOK /\ CountersOK /\ CarOK
    BY EarlyTicks, DecideOK DEF Tick, TickSteps
<1>2. due' \subseteq {"ticker", "refresh"}
    BY DEF Tick, IInv, TypeOK
<1>3. TypeOK'
    BY <1>1, <1>2
    DEF IInv, TypeOK, TickOK, CountersOK, CarOK, CarType, TransitionOK, StatsType
<1>4. SessionBookkeeping' /\ CountersExclusive' /\ SnapshotLagsOnlyInError'
      /\ TestModeLeavesCarAlone'
    BY <1>1, TestModeTicks DEF TickOK, CountersOK, TransitionOK, Tick
<1>5. healthy => openRows' \ {activeSessionID'}
                   \subseteq openRows \ {activeSessionID}
    BY <1>1 DEF TickOK, TransitionOK
<1>. QED BY <1>3, <1>4, <1>5 DEF IInv

----------------------------------------------------------------------------
(* The other steps                                                          *)

\* Steps of the surroundings and of the dashboard that only touch the car,
\* the sun, the hour or the requests' health.
LEMMA SurroundingsKeepInvariant ==
    ASSUME IInv, UNCHANGED <<ctlVars, openRows>>,
           due' \subseteq {"ticker", "refresh"},
           alive' \in {"running", "shutdown", "crashed"},
           car' \in CarType, solar' \in SolarWatts,
           wakeWindow' \in BOOLEAN, healthy' \in BOOLEAN
    PROVE  IInv'
<1>1. TypeOK'
    BY DEF IInv, TypeOK, ctlVars, CarType
<1>2. SessionBookkeeping' /\ CountersExclusive' /\ SnapshotLagsOnlyInError'
      /\ TestModeLeavesCarAlone'
    BY DEF IInv, SessionBookkeeping, CountersExclusive,
           SnapshotLagsOnlyInError, TestModeLeavesCarAlone, ctlVars
<1>. QED BY <1>1, <1>2 DEF IInv

\* The dashboard's commands, the end of the process and the surroundings.
LEMMA CommandStepsKeepInvariant ==
    ASSUME IInv,
           \/ \E amps \in Amps : ManualSetAmps(amps)
           \/ ManualStart \/ ManualStop \/ SetChargeLimit \/ Shutdown \/ Crash
           \/ CarChanges \/ CarReachability \/ SunChanges \/ HourChanges
           \/ HealthChanges
    PROVE  IInv'
<1>1. car \in CarType
    BY DEF IInv, TypeOK, CarType
<1>2. 0 \in Amps
    BY ConfigAssumption DEF Amps
<1>3. Started(car) \in CarType /\ Halted(car) \in CarType
    BY <1>1, <1>2, CommandsType
<1>4. \A o, d : d \in CarType => After(o, car, d) \in CarType
    BY <1>1 DEF After
<1> DEFINE Quiet == /\ UNCHANGED <<ctlVars, openRows>>
                    /\ due' = due
                    /\ alive' \in {"running", "shutdown", "crashed"}
                    /\ car' \in CarType /\ solar' \in SolarWatts
                    /\ wakeWindow' \in BOOLEAN /\ healthy' \in BOOLEAN
<1>5. ASSUME NEW effect \in CarType, ManualCommand(effect) PROVE Quiet
    BY <1>4, <1>5 DEF ManualCommand, IInv, TypeOK
<1>6. CASE \E amps \in Amps : ManualSetAmps(amps)
    <2>1. PICK amps \in Amps : ManualSetAmps(amps) BY <1>6
    <2>2. AmpsSet(car, amps) \in CarType BY <1>1, CommandsType
    <2>. QED BY <1>5, <2>1, <2>2, SurroundingsKeepInvariant
         DEF ManualSetAmps, IInv, TypeOK
<1>7. CASE ManualStart \/ ManualStop
    BY <1>3, <1>5, <1>7, SurroundingsKeepInvariant
    DEF ManualStart, ManualStop, IInv, TypeOK
<1>8. CASE SetChargeLimit
    <2> DEFINE d == [car EXCEPT !.state = CASE @ = "Charging" -> "Complete"
                                            [] @ = "Complete" -> "Charging"
                                            [] OTHER -> @]
    <2>1. d \in CarType
        BY <1>1, <1>8, EnvironmentAssumption DEF SetChargeLimit, CarType
    <2>2. \E o : car' = After(o, car, d)
        BY <1>8 DEF SetChargeLimit
    <2> HIDE DEF d
    <2>3. car' \in CarType
        BY <1>4, <2>1, <2>2
    <2>. QED BY <1>8, <2>3, SurroundingsKeepInvariant
         DEF SetChargeLimit, IInv, TypeOK
<1>9. CASE Shutdown
    <2>1. car' \in CarType BY <1>1, <1>3, <1>4, <1>9 DEF Shutdown
    <2>. QED BY <1>9, <2>1, SurroundingsKeepInvariant
         DEF Shutdown, IInv, TypeOK
<1>10. CASE Crash
    BY <1>1, <1>10, SurroundingsKeepInvariant DEF Crash, envVars, IInv, TypeOK
<1>11. CASE CarChanges
    <2>1. car' \in CarType BY <1>1, <1>11 DEF CarChanges, CarType
    <2>. QED BY <1>11, <2>1, SurroundingsKeepInvariant
         DEF CarChanges, IInv, TypeOK
<1>12. CASE CarReachability
    <2>1. car' \in CarType BY <1>1, <1>12 DEF CarReachability, CarType
    <2>. QED BY <1>12, <2>1, SurroundingsKeepInvariant
         DEF CarReachability, IInv, TypeOK
<1>13. CASE SunChanges \/ HourChanges \/ HealthChanges
    BY <1>1, <1>13, SurroundingsKeepInvariant
    DEF SunChanges, HourChanges, HealthChanges, IInv, TypeOK
<1>. QED BY <1>6, <1>7, <1>8, <1>9, <1>10, <1>11, <1>12, <1>13

\* The values New gives the fields have their types.
LEMMA FreshTypes ==
    /\ 0 \in 0 .. DeadbandPolls /\ 0 \in 0 .. WakeThresholdPolls
    /\ 0 \in Amps /\ MaxChargeAmps \in Amps
    /\ {"Disconnected", "Stopped"} \subseteq CarStates
    /\ [State |-> "idle", Mode |-> "auto", LastError |-> FALSE]
         \in [State : State, Mode : Mode, LastError : BOOLEAN]
    /\ NoStats \in StatsType /\ NoChargeState \in ChargeState
<1>1. 0 \in 0 .. DeadbandPolls /\ 0 \in 0 .. WakeThresholdPolls
    BY ConfigAssumption
<1>2. 0 \in Amps /\ MaxChargeAmps \in Amps
    BY ConfigAssumption DEF Amps
<1>3. [State |-> "idle", Mode |-> "auto", LastError |-> FALSE]
         \in [State : State, Mode : Mode, LastError : BOOLEAN]
    BY DEF State, Mode
<1>4. NoStats \in StatsType /\ NoChargeState \in ChargeState
    BY <1>2 DEF NoStats, StatsType, NoChargeState, ChargeState
<1>. QED BY <1>1, <1>2, <1>3, <1>4, EnvironmentAssumption

\* Switching the mode, forcing a refresh, restarting and the passing of time.
LEMMA ControlStepsKeepInvariant ==
    ASSUME IInv, \/ \E m \in Mode : SetMode(m)
                 \/ ForceRefresh \/ Restart \/ Elapse
    PROVE  IInv'
<1>1. CASE \E m \in Mode : SetMode(m)
    <2>1. PICK m \in Mode : SetMode(m) BY <1>1
    <2>2. snapshot' \in [State : State, Mode : Mode, LastError : BOOLEAN]
          /\ snapshot'.State = snapshot.State
        BY <2>1 DEF SetMode, IInv, TypeOK
    <2>3. TypeOK'
        BY <2>1, <2>2 DEF SetMode, IInv, TypeOK, envVars
    <2>. QED BY <2>1, <2>2, <2>3
         DEF SetMode, IInv, SessionBookkeeping, CountersExclusive,
             SnapshotLagsOnlyInError, TestModeLeavesCarAlone
<1>2. CASE ForceRefresh
    <2>1. since' \in [Timer -> Nat]
        BY <1>2, AgesType DEF ForceRefresh, IInv, TypeOK
    <2>2. cachedChargeState' \in ChargeState
        BY <1>2, ChargeStateType DEF ForceRefresh, IInv
    <2>3. /\ state' \in State
          /\ snapshot' \in [State : State, Mode : Mode, LastError : BOOLEAN]
          /\ SnapshotLagsOnlyInError'
          /\ state = "charging" => state' = "charging"
        BY <1>2 DEF ForceRefresh, IInv, TypeOK, State, SnapshotLagsOnlyInError
    <2>4. CountersOK
        BY <1>2, CountingOK DEF ForceRefresh
    <2>5. TypeOK'
        BY <1>2, <2>1, <2>2, <2>3, <2>4
        DEF ForceRefresh, IInv, TypeOK, CountersOK, envVars
    <2>6. SessionBookkeeping'
        BY <1>2, <2>3 DEF ForceRefresh, IInv, SessionBookkeeping
    <2>7. TestModeLeavesCarAlone'
        BY <1>2 DEF ForceRefresh, IInv, TestModeLeavesCarAlone
    <2>. QED BY <2>3, <2>4, <2>5, <2>6, <2>7 DEF IInv, CountersOK
<1>3. CASE Restart
    <2>1. "idle" \in State /\ "auto" \in Mode
        BY DEF State, Mode
    <2>2. StatsOK(NoStats, 0)
        BY NoStatsOK
    <2>3. TypeOK'
        BY <1>3, <2>1, FreshTypes, ElapsedType, EnvironmentAssumption
        DEF Restart, IInv, TypeOK, StatsType, envVars
    <2>4. SessionBookkeeping'
        BY <1>3, <2>2 DEF Restart, SessionBookkeeping, StatsOK
    <2>5. CountersExclusive' /\ SnapshotLagsOnlyInError'
          /\ TestModeLeavesCarAlone'
        BY <1>3 DEF Restart, CountersExclusive, SnapshotLagsOnlyInError,
                    TestModeLeavesCarAlone
    <2>. QED BY <2>3, <2>4, <2>5 DEF IInv
<1>4. CASE Elapse
    <2>1. since' \in [Timer -> Nat]
        BY <1>4, ElapsedType DEF Elapse, Bump, IInv, TypeOK
    <2>2. TypeOK'
        BY <1>4, <2>1 DEF Elapse, IInv, TypeOK, envVars
    <2>. QED BY <1>4, <2>2
         DEF Elapse, IInv, SessionBookkeeping, CountersExclusive,
             SnapshotLagsOnlyInError, TestModeLeavesCarAlone
<1>. QED BY <1>1, <1>2, <1>3, <1>4

----------------------------------------------------------------------------
(* The theorems                                                             *)

\* New starts in the invariant.
LEMMA InitInvariant == Init => IInv
<1> SUFFICES ASSUME Init PROVE IInv
    OBVIOUS
<1>1. StatsOK(NoStats, 0)
    BY NoStatsOK
<1>2. "idle" \in State /\ "auto" \in Mode
    BY DEF State, Mode
<1>3. TypeOK
    BY <1>2, FreshTypes, ElapsedType, EnvironmentAssumption
    DEF Init, NewController, TypeOK, StatsType
<1>4. SessionBookkeeping
    BY <1>1 DEF Init, NewController, SessionBookkeeping, StatsOK
<1>5. CountersExclusive /\ SnapshotLagsOnlyInError /\ TestModeLeavesCarAlone
    BY DEF Init, NewController, CountersExclusive, SnapshotLagsOnlyInError,
           TestModeLeavesCarAlone
<1>. QED BY <1>3, <1>4, <1>5 DEF IInv

\* Every step, and every step of something else, keeps the invariant.
LEMMA NextInvariant == IInv /\ [Next]_vars => IInv'
<1> SUFFICES ASSUME IInv, [Next]_vars PROVE IInv'
    OBVIOUS
<1>1. CASE UNCHANGED vars
    BY <1>1, SurroundingsKeepInvariant DEF vars, envVars, IInv, TypeOK, CarType
<1>2. CASE \E caller \in {"ticker", "refresh"} : Tick(caller)
    BY <1>2, TickKeepsInvariant
<1>3. CASE ~(\E caller \in {"ticker", "refresh"} : Tick(caller)) /\ Next
    BY <1>3, CommandStepsKeepInvariant, ControlStepsKeepInvariant DEF Next
<1>. QED BY <1>1, <1>2, <1>3

\* Every reachable state is in the inductive invariant.
THEOREM Invariance == Spec => []IInv
BY InitInvariant, NextInvariant, PTL DEF Spec

\* Type correctness, for every configuration.
THEOREM TypeCorrectness == Spec => []TypeOK
<1>1. IInv => TypeOK BY DEF IInv
<1>. QED BY <1>1, Invariance, PTL

\* A session is active only while charging, its row is open, and its samples
\* are its own, through every fault, refresh, crash and restart.
THEOREM SessionsBooked == Spec => []SessionBookkeeping
<1>1. IInv => SessionBookkeeping BY DEF IInv
<1>. QED BY <1>1, Invariance, PTL

\* The dashboard's state differs from the controller's only in error.
THEOREM SnapshotsCurrent == Spec => []SnapshotLagsOnlyInError
<1>1. IInv => SnapshotLagsOnlyInError BY DEF IInv
<1>. QED BY <1>1, Invariance, PTL

\* The two counters never both count.
THEOREM CountersApart == Spec => []CountersExclusive
<1>1. IInv => CountersExclusive BY DEF IInv
<1>. QED BY <1>1, Invariance, PTL

\* A process in test mode never touches the car or the sessions.
THEOREM TestModeHarmless == Spec => []TestModeLeavesCarAlone
<1>1. IInv => TestModeLeavesCarAlone BY DEF IInv
<1>. QED BY <1>1, Invariance, PTL

\* Only a failing store or the end of the process abandons a session row.
THEOREM NoRowAbandoned == Spec => RowsAbandonedOnlyByFaults
<1> DEFINE Kept == alive = "running" /\ healthy =>
                     openRows' \ {activeSessionID'}
                       \subseteq openRows \ {activeSessionID}
<1>1. IInv /\ [Next]_vars => Kept
    <2> SUFFICES ASSUME IInv, [Next]_vars, alive = "running", healthy
                 PROVE  openRows' \ {activeSessionID'}
                          \subseteq openRows \ {activeSessionID}
        OBVIOUS
    <2>1. CASE \E caller \in {"ticker", "refresh"} : Tick(caller)
        BY <2>1, TickKeepsInvariant
    <2>2. CASE ~(\E caller \in {"ticker", "refresh"} : Tick(caller)) /\ Next
        <3>1. UNCHANGED <<activeSessionID, openRows>>
            BY <2>2
            DEF Next, SetMode, ManualSetAmps, ManualStart, ManualStop,
                ManualCommand, SetChargeLimit, ForceRefresh, Shutdown, Crash,
                Restart, Elapse, CarChanges, CarReachability, SunChanges,
                HourChanges, HealthChanges, ctlVars
        <3>. QED BY <3>1
    <2>3. CASE UNCHANGED vars
        BY <2>3 DEF vars, ctlVars
    <2>. QED BY <2>1, <2>2, <2>3
<1>2. Kept => [Kept]_vars
    OBVIOUS
<1>. QED BY <1>1, Invariance, PTL DEF Spec, RowsAbandonedOnlyByFaults

----------------------------------------------------------------------------
(* The remembered current                                                   *)

\* The commands that do not set the current keep it; the one that does sets
\* it to the value asked for, when that is in the configured range.
LEMMA CommandsAmps ==
    ASSUME NEW c \in CarType, NEW a \in Amps, a >= MinChargeAmps, NEW o,
           NEW d \in CarType, d.amps = c.amps
    PROVE  /\ AmpsSet(c, a) = [c EXCEPT !.amps = a]
           /\ Started(c).amps = c.amps /\ Halted(c).amps = c.amps
           /\ Woken(c).amps = c.amps /\ After(o, c, d).amps = c.amps
<1>1. a \in Int /\ MinChargeAmps \in Int /\ MaxChargeAmps \in Int
      /\ ~(a < MinChargeAmps) /\ ~(a > MaxChargeAmps)
    BY ConfigAssumption DEF Amps
<1>2. AmpsSet(c, a) = [c EXCEPT !.amps = a]
    BY <1>1 DEF AmpsSet
<1>. QED BY <1>2 DEF CarType, Started, Halted, Woken, After

\* With a healthy connection a command is carried out or, if the car sleeps,
\* fails without a trace.
LEMMA HealthyOutcomes ==
    ASSUME healthy, NEW o \in CommandOutcomes
    PROVE  CommandOutcomes \in {{"ok"}, {"failed"}}
BY DEF CommandOutcomes

\* The decisions of step 6.
LEMMA DecisionsKeepStep ==
    ASSUME IInv, AmpsInStep, healthy, Decide PROVE AmpsInStep'
<1>1. car \in CarType /\ available \in Amps /\ lastChargeAmps \in Amps
    BY ChargeStateType, AvailableType DEF IInv, TypeOK, CarType, available
<1>2. CASE UNCHANGED <<lastChargeAmps, car>>
    BY <1>2 DEF AmpsInStep
<1>3. CASE WakeUp
    <2>1. PICK o : car' = After(o, car, Woken(car)) BY <1>3 DEF WakeUp
    <2>2. car'.amps = car.amps BY <1>1, <2>1 DEF After, Woken, CarType
    <2>3. lastChargeAmps' = lastChargeAmps BY <1>3 DEF WakeUp
    <2>. QED BY <2>2, <2>3 DEF AmpsInStep
<1>4. CASE StopCharging
    <2>1. PICK o : car' = After(o, car, Halted(car)) BY <1>4 DEF StopCharging
    <2>2. car'.amps = car.amps BY <1>1, <2>1 DEF After, Halted, CarType
    <2>3. lastChargeAmps' \in {lastChargeAmps, 0} BY <1>4 DEF StopCharging
    <2>. QED BY <2>2, <2>3 DEF AmpsInStep
<1>5. ASSUME SurplusTick PROVE AmpsSet(car, available) = [car EXCEPT !.amps = available]
    BY <1>1, <1>5, CommandsAmps DEF SurplusTick
<1>6. CASE AdjustAmps
    <2>1. PICK o \in CommandOutcomes :
              /\ car' = After(o, car, AmpsSet(car, available))
              /\ lastChargeAmps' = IF Errs(o) THEN lastChargeAmps ELSE available
        BY <1>6 DEF AdjustAmps
    <2>2. AmpsSet(car, available) = [car EXCEPT !.amps = available]
        BY <1>5, <1>6 DEF AdjustAmps
    <2>3. o \in {"ok", "failed"} BY HealthyOutcomes
    <2>4. CASE o = "ok"
        <3>1. car' = [car EXCEPT !.amps = available] /\ lastChargeAmps' = available
            BY <2>1, <2>2, <2>4 DEF After, Errs
        <3>. QED BY <1>1, <3>1 DEF AmpsInStep, CarType
    <2>5. CASE o = "failed"
        BY <2>1, <2>5 DEF After, Errs, AmpsInStep
    <2>. QED BY <2>3, <2>4, <2>5
<1>7. CASE StartCharging
    <2>1. PICK amps \in CommandOutcomes, start \in CommandOutcomes :
            LET ampsSet == After(amps, car, AmpsSet(car, available))
            IN  \/ /\ Errs(amps)
                   /\ car' = ampsSet
                   /\ UNCHANGED lastChargeAmps
                \/ /\ ~Errs(amps) /\ Errs(start)
                \/ /\ ~Errs(amps) /\ ~Errs(start)
                   /\ car' = After(start, ampsSet, Started(ampsSet))
                   /\ lastChargeAmps' = available
        BY <1>7 DEF StartCharging
    <2>2. AmpsSet(car, available) = [car EXCEPT !.amps = available]
        BY <1>5, <1>7 DEF StartCharging
    <2>3. amps = start /\ amps \in {"ok", "failed"} BY HealthyOutcomes
    <2>4. CASE amps = "ok"
        <3> DEFINE c == [car EXCEPT !.amps = available]
        <3>1. car' = Started(c) /\ lastChargeAmps' = available
            BY <2>1, <2>2, <2>3, <2>4 DEF After, Errs
        <3>2. c \in CarType /\ c.amps = available
            BY <1>1 DEF CarType
        <3>3. Started(c).amps = c.amps
            BY <3>2 DEF Started, CarType
        <3>. QED BY <3>1, <3>2, <3>3 DEF AmpsInStep
    <2>5. CASE amps = "failed"
        BY <2>1, <2>3, <2>5 DEF After, Errs, AmpsInStep
    <2>. QED BY <2>3, <2>4, <2>5
<1>. QED
    BY <1>2, <1>3, <1>4, <1>6, <1>7
    DEF Decide, WaitToWake, HoldStart, KeepCharging, RideOutLow

\* Only failures and currents set by hand part the two currents: clamping in
\* SetChargingAmps never changes the value the loop asks for.
THEOREM AmpsKeepInStep == Spec => AmpsStayInStep
<1> DEFINE Kept == /\ AmpsInStep /\ healthy
                   /\ ~\E amps \in Amps : ManualSetAmps(amps)
                   => AmpsInStep'
<1>1. IInv /\ [Next]_vars => Kept
    <2> SUFFICES ASSUME IInv, [Next]_vars, AmpsInStep, healthy,
                        ~\E amps \in Amps : ManualSetAmps(amps)
                 PROVE  AmpsInStep'
        OBVIOUS
    <2>0. car \in CarType
        BY DEF IInv, TypeOK, CarType
    <2>1. CASE \E caller \in {"ticker", "refresh"} : Tick(caller)
        <3>1. TickSteps BY <2>1 DEF Tick
        <3>2. CASE Decide BY <3>2, DecisionsKeepStep
        <3>3. CASE ~Decide
            BY <3>1, <3>3
            DEF TickSteps, InverterFails, TestModeTick, TeslaReadFails, IdleTick,
                ManualTick, envVars, AmpsInStep
        <3>. QED BY <3>2, <3>3
    <2>2. CASE ManualStart \/ ManualStop \/ SetChargeLimit \/ Shutdown
        <3>1. PICK o, d : /\ d.amps = car.amps
                          /\ car' = After(o, car, d) \/ car' = car
            BY <2>0, <2>2
            DEF ManualStart, ManualStop, ManualCommand, SetChargeLimit, Shutdown,
                Started, Halted, CarType
        <3>2. car'.amps = car.amps BY <3>1 DEF After
        <3>3. lastChargeAmps' = lastChargeAmps
            BY <2>2 DEF ManualStart, ManualStop, ManualCommand, SetChargeLimit,
                        Shutdown, ctlVars
        <3>. QED BY <3>2, <3>3 DEF AmpsInStep
    <2>3. CASE CarChanges \/ CarReachability
        <3>1. car'.amps = car.amps /\ lastChargeAmps' = lastChargeAmps
            BY <2>0, <2>3 DEF CarChanges, CarReachability, ctlVars, CarType
        <3>. QED BY <3>1 DEF AmpsInStep
    <2>4. CASE Restart
        BY <2>4 DEF Restart, AmpsInStep
    <2>5. CASE \/ \E m \in Mode : SetMode(m)
               \/ ForceRefresh \/ Crash \/ Elapse \/ SunChanges \/ HourChanges
               \/ HealthChanges \/ UNCHANGED vars
        BY <2>5
        DEF SetMode, ForceRefresh, Crash, Elapse, SunChanges, HourChanges,
            HealthChanges, vars, ctlVars, envVars, AmpsInStep
    <2>. QED BY <2>1, <2>2, <2>3, <2>4, <2>5 DEF Next
<1>2. Kept => [Kept]_vars
    OBVIOUS
<1>. QED BY <1>1, Invariance, PTL DEF Spec, AmpsStayInStep

----------------------------------------------------------------------------
(* Decisions on fresh readings                                              *)

\* \div rounds down.
LEMMA FloorBound ==
    ASSUME NEW w \in Int, NEW v \in Nat \ {0}
    PROVE  (w \div v) \in Int /\ (w \div v) * v <= w
OBVIOUS

\* Fewer amps, less power.
LEMMA FewerAmps ==
    ASSUME NEW a \in Int, NEW b \in Int, NEW v \in Nat, a <= b
    PROVE  a * v <= b * v
<1>1. b * v = a * v + (b - a) * v /\ (b - a) * v \in Nat /\ a * v \in Int
    OBVIOUS
<1>. QED BY <1>1

\* Amps computed from a fresh reading are worth no more than the sun gives:
\* the car's own draw, which the grid balance contains, cancels out.
LEMMA FreshAmps ==
    ASSUME IInv, chargeState = FleetReading, chargeState.IsOnline,
           available >= MinChargeAmps
    PROVE  available * LineVoltage <= solar
<1> USE ConfigAssumption
<1>1. /\ LineVoltage \in Nat \ {0} /\ solar \in Int /\ Draw \in Nat
      /\ available \in Amps /\ MinChargeAmps \in Nat \ {0} /\ MaxChargeAmps \in Nat
    BY EnvironmentAssumption, ChargeStateType, AvailableType
    DEF IInv, TypeOK, Draw, Amps, available
<1>2. /\ chargeState.State = car.state /\ chargeState.AmpsActual = Draw
    BY DEF FleetReading, NoChargeState
<1>3. available \in Nat /\ available >= 1
    BY <1>1 DEF Amps
<1>4. Draw * LineVoltage \in Int /\ gridWatts = Draw * LineVoltage - solar
    BY <1>1 DEF gridWatts
<1>5. -gridWatts = solar - Draw * LineVoltage /\ -gridWatts \in Int
    BY <1>1, <1>4
<1>6. CASE car.state = "Charging"
    <2> DEFINE q == (-gridWatts) \div LineVoltage
    <2>1. q \in Int /\ q * LineVoltage <= -gridWatts
        BY <1>1, <1>5, FloorBound
    <2>2. available = IF q + Draw < 0 THEN 0
                      ELSE IF q + Draw > MaxChargeAmps THEN MaxChargeAmps
                      ELSE q + Draw
        BY <1>2, <1>6 DEF available, calculateAvailableAmps
    <2> HIDE DEF q
    <2>3. available <= q + Draw
        BY <1>1, <1>3, <2>1, <2>2
    <2>4. available * LineVoltage <= (q + Draw) * LineVoltage
        BY <1>1, <1>3, <2>1, <2>3, FewerAmps
    <2>5. (q + Draw) * LineVoltage = q * LineVoltage + Draw * LineVoltage
          /\ q * LineVoltage \in Int
        BY <1>1, <2>1
    <2>6. available * LineVoltage \in Int
        BY <1>1, <1>3
    <2>. QED BY <1>1, <1>4, <1>5, <2>1, <2>4, <2>5, <2>6
<1>7. CASE car.state # "Charging"
    <2>1. Draw = 0
        BY <1>7 DEF Draw
    <2>2. surplusWatts = Later(0, solar)
        BY <1>1, <1>5, <2>1 DEF surplusWatts
    <2>3. surplusWatts \in Int /\ (surplusWatts = solar \/ surplusWatts = 0)
        BY <1>1, <2>2 DEF Later
    <2> DEFINE q == surplusWatts \div LineVoltage
    <2>4. q \in Int /\ q * LineVoltage <= surplusWatts
        BY <1>1, <2>3, FloorBound
    <2>5. available = IF q < 0 THEN 0
                      ELSE IF q > MaxChargeAmps THEN MaxChargeAmps ELSE q
        BY <1>2, <1>7 DEF available, calculateAvailableAmps
    <2> HIDE DEF q
    <2>6. available <= q
        BY <1>1, <1>3, <2>4, <2>5
    <2>7. available * LineVoltage <= q * LineVoltage
        BY <1>1, <1>3, <2>4, <2>6, FewerAmps
    <2>8. /\ q * LineVoltage \in Int /\ available * LineVoltage \in Int
          /\ available * LineVoltage > 0
        BY <1>1, <1>3, <2>4
    <2>9. surplusWatts = solar
        BY <2>3, <2>4, <2>7, <2>8
    <2>. QED BY <2>3, <2>4, <2>7, <2>8, <2>9
<1>. QED BY <1>6, <1>7

\* Started on a fresh reading, or set to follow the sun on one, a charge
\* imports nothing: for every voltage, range of currents and sun.
THEOREM FreshDecisions == Spec => FreshDecisionsNeverImport
<1> DEFINE Kept == /\ healthy
                   /\ chargeState = FleetReading
                   /\ StartCharging \/ AdjustAmps
                   => car'.amps * LineVoltage <= solar
<1>1. IInv /\ [Next]_vars => Kept
    <2> SUFFICES ASSUME IInv, healthy, chargeState = FleetReading,
                        StartCharging \/ AdjustAmps
                 PROVE  car'.amps * LineVoltage <= solar
        OBVIOUS
    <2>1. SurplusTick
        BY DEF StartCharging, AdjustAmps
    <2>2. chargeState.IsOnline /\ car.online
        BY DEF StartCharging, AdjustAmps, FleetReading, NoChargeState
    <2>3. CommandOutcomes = {"ok"}
        BY <2>2 DEF CommandOutcomes
    <2>4. car \in CarType /\ available \in Amps /\ available >= MinChargeAmps
        BY <2>1, ChargeStateType, AvailableType
        DEF IInv, TypeOK, CarType, available, SurplusTick
    <2> DEFINE c == [car EXCEPT !.amps = available]
    <2>5. AmpsSet(car, available) = c /\ c \in CarType /\ c.amps = available
        BY <2>4, CommandsAmps DEF CarType
    <2>6. car'.amps = available
        <3>1. CASE AdjustAmps
            BY <2>3, <2>5, <3>1 DEF AdjustAmps, After
        <3>2. CASE StartCharging
            <4>1. car' = Started(c)
                BY <2>3, <2>5, <3>2 DEF StartCharging, After, Errs
            <4>. QED BY <2>5, <4>1 DEF Started, CarType
        <3>. QED BY <3>1, <3>2
    <2>. QED BY <2>2, <2>4, <2>6, FreshAmps
<1>2. Kept => [Kept]_vars
    OBVIOUS
<1>. QED BY <1>1, Invariance, PTL DEF Spec, FreshDecisionsNeverImport

----------------------------------------------------------------------------
(* The log of charge sessions                                               *)

LogStep == Log!Next \/ UNCHANGED Log!vars

\* A transition begins or ends a charge, books a sample, or changes nothing of
\* the log.
LEMMA TransitionLogs ==
    ASSUME IInv, alive = "running", NEW s, NEW st,
           \/ st = sessionStats
           \/ activeSessionID # 0 /\ st.total \in Nat /\ st.total > sessionStats.total,
           transitionTo(s, st), UNCHANGED <<alive, healthy>>
    PROVE  LogStep
<1>1. activeSessionID # 0 => state = "charging"
    BY DEF IInv, SessionBookkeeping
<1>2. CASE s = "charging" /\ state # "charging"
    <2>1. StartSession /\ state' = "charging"
        BY <1>2 DEF transitionTo
    <2>2. activeSessionID = 0
        BY <1>1, <1>2
    <2>3. sessionStats'.total = 0
        BY <2>1 DEF StartSession, NoStats
    <2>4. Log!Begin
        BY <1>2, <2>1, <2>2, <2>3 DEF Log!Begin, StartSession
    <2>. QED BY <2>4 DEF LogStep, Log!Next
<1>3. CASE s # "charging" /\ state = "charging"
    <2>1. CASE activeSessionID # 0
        <3>1. EndSession /\ state' # "charging"
            BY <1>3, <2>1 DEF transitionTo
        <3>2. sessionStats'.total = 0
            BY <3>1 DEF EndSession, NoStats
        <3>3. Log!End
            BY <1>3, <3>1, <3>2 DEF Log!End, EndSession
        <3>. QED BY <3>3 DEF LogStep, Log!Next
    <2>2. CASE activeSessionID = 0
        <3>1. /\ state' # "charging" /\ sessionStats' = sessionStats
              /\ UNCHANGED <<activeSessionID, openRows>>
            BY <1>3, <2>2 DEF transitionTo
        <3>2. sessionStats.total = 0
            BY <2>2 DEF IInv, SessionBookkeeping, NoStats
        <3>3. openRows \ {activeSessionID} = openRows
            BY <2>2, EnvironmentAssumption DEF IInv, TypeOK
        <3>4. Log!End
            BY <1>3, <2>2, <3>1, <3>2, <3>3 DEF Log!End
        <3>. QED BY <3>4 DEF LogStep, Log!Next
    <2>. QED BY <2>1, <2>2
<1>4. CASE (s = "charging") = (state = "charging")
    <2>1. /\ state' = s /\ sessionStats' = st
          /\ UNCHANGED <<activeSessionID, openRows>>
        BY <1>1, <1>4 DEF transitionTo
    <2>2. CASE st = sessionStats
        BY <1>4, <2>1, <2>2 DEF LogStep, Log!vars, Log!logVars
    <2>3. CASE activeSessionID # 0 /\ st.total \in Nat /\ st.total > sessionStats.total
        <3>1. Log!Book
            BY <1>1, <1>4, <2>1, <2>3 DEF Log!Book
        <3>. QED BY <3>1 DEF LogStep, Log!Next
    <2>. QED BY <2>2, <2>3
<1>. QED BY <1>2, <1>3, <1>4

\* A sample adds to the total of the active session.
LEMMA SampleBooks ==
    ASSUME IInv
    PROVE  LET st == recordSessionSample(chargeState)
           IN  \/ st = sessionStats
               \/ activeSessionID # 0 /\ st.total \in Nat
                  /\ st.total > sessionStats.total
<1> DEFINE r == recordSessionSample(chargeState)
<1>1. chargeState.AmpsActual \in Amps
    BY ChargeStateType DEF IInv, ChargeState
<1>2. chargeState.AmpsActual \in Nat /\ sessionStats.total \in Nat
    BY <1>1, ConfigAssumption DEF Amps, IInv, TypeOK
<1>3. CASE r # sessionStats
    <2>1. /\ chargeState.AmpsActual > 0 /\ activeSessionID # 0
          /\ r = [samples |-> sessionStats.samples + 1,
                  peak    |-> Later(sessionStats.peak, chargeState.AmpsActual),
                  total   |-> sessionStats.total + chargeState.AmpsActual]
        BY <1>2, <1>3 DEF recordSessionSample
    <2>2. r.total = sessionStats.total + chargeState.AmpsActual
        BY <2>1
    <2>. QED BY <1>2, <2>1, <2>2
<1>. QED BY <1>3

\* Every tick is a step of the log.
LEMMA TicksLog ==
    ASSUME IInv, NEW caller \in {"ticker", "refresh"}, Tick(caller)
    PROVE  LogStep
<1>1. alive = "running" /\ TickSteps
    BY DEF Tick
<1>2. UNCHANGED <<alive, healthy>>
    BY <1>1, EarlyTicks, DecideOK DEF TickSteps, TickOK
<1>3. CASE InverterFails \/ TestModeTick \/ TeslaReadFails
    <2>1. \E s : transitionTo(s, sessionStats)
        BY <1>3 DEF InverterFails, TestModeTick, TeslaReadFails
    <2>. QED BY <1>1, <1>2, <2>1, TransitionLogs
<1>4. CASE IdleTick \/ ManualTick \/ Decide
    <2>1. \E s, ages : Settle(s, ages)
        BY <1>4
        DEF IdleTick, ManualTick, Decide, WaitToWake, WakeUp, HoldStart,
            StartCharging, KeepCharging, AdjustAmps, StopCharging, RideOutLow
    <2>2. \E s : transitionTo(s, recordSessionSample(chargeState))
        BY <2>1 DEF Settle
    <2>. QED BY <1>1, <1>2, <2>2, SampleBooks, TransitionLogs
<1>. QED BY <1>1, <1>3, <1>4 DEF TickSteps

\* The controller implements the log of charge sessions: the initial states
\* are the log's, and every step is one of the log's or leaves it alone.
THEOREM ControllerKeepsLog == Spec => KeepsChargeLog
<1>1. Init => Log!Init
    BY DEF Init, NewController, NoStats, Log!Init
<1>2. IInv /\ [Next]_vars => [Log!Next]_(Log!vars)
    <2> SUFFICES ASSUME IInv, [Next]_vars PROVE LogStep
        BY DEF LogStep
    <2>1. CASE \E caller \in {"ticker", "refresh"} : Tick(caller)
        BY <2>1, TicksLog
    <2>2. CASE Shutdown \/ Crash
        <3>1. Log!Stop
            BY <2>2 DEF Shutdown, Crash, ctlVars, envVars, Log!Stop, Log!logVars
        <3>. QED BY <3>1 DEF LogStep, Log!Next
    <2>3. CASE Restart
        <3>1. Log!Start
            BY <2>3 DEF Restart, envVars, NoStats, Log!Start
        <3>. QED BY <3>1 DEF LogStep, Log!Next
    <2>4. CASE HealthChanges
        <3>1. Log!StoreChanges
            BY <2>4 DEF HealthChanges, ctlVars, Log!StoreChanges, Log!logVars
        <3>. QED BY <3>1 DEF LogStep, Log!Next
    <2>5. CASE ForceRefresh
        <3>1. (state' = "charging") = (state = "charging")
            BY <2>5 DEF ForceRefresh
        <3>. QED BY <2>5, <3>1
             DEF ForceRefresh, envVars, LogStep, Log!vars, Log!logVars
    <2>6. CASE \/ \E m \in Mode : SetMode(m)
               \/ \E amps \in Amps : ManualSetAmps(amps)
               \/ ManualStart \/ ManualStop \/ SetChargeLimit \/ Elapse
               \/ CarChanges \/ CarReachability \/ SunChanges \/ HourChanges
               \/ UNCHANGED vars
        BY <2>6
        DEF SetMode, ManualSetAmps, ManualStart, ManualStop, ManualCommand,
            SetChargeLimit, Elapse, CarChanges, CarReachability, SunChanges,
            HourChanges, vars, ctlVars, envVars, LogStep, Log!vars, Log!logVars
    <2>. QED BY <2>1, <2>2, <2>3, <2>4, <2>5, <2>6 DEF Next
<1>. QED BY <1>1, <1>2, Invariance, PTL DEF Spec, KeepsChargeLog, Log!Spec
=============================================================================
