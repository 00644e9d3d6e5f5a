---------------------------- MODULE Controller ----------------------------
(***************************************************************************)
(* The control loop of internal/controller/controller.go: every poll       *)
(* interval a tick reads the inverter, reads the car (or its cached        *)
(* state), and decides whether to wake the car, start or stop a charge, or *)
(* change the charging current.  Operators of the dashboard switch the     *)
(* mode, send manual commands and force a refresh.                         *)
(*                                                                         *)
(* A tick is one action here.  ForceRefresh runs a tick of its own: it     *)
(* clears the caches, releases the lock and then calls Tick, so the model  *)
(* lets anything happen between the two.                                   *)
(*                                                                         *)
(* Time.  One Elapse is one poll interval.  The code keeps the time of     *)
(* each event and compares its age with a configured interval; the model   *)
(* keeps the age, which stops growing where no comparison can tell it from *)
(* a larger one.  A zero time.Time ("never") is such an age: each IsZero   *)
(* test of the code lets the operation through, as an elapsed interval     *)
(* does.                                                                   *)
(*                                                                         *)
(* The car and the sun are external: the controller sees of the car only   *)
(* what it polled last, and of the sun the grid balance, which contains    *)
(* the car's own draw.                                                     *)
(***************************************************************************)
EXTENDS Integers

CONSTANTS
    \* Config: thresholds, in amps, volts and ticks
    MinChargeAmps, MaxChargeAmps, LineVoltage, DeadbandPolls,
    WakeThresholdPolls, WakeMinAmpsMargin, AmpsChangeThreshold,
    \* Config: intervals, in poll intervals
    WakeRetryInterval, PluggedInStaleAfter, WakeAfterNonActionableBackoff,
    ChargeStartRetry, CommandFailureBackoff, TeslaChargingPollInterval,
    TeslaIdlePollInterval, AmpsAdjustInterval,
    \* The surroundings
    TestModes,         \* values TESLA_TEST_MODE may have at a start
    SolarWatts,        \* exports of the house, the car's draw not counted
    CarStates,         \* charging states the vehicle reports
    Disturbances,      \* what the surroundings may do in a run
    SessionIDs,        \* bound: rows of charge_sessions open at once
    MaxSessionSamples  \* bound: samples a session sums up

ASSUME ConfigAssumption ==
    /\ MinChargeAmps \in Nat \ {0} /\ MaxChargeAmps \in Nat
    /\ MinChargeAmps <= MaxChargeAmps
    /\ LineVoltage \in Nat \ {0}
    /\ DeadbandPolls \in Nat \ {0} /\ WakeThresholdPolls \in Nat \ {0}
    /\ WakeMinAmpsMargin \in Nat /\ AmpsChangeThreshold \in Nat
    /\ WakeRetryInterval \in Nat \ {0} /\ PluggedInStaleAfter \in Nat \ {0}
    /\ WakeAfterNonActionableBackoff \in Nat /\ AmpsAdjustInterval \in Nat
    /\ ChargeStartRetry \in Nat \ {0} /\ CommandFailureBackoff \in Nat \ {0}
    /\ TeslaChargingPollInterval \in Nat \ {0}
    /\ TeslaIdlePollInterval \in Nat \ {0}

ASSUME EnvironmentAssumption ==
    /\ TestModes \subseteq BOOLEAN
    /\ SolarWatts \subseteq Int
    /\ {"Disconnected", "Stopped", "Charging"} \subseteq CarStates
    /\ CarStates \subseteq {"Disconnected", "Stopped", "Charging", "Complete",
                            "NoPower", "Starting"}
    /\ SessionIDs \subseteq Nat \ {0}
    /\ MaxSessionSamples \in Nat

VARIABLES
    TeslaTestMode,            \* cfg.TeslaTestMode, read when the process starts
    state, mode,              \* Controller.state, Controller.mode
    consecutiveLow, consecutiveSurplus,
    lastChargeAmps, lastKnownPluggedIn,
    hasCachedState, cachedChargeState,
    since,                    \* age of each remembered event
    activeSessionID,          \* 0: none
    sessionStats,             \* peak, total and number of the samples
    snapshot,                 \* what the dashboard reads
    unsaved,                  \* samples are accumulated and not yet written
    due,                      \* pending calls of Tick
    alive,                    \* the process
    openRows,                 \* rows of charge_sessions with no end_time
    car, solar, wakeWindow,   \* external: vehicle, net export, hour of day
    healthy                   \* external: no request is failing

ctlVars == <<TeslaTestMode, state, mode, consecutiveLow, consecutiveSurplus, lastChargeAmps,
             lastKnownPluggedIn, hasCachedState, cachedChargeState, since,
             activeSessionID, sessionStats, snapshot, unsaved>>
envVars == <<car, solar, wakeWindow, healthy>>
vars == <<ctlVars, due, alive, openRows, envVars>>

State == {"idle", "monitoring", "charging", "stopped_low_surplus",
          "wake_pending", "error"}
Mode == {"auto", "manual"}

----------------------------------------------------------------------------
(* Ages of the remembered events                                            *)

Timer == {"lastTeslaPoll", "lastOnlineAt", "lastNonActionableAt",
          "lastWakeAttempt", "lastChargeStartAttempt", "lastCommandFailure",
          "lastAmpsAdjustAt"}

Later(a, b) == IF a > b THEN a ELSE b

\* The age from which a timer no longer changes any comparison.
Elapsed == [t \in Timer |->
    CASE t = "lastTeslaPoll" ->
            Later(Later(TeslaChargingPollInterval, TeslaIdlePollInterval),
                  Later(WakeRetryInterval, CommandFailureBackoff))
      [] t = "lastOnlineAt"           -> PluggedInStaleAfter + 1
      [] t = "lastNonActionableAt"    -> WakeAfterNonActionableBackoff
      [] t = "lastWakeAttempt"        -> WakeRetryInterval
      [] t = "lastChargeStartAttempt" -> ChargeStartRetry
      [] t = "lastCommandFailure"     -> CommandFailureBackoff
      [] t = "lastAmpsAdjustAt"       -> AmpsAdjustInterval]

\* The timers T take the current time; the others keep theirs.
Stamp(ages, T) == [t \in Timer |-> IF t \in T THEN 0 ELSE ages[t]]

\* The timers T are set to the zero time.
Forget(ages, T) == [t \in Timer |-> IF t \in T THEN Elapsed[t] ELSE ages[t]]

\* A counter that the code only compares with a threshold.
Bump(n, threshold) == IF n < threshold THEN n + 1 ELSE n

----------------------------------------------------------------------------
(* The car and its Fleet API, external                                      *)

Amps == 0 .. MaxChargeAmps
ChargeState == [IsOnline : BOOLEAN, PluggedIn : BOOLEAN,
                State : CarStates \union {""}, AmpsActual : Amps]

\* tesla.ChargeState{}, which is also what an unreachable car is taken for.
NoChargeState ==
    [IsOnline |-> FALSE, PluggedIn |-> FALSE, State |-> "", AmpsActual |-> 0]

Draw == IF car.state = "Charging" THEN car.amps ELSE 0

\* GetChargeState; a sleeping car answers 408, which becomes ErrCarOffline.
\* External: a car that answers is online, its latch is engaged while it is not
\* disconnected, and what it reports to draw is what it draws.
FleetReading ==
    IF car.online
    THEN [IsOnline |-> TRUE, PluggedIn |-> car.state # "Disconnected",
          State |-> car.state, AmpsActual |-> Draw]
    ELSE NoChargeState

\* How a command may end.  "lost": carried out, but the answer was an error.
\* "ignored": answered with status 200 and carried out by nobody (the client
\* does not read the result in the body).
CommandOutcomes ==
    CASE ~car.online -> {"failed"}
      [] car.online /\ healthy -> {"ok"}
      [] OTHER -> {"ok", "failed", "lost", "ignored"}
Errs(o) == o \in {"failed", "lost"}
After(o, old, new) == IF o \in {"ok", "lost"} THEN new ELSE old

\* SetChargingAmps clamps to the configured range.
AmpsSet(c, amps) ==
    [c EXCEPT !.amps = IF amps < MinChargeAmps THEN MinChargeAmps
                       ELSE IF amps > MaxChargeAmps THEN MaxChargeAmps
                       ELSE amps]
Started(c) ==
    [c EXCEPT !.state = IF @ \in {"Stopped", "NoPower"} THEN "Charging" ELSE @]
Halted(c) ==
    [c EXCEPT !.state = IF @ \in {"Charging", "Starting"} THEN "Stopped" ELSE @]
Woken(c) == [c EXCEPT !.online = TRUE]

----------------------------------------------------------------------------
(* Sensing                                                                  *)

\* Positive when importing; the car's draw is part of the house's load.
gridWatts == Draw * LineVoltage - solar
surplusWatts == Later(0, -gridWatts)

\* Mutant: the conversion rounds toward zero instead of down.
calculateAvailableAmpsTruncated(cs) ==
    LET net  == -gridWatts
        whole == IF net >= 0 THEN net \div LineVoltage
                 ELSE -((-net) \div LineVoltage)
        amps == IF cs.State = "Charging" THEN whole + cs.AmpsActual
                ELSE surplusWatts \div LineVoltage
    IN  IF amps < 0 THEN 0
        ELSE IF amps > MaxChargeAmps THEN MaxChargeAmps ELSE amps

\* Mutant: the result is not limited to MaxChargeAmps.
calculateAvailableAmpsUnclamped(cs) ==
    Later(0, IF cs.State = "Charging"
             THEN ((-gridWatts) \div LineVoltage) + cs.AmpsActual
             ELSE surplusWatts \div LineVoltage)

calculateAvailableAmps(cs) ==
    LET amps == IF cs.State = "Charging"
                THEN ((-gridWatts) \div LineVoltage) + cs.AmpsActual
                ELSE surplusWatts \div LineVoltage
    IN  IF amps < 0 THEN 0
        ELSE IF amps > MaxChargeAmps THEN MaxChargeAmps ELSE amps

\* Mutant: the error state is never cleared by itself.
neverClearError == state

\* The state a tick works with: maybeClearError comes before the poll.
maybeClearError ==
    IF state = "error" /\ since["lastCommandFailure"] >= CommandFailureBackoff
    THEN "monitoring" ELSE state

\* Mutant: while neither charging, waking nor in error the cache is trusted.
shouldPollTeslaNotWhenIdle ==
    \/ ~hasCachedState
    \/ /\ maybeClearError \in {"charging", "wake_pending", "error"}
       /\ since["lastTeslaPoll"] >=
            CASE maybeClearError = "charging"     -> TeslaChargingPollInterval
              [] maybeClearError = "wake_pending" -> WakeRetryInterval
              [] OTHER                            -> CommandFailureBackoff

shouldPollTesla ==
    \/ ~hasCachedState
    \/ since["lastTeslaPoll"] >=
         CASE maybeClearError = "charging"     -> TeslaChargingPollInterval
           [] maybeClearError = "wake_pending" -> WakeRetryInterval
           [] maybeClearError = "error"        -> CommandFailureBackoff
           [] OTHER                            -> TeslaIdlePollInterval

\* What the tick takes for the state of the car.
chargeState == IF shouldPollTesla THEN FleetReading ELSE cachedChargeState

available == calculateAvailableAmps(chargeState)

\* Mutant: a stopped charge is not resumed.
isActionableWithoutStopped(s) == s \in {"NoPower", ""}

isActionableNonChargingState(s) == s \in {"Stopped", "NoPower", ""}

canAttemptChargeStart ==
    /\ since["lastChargeStartAttempt"] >= ChargeStartRetry
    /\ since["lastCommandFailure"] >= CommandFailureBackoff

canAdjustChargingAmps == since["lastAmpsAdjustAt"] >= AmpsAdjustInterval

\* Mutant: no limit on the age of the plug state.
shouldAttemptWakeEverStale ==
    /\ lastKnownPluggedIn
    /\ since["lastNonActionableAt"] >= WakeAfterNonActionableBackoff
    /\ wakeWindow

shouldAttemptWake ==
    /\ lastKnownPluggedIn
    /\ since["lastOnlineAt"] <= PluggedInStaleAfter
    /\ since["lastNonActionableAt"] >= WakeAfterNonActionableBackoff
    /\ wakeWindow

\* The ages after setCachedChargeState and updateKnownPlugState.
sinceSeen ==
    LET polled == IF shouldPollTesla THEN Stamp(since, {"lastTeslaPoll"})
                  ELSE since
        cs == chargeState
    IN  IF ~cs.IsOnline THEN polled
        ELSE IF ~cs.PluggedIn \/ cs.State \in {"Disconnected", "Complete"}
        THEN Stamp(polled, {"lastOnlineAt", "lastNonActionableAt"})
        ELSE Forget(Stamp(polled, {"lastOnlineAt"}), {"lastNonActionableAt"})

----------------------------------------------------------------------------
(* Charge sessions                                                          *)

\* The session's energy is AmpsActual * LineVoltage * PollInterval summed
\* over the samples: a multiple of total.
NoStats == [samples |-> 0, peak |-> 0, total |-> 0]

recordSessionSample(cs) ==
    IF \/ cs.State # "Charging" \/ cs.AmpsActual <= 0 \/ activeSessionID = 0
       \/ sessionStats.samples = MaxSessionSamples
    THEN sessionStats
    ELSE [samples |-> sessionStats.samples + 1,
          peak    |-> Later(sessionStats.peak, cs.AmpsActual),
          total   |-> sessionStats.total + cs.AmpsActual]

\* Entering charging opens a row, unless the store fails.
StartSession ==
    /\ sessionStats' = NoStats
    /\ \/ \E id \in SessionIDs \ openRows :
             /\ activeSessionID' = id
             /\ openRows' = openRows \union {id}
       \/ /\ ~healthy \/ SessionIDs \subseteq openRows
          /\ UNCHANGED <<activeSessionID, openRows>>

\* Mutant: the statistics survive into the next session.
EndSessionKeepsStats ==
    /\ activeSessionID' = 0
    /\ UNCHANGED sessionStats
    /\ \/ openRows' = openRows \ {activeSessionID}
       \/ ~healthy /\ UNCHANGED openRows

\* Leaving charging closes the row; the id is dropped even if that fails.
EndSession ==
    /\ activeSessionID' = 0
    /\ sessionStats' = NoStats
    /\ \/ openRows' = openRows \ {activeSessionID}
       \/ ~healthy /\ UNCHANGED openRows

\* Mutant: a charge that goes on after an error is not booked.
transitionToNotFromError(newState, stats) ==
    /\ state' = newState
    /\ CASE newState = "charging" /\ state \notin {"charging", "error"}
              -> StartSession
         [] newState # "charging" /\ state = "charging" /\ activeSessionID # 0
              -> EndSession
         [] OTHER -> /\ sessionStats' = stats
                     /\ UNCHANGED <<activeSessionID, openRows>>

\* transitionTo(newState), with the statistics as they stand when it is
\* called.  A tick that transitions twice (error to monitoring first, or
\* wake_pending and then error) has the effect of its last transition:
\* neither passes through charging.
transitionTo(newState, stats) ==
    /\ state' = newState
    /\ CASE newState = "charging" /\ state # "charging" -> StartSession
         [] newState # "charging" /\ state = "charging" /\ activeSessionID # 0
              -> EndSession
         [] OTHER -> /\ sessionStats' = stats
                     /\ UNCHANGED <<activeSessionID, openRows>>

----------------------------------------------------------------------------
(* The end of a tick: updateSnapshot, accumulateSample and OnUpdate         *)

\* Mutant: the snapshot is taken before the transition.
PublishTooEarly(newState) ==
    /\ snapshot' = [State |-> state, Mode |-> mode, LastError |-> FALSE]
    /\ unsaved' = TRUE

Publish(newState) ==
    /\ snapshot' = [State |-> newState, Mode |-> mode, LastError |-> FALSE]
    /\ unsaved' = TRUE

\* Steps shared by the ticks that have read the car.
SeeCar ==
    /\ cachedChargeState' = chargeState
    /\ hasCachedState' = TRUE
    /\ lastKnownPluggedIn' = IF chargeState.IsOnline THEN chargeState.PluggedIn
                             ELSE lastKnownPluggedIn

\* A tick that has read the car and ends in newState.
Settle(newState, ages) ==
    /\ SeeCar
    /\ since' = ages
    /\ transitionTo(newState, recordSessionSample(chargeState))
    /\ Publish(newState)
    /\ UNCHANGED <<TeslaTestMode, mode, alive, solar, wakeWindow, healthy>>

resetCounters == consecutiveLow' = 0 /\ consecutiveSurplus' = 0

\* The preconditions of step 3: the tick goes no further.
NotChargeable ==
    \/ chargeState.IsOnline /\ ~chargeState.PluggedIn
    \/ ~chargeState.IsOnline /\ ~shouldAttemptWake

InverterFails ==
    /\ ~healthy
    /\ transitionTo("error", sessionStats)
    /\ snapshot' = [snapshot EXCEPT !.State = "error", !.LastError = TRUE]
    /\ UNCHANGED <<TeslaTestMode, mode, consecutiveLow, consecutiveSurplus,
                   lastChargeAmps, lastKnownPluggedIn, hasCachedState,
                   cachedChargeState, since, unsaved, alive, envVars>>

TestModeTick ==
    /\ TeslaTestMode
    /\ LET projected == calculateAvailableAmps(NoChargeState) >= MinChargeAmps
           newState  == IF projected THEN "monitoring" ELSE "idle"
       IN  /\ IF projected
              THEN /\ consecutiveLow' = 0
                   /\ consecutiveSurplus' =
                        Bump(consecutiveSurplus, WakeThresholdPolls)
              ELSE resetCounters
           /\ transitionTo(newState, sessionStats)
           /\ Publish(newState)
    /\ UNCHANGED <<TeslaTestMode, mode, lastChargeAmps, lastKnownPluggedIn,
                   hasCachedState, cachedChargeState, since, alive, envVars>>

\* GetChargeState failed, other than with ErrCarOffline: the tick returns at
\* once, with nothing published.
TeslaReadFails ==
    /\ ~TeslaTestMode
    /\ ~healthy
    /\ shouldPollTesla
    /\ transitionTo("error", sessionStats)
    /\ UNCHANGED <<TeslaTestMode, mode, consecutiveLow, consecutiveSurplus,
                   lastChargeAmps, lastKnownPluggedIn, hasCachedState,
                   cachedChargeState, since, snapshot, unsaved, alive, envVars>>

IdleTick ==
    /\ ~TeslaTestMode
    /\ NotChargeable
    /\ Settle("idle", sinceSeen)
    /\ resetCounters
    /\ UNCHANGED <<lastChargeAmps, car>>

\* In manual mode no transition follows; a cleared error is the exception.
ManualTick ==
    /\ ~TeslaTestMode
    /\ ~NotChargeable
    /\ mode = "manual"
    /\ Settle(maybeClearError, sinceSeen)
    /\ UNCHANGED <<consecutiveLow, consecutiveSurplus, lastChargeAmps, car>>

----------------------------------------------------------------------------
(* The decisions of step 6                                                  *)

\* Mutant: test mode does not keep the controller from commanding the car.
ControllingInTestMode == ~NotChargeable /\ mode = "auto"

Controlling == ~TeslaTestMode /\ ~NotChargeable /\ mode = "auto"

SurplusTick ==
    /\ Controlling
    /\ available >= MinChargeAmps
    /\ consecutiveLow' = 0
    /\ consecutiveSurplus' = Bump(consecutiveSurplus, WakeThresholdPolls)

\* Mutant: a low tick does not end the run of surplus ticks.
LowTickKeepsSurplus ==
    /\ Controlling
    /\ available < MinChargeAmps
    /\ UNCHANGED consecutiveSurplus
    /\ consecutiveLow' = Bump(consecutiveLow, DeadbandPolls)

LowTick ==
    /\ Controlling
    /\ available < MinChargeAmps
    /\ consecutiveSurplus' = 0
    /\ consecutiveLow' = Bump(consecutiveLow, DeadbandPolls)

\* The car sleeps and the surplus does not warrant a wake yet, or one was
\* sent a moment ago.
WaitToWake ==
    /\ SurplusTick
    /\ ~chargeState.IsOnline
    /\ \/ /\ \/ available < MinChargeAmps + WakeMinAmpsMargin
             \/ consecutiveSurplus' < WakeThresholdPolls
          /\ Settle("monitoring", sinceSeen)
       \/ /\ available >= MinChargeAmps + WakeMinAmpsMargin
          /\ consecutiveSurplus' >= WakeThresholdPolls
          /\ since["lastWakeAttempt"] < WakeRetryInterval
          /\ Settle("wake_pending", sinceSeen)
    /\ UNCHANGED <<lastChargeAmps, car>>

\* WakeUp succeeds when the car is seen online within 30 seconds; one that
\* comes up later, or not at all, is an error.
WakeUp ==
    /\ SurplusTick
    /\ ~chargeState.IsOnline
    /\ available >= MinChargeAmps + WakeMinAmpsMargin
    /\ consecutiveSurplus' >= WakeThresholdPolls
    /\ since["lastWakeAttempt"] >= WakeRetryInterval
    /\ \E o \in {"ok", "lost", "failed"} :
          /\ car' = After(o, car, Woken(car))
          /\ Settle(IF Errs(o) THEN "error" ELSE "wake_pending",
                    Stamp(sinceSeen, {"lastWakeAttempt"}))
    /\ UNCHANGED lastChargeAmps

\* Online, not charging, and no start is attempted.
HoldStart ==
    /\ SurplusTick
    /\ chargeState.IsOnline
    /\ chargeState.State # "Charging"
    /\ ~isActionableNonChargingState(chargeState.State) \/ ~canAttemptChargeStart
    /\ Settle("monitoring", sinceSeen)
    /\ UNCHANGED <<lastChargeAmps, car>>

\* SetChargingAmps and then StartCharging.
StartCharging ==
    /\ SurplusTick
    /\ chargeState.IsOnline
    /\ chargeState.State # "Charging"
    /\ isActionableNonChargingState(chargeState.State)
    /\ canAttemptChargeStart
    /\ \E amps \in CommandOutcomes, start \in CommandOutcomes :
          LET ampsSet == After(amps, car, AmpsSet(car, available))
              tried   == Stamp(sinceSeen, {"lastChargeStartAttempt"})
          IN  \/ /\ Errs(amps)
                 /\ car' = ampsSet
                 /\ Settle("error", Stamp(tried, {"lastCommandFailure"}))
                 /\ UNCHANGED lastChargeAmps
              \/ /\ ~Errs(amps) /\ Errs(start)
                 /\ car' = After(start, ampsSet, Started(ampsSet))
                 /\ Settle("error", Stamp(tried, {"lastAmpsAdjustAt",
                                                  "lastCommandFailure"}))
                 /\ UNCHANGED lastChargeAmps
              \/ /\ ~Errs(amps) /\ ~Errs(start)
                 /\ car' = After(start, ampsSet, Started(ampsSet))
                 /\ Settle("charging", Stamp(tried, {"lastAmpsAdjustAt"}))
                 /\ lastChargeAmps' = available

\* The current is worth changing: by the threshold, and not just changed.
AdjustDue ==
    LET diff == Later(available - lastChargeAmps, lastChargeAmps - available)
    IN  /\ diff >= Later(1, AmpsChangeThreshold)
        /\ canAdjustChargingAmps

KeepCharging ==
    /\ SurplusTick
    /\ chargeState.State = "Charging"
    /\ ~AdjustDue
    /\ Settle("charging", sinceSeen)
    /\ UNCHANGED <<lastChargeAmps, car>>

\* Mutant: the new current is not remembered.
AdjustAmpsForgets ==
    /\ SurplusTick
    /\ chargeState.State = "Charging"
    /\ AdjustDue
    /\ \E o \in CommandOutcomes :
          /\ car' = After(o, car, AmpsSet(car, available))
          /\ UNCHANGED lastChargeAmps
          /\ Settle("charging", Stamp(sinceSeen, {"lastAmpsAdjustAt"}))

AdjustAmps ==
    /\ SurplusTick
    /\ chargeState.State = "Charging"
    /\ AdjustDue
    /\ \E o \in CommandOutcomes :
          /\ car' = After(o, car, AmpsSet(car, available))
          /\ lastChargeAmps' = IF Errs(o) THEN lastChargeAmps ELSE available
          /\ Settle("charging",
                    Stamp(sinceSeen, IF Errs(o) THEN {"lastCommandFailure"}
                                     ELSE {"lastAmpsAdjustAt"}))

StopCharging ==
    /\ LowTick
    /\ chargeState.State = "Charging"
    /\ consecutiveLow' >= DeadbandPolls
    /\ \E o \in CommandOutcomes :
          /\ car' = After(o, car, Halted(car))
          /\ IF Errs(o)
             THEN /\ Settle(maybeClearError,
                            Stamp(sinceSeen, {"lastCommandFailure"}))
                  /\ UNCHANGED lastChargeAmps
             ELSE /\ Settle("stopped_low_surplus", sinceSeen)
                  /\ lastChargeAmps' = 0

RideOutLow ==
    /\ LowTick
    /\ chargeState.State # "Charging" \/ consecutiveLow' < DeadbandPolls
    /\ Settle(IF chargeState.State = "Charging" THEN "charging"
              ELSE "monitoring", sinceSeen)
    /\ UNCHANGED <<lastChargeAmps, car>>

Decide ==
    \/ WaitToWake \/ WakeUp \/ HoldStart \/ StartCharging \/ KeepCharging
    \/ AdjustAmps \/ StopCharging \/ RideOutLow

TickSteps ==
    InverterFails \/ TestModeTick \/ TeslaReadFails \/ IdleTick \/ ManualTick
    \/ Decide

\* "ticker": the channel of time.Ticker, which holds one tick and drops
\* what comes while it is full.  "refresh": a Tick called by ForceRefresh.
Tick(caller) ==
    /\ alive = "running"
    /\ caller \in due
    /\ due' = due \ {caller}
    /\ TickSteps

----------------------------------------------------------------------------
(* The dashboard's operations                                               *)

SetMode(m) ==
    /\ "mode" \in Disturbances
    /\ alive = "running"
    /\ m # mode
    /\ mode' = m
    /\ snapshot' = [snapshot EXCEPT !.Mode = m]
    /\ UNCHANGED <<TeslaTestMode, state, consecutiveLow, consecutiveSurplus,
                   lastChargeAmps, lastKnownPluggedIn, hasCachedState, cachedChargeState,
                   since, activeSessionID, sessionStats, unsaved, due, alive,
                   openRows, envVars>>

\* A command of the dashboard leaves the controller's own state alone.
ManualCommand(effect) ==
    /\ "manual" \in Disturbances
    /\ alive = "running"
    /\ ~TeslaTestMode
    /\ mode = "manual"
    /\ \E o \in CommandOutcomes : car' = After(o, car, effect)
    /\ UNCHANGED <<ctlVars, due, alive, openRows, solar, wakeWindow, healthy>>

ManualSetAmps(amps) == ManualCommand(AmpsSet(car, amps))
ManualStart == ManualCommand(Started(car))
ManualStop == ManualCommand(Halted(car))

\* A new limit can end a charge or make a full battery chargeable.  Allowed
\* in both modes.
SetChargeLimit ==
    /\ "limit" \in Disturbances
    /\ alive = "running"
    /\ ~TeslaTestMode
    /\ "Complete" \in CarStates
    /\ \E o \in CommandOutcomes :
          car' = After(o, car,
                   [car EXCEPT !.state = CASE @ = "Charging" -> "Complete"
                                           [] @ = "Complete" -> "Charging"
                                           [] OTHER -> @])
    /\ UNCHANGED <<ctlVars, due, alive, openRows, solar, wakeWindow, healthy>>

ForceRefresh ==
    /\ "refresh" \in Disturbances
    /\ alive = "running"
    /\ "refresh" \notin due
    /\ hasCachedState' = FALSE
    /\ cachedChargeState' = NoChargeState
    /\ since' = Forget(since, Timer \ {"lastOnlineAt"})
    /\ resetCounters
    /\ IF state = "error"
       THEN /\ state' = "monitoring"
            /\ snapshot' = [snapshot EXCEPT !.State = "monitoring"]
       ELSE UNCHANGED <<TeslaTestMode, state, snapshot>>
    /\ due' = due \union {"refresh"}
    /\ UNCHANGED <<TeslaTestMode, mode, lastChargeAmps, lastKnownPluggedIn,
                   activeSessionID, sessionStats, unsaved, alive, openRows, envVars>>

----------------------------------------------------------------------------
(* The process                                                              *)

\* New: the zero values of the struct, idle and auto.
NewController ==
    /\ state = "idle" /\ mode = "auto"
    /\ consecutiveLow = 0 /\ consecutiveSurplus = 0
    /\ lastChargeAmps = 0 /\ lastKnownPluggedIn = FALSE
    /\ hasCachedState = FALSE /\ cachedChargeState = NoChargeState
    /\ since = Elapsed
    /\ activeSessionID = 0 /\ sessionStats = NoStats
    /\ snapshot = [State |-> "idle", Mode |-> "auto", LastError |-> FALSE]
    /\ unsaved = FALSE
    /\ due = {}

\* Run's ctx.Done branch.  StopCharging is sent with a fresh context; the
\* last flush uses the cancelled one, with which database/sql refuses every
\* statement, so the samples stay unsaved.
Shutdown ==
    /\ "stop" \in Disturbances
    /\ alive = "running"
    /\ alive' = "shutdown"
    /\ IF state = "charging"
       THEN \E o \in CommandOutcomes : car' = After(o, car, Halted(car))
       ELSE UNCHANGED car
    /\ UNCHANGED <<ctlVars, due, openRows, solar, wakeWindow, healthy>>

Crash ==
    /\ "stop" \in Disturbances
    /\ alive = "running"
    /\ alive' = "crashed"
    /\ UNCHANGED <<ctlVars, due, openRows, envVars>>

\* Only the database survives: New builds the controller from nothing.
Restart ==
    /\ alive # "running"
    /\ alive' = "running"
    /\ TeslaTestMode' \in TestModes
    /\ state' = "idle" /\ mode' = "auto"
    /\ consecutiveLow' = 0 /\ consecutiveSurplus' = 0
    /\ lastChargeAmps' = 0 /\ lastKnownPluggedIn' = FALSE
    /\ hasCachedState' = FALSE /\ cachedChargeState' = NoChargeState
    /\ since' = Elapsed
    /\ activeSessionID' = 0 /\ sessionStats' = NoStats
    /\ snapshot' = [State |-> "idle", Mode |-> "auto", LastError |-> FALSE]
    /\ unsaved' = FALSE
    /\ due' = {}
    /\ UNCHANGED <<openRows, envVars>>

----------------------------------------------------------------------------
(* The surroundings                                                         *)

Elapse ==
    /\ since' = [t \in Timer |-> Bump(since[t], Elapsed[t])]
    /\ due' = IF alive = "running" THEN due \union {"ticker"} ELSE due
    /\ UNCHANGED <<TeslaTestMode, state, mode, consecutiveLow, consecutiveSurplus,
                   lastChargeAmps, lastKnownPluggedIn, hasCachedState,
                   cachedChargeState, activeSessionID, sessionStats, snapshot,
                   unsaved, alive, openRows, envVars>>

\* Plugged, unplugged, full, started or stopped from the vehicle's own app.
CarChanges ==
    /\ "car" \in Disturbances
    /\ \E s \in CarStates \ {car.state} : car' = [car EXCEPT !.state = s]
    /\ UNCHANGED <<ctlVars, due, alive, openRows, solar, wakeWindow, healthy>>

\* Falls asleep, drives out of reach, or is reachable again.
CarReachability ==
    /\ "reach" \in Disturbances
    /\ car' = [car EXCEPT !.online = ~@]
    /\ UNCHANGED <<ctlVars, due, alive, openRows, solar, wakeWindow, healthy>>

SunChanges ==
    /\ "sun" \in Disturbances
    /\ \E w \in SolarWatts \ {solar} : solar' = w
    /\ UNCHANGED <<ctlVars, due, alive, openRows, car, wakeWindow, healthy>>

HourChanges ==
    /\ "hour" \in Disturbances
    /\ wakeWindow' = ~wakeWindow
    /\ UNCHANGED <<ctlVars, due, alive, openRows, car, solar, healthy>>

HealthChanges ==
    /\ "faults" \in Disturbances
    /\ healthy' = ~healthy
    /\ UNCHANGED <<ctlVars, due, alive, openRows, car, solar, wakeWindow>>

Init ==
    /\ NewController
    /\ TeslaTestMode \in TestModes
    /\ alive = "running"
    /\ openRows = {}
    /\ car \in [online : BOOLEAN, state : {"Disconnected", "Stopped"},
                amps : {MaxChargeAmps}]
    /\ solar \in SolarWatts
    /\ wakeWindow = TRUE
    /\ healthy = TRUE

Next ==
    \/ \E caller \in {"ticker", "refresh"} : Tick(caller)
    \/ \E m \in Mode : SetMode(m)
    \/ \E amps \in Amps : ManualSetAmps(amps)
    \/ ManualStart \/ ManualStop \/ SetChargeLimit \/ ForceRefresh
    \/ Shutdown \/ Crash \/ Restart
    \/ Elapse
    \/ CarChanges \/ CarReachability \/ SunChanges \/ HourChanges
    \/ HealthChanges

Spec == Init /\ [][Next]_vars

\* The ticker keeps firing, and the goroutine that serves it and the request
\* that forced a refresh get to run.
Fairness ==
    /\ WF_vars(Elapse)
    /\ \A caller \in {"ticker", "refresh"} : WF_vars(Tick(caller))

FairSpec == Spec /\ Fairness

----------------------------------------------------------------------------
(* Properties                                                               *)

\* The type of every variable of the Controller struct and its surroundings.
TypeOK ==
    /\ TeslaTestMode \in BOOLEAN
    /\ state \in State
    /\ mode \in Mode
    /\ consecutiveLow \in 0 .. DeadbandPolls
    /\ consecutiveSurplus \in 0 .. WakeThresholdPolls
    /\ lastChargeAmps \in Amps
    /\ lastKnownPluggedIn \in BOOLEAN
    /\ hasCachedState \in BOOLEAN
    /\ cachedChargeState \in ChargeState
    /\ since \in [Timer -> Nat]
    /\ activeSessionID \in SessionIDs \union {0}
    /\ sessionStats \in [samples : Nat, peak : Amps, total : Nat]
    /\ snapshot \in [State : State, Mode : Mode, LastError : BOOLEAN]
    /\ unsaved \in BOOLEAN
    /\ due \subseteq {"ticker", "refresh"}
    /\ alive \in {"running", "shutdown", "crashed"}
    /\ openRows \subseteq SessionIDs
    /\ car \in [online : BOOLEAN, state : CarStates, amps : Amps]
    /\ solar \in SolarWatts
    /\ wakeWindow \in BOOLEAN
    /\ healthy \in BOOLEAN

\* transitionTo keeps the session's bookkeeping in step with the state across
\* every tick, refresh, fault and restart: a session is active only while the
\* controller is in the charging state, its row is still open, its samples
\* belong to it alone, and their average never exceeds their peak.
SessionBookkeeping ==
    /\ activeSessionID # 0 => state = "charging" /\ activeSessionID \in openRows
    /\ activeSessionID = 0 => sessionStats = NoStats
    /\ sessionStats.samples <= sessionStats.total
    /\ sessionStats.total <= sessionStats.samples * sessionStats.peak

\* The two counters of step 6 never both count: a surplus tick clears the low
\* run and a low tick the surplus run, whatever ticks that count neither
\* (manual, idle, failed) come between.
CountersExclusive == consecutiveLow = 0 \/ consecutiveSurplus = 0

\* While the process runs and the database works, no step of the controller
\* leaves a charge_sessions row open that is not the active one: rows are
\* abandoned only by a failing store or by the end of the process.
RowsAbandonedOnlyByFaults ==
    [][alive = "running" /\ healthy =>
         openRows' \ {activeSessionID'} \subseteq openRows \ {activeSessionID}]_vars

\* The table of charge sessions as ChargeLog promises it: every charge has its
\* own row, opened and closed with it, and only the faults named there leave
\* one open.  A sample is one more amount booked.
Log == INSTANCE ChargeLog
       WITH Rows <- SessionIDs, charging <- state = "charging",
            row <- activeSessionID, booked <- sessionStats.total,
            openRows <- openRows, up <- alive = "running", works <- healthy
KeepsChargeLog == Log!Spec

\* The published snapshot shows the controller's state; only the error state,
\* which a failed read of the car enters without publishing, may be missing.
SnapshotLagsOnlyInError == snapshot.State # state => state = "error"

\* The current the controller believes it set last is the one the car has.
AmpsInStep == lastChargeAmps # 0 => car.amps = lastChargeAmps

\* Only a failing request or a current set by hand takes the remembered
\* current and the car's apart: no start, stop, change of the current, wake,
\* refresh, use of the vehicle's app or restart does, with the reading
\* decided on fresh or stale.
AmpsStayInStep ==
    [][/\ AmpsInStep /\ healthy
       /\ ~\E amps \in Amps : ManualSetAmps(amps)
       => AmpsInStep']_vars

\* A command computed from what the car really draws never asks for more than
\* the sun provides: floor, not rounding toward zero, on the grid balance.
FreshDecisionsNeverImport ==
    [][/\ healthy
       /\ chargeState = FleetReading
       /\ StartCharging \/ AdjustAmps
       => car'.amps * LineVoltage <= solar]_vars

\* A process started in test mode leaves the car alone: no charge, no wake, no
\* session, and nothing read from Tesla, whatever the process before it did.
TestModeLeavesCarAlone ==
    TeslaTestMode => /\ state \in {"idle", "monitoring", "error"}
                     /\ activeSessionID = 0 /\ lastChargeAmps = 0
                     /\ ~hasCachedState /\ ~lastKnownPluggedIn

Shortage == /\ alive = "running" /\ healthy /\ mode = "auto" /\ car.online
            /\ solar \div LineVoltage < MinChargeAmps

\* However the cache and the counters stand after earlier faults and app use,
\* a car left charging from the grid in auto mode is stopped in the end.
StopsOnShortage == <>[]Shortage => []<>(car.state # "Charging")

Sunny == /\ alive = "running" /\ healthy /\ mode = "auto" /\ car.online
         /\ car.state \in {"Stopped", "Charging"}
         /\ solar \div LineVoltage >= MinChargeAmps

\* A lasting surplus is used: a reachable, plugged-in car charges again and
\* again, whatever stale state or cooldown the controller starts from.
ChargesOnSurplus == <>[]Sunny => []<>(car.state = "Charging")

\* shouldAttemptWake's staleness limit: a car that has driven away is not
\* woken for ever.
WakesEnd == <>[](~car.online) => <>[](since["lastWakeAttempt"] > 0)

\* maybeClearError: once requests succeed and the car no longer drops out
\* between a reading and the command based on it, the error state is left,
\* also by the ticks of manual mode and whenever the mode is switched.
ErrorClears ==
    /\ <>[](healthy /\ alive = "running")
    /\ <>[](car.online) \/ <>[](~car.online)
    => []<>(state # "error")

----------------------------------------------------------------------------
(* What the docs and tests say of the controller and the code               *)
(* does not do: each of these is refuted by a run.                          *)

\* docs/instructions.md: charge start and stop bound a charge_sessions row.
\* After a successful StartCharging the cached state still says Stopped, and
\* the next tick ends the session while the car goes on charging.
SessionSpansCharge ==
    [][activeSessionID # 0 /\ activeSessionID' = 0
         => car'.state # "Charging"]_vars

\* docs/cost-optimisation.md: the current lags the optimum only briefly.  The
\* cached AmpsActual is not updated by SetChargingAmps, so under a constant
\* sun the target can swing for ever, importing half of the time.
DrawSettles ==
    <>[]Sunny /\ <>[][solar' = solar]_vars => <>[](Draw * LineVoltage <= solar)

\* Test_Run_cancelStopsChargingAndFlushes: a shutdown writes the accumulated
\* samples.  The flush is given the context whose cancellation started it.
ShutdownSavesSamples == alive = "shutdown" => ~unsaved
=============================================================================
