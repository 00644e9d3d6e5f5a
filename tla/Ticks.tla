------------------------------- MODULE Ticks -------------------------------
(***************************************************************************)
(* Ticks that overlap.  Run calls Tick from its own goroutine, and every   *)
(* request that forces a refresh calls it from another; the controller's   *)
(* mutex is held for single assignments only, and the calls to the car and *)
(* to the store are made without it.  Controller takes a tick for one      *)
(* step; here it is the sequence of its lock sections and calls, with mode *)
(* switches in between.                                                    *)
(*                                                                         *)
(* What a tick decides is Controller's subject and a free choice here.  Of *)
(* the states only "charging" is told apart, since the transitions between *)
(* the others touch neither the sessions nor the samples; the session's    *)
(* statistics, the counters and the caches are left out.  Samples that the *)
(* same goroutine takes in the same minute are counted as one.             *)
(***************************************************************************)
EXTENDS Integers

CONSTANTS
    Threads,      \* goroutines that run ticks
    SessionIDs,   \* bound: rows of charge_sessions in use at once
    MaxMinute,    \* bound: the last minute
    MaxRows       \* bound: rows counted for a minute

ASSUME TicksAssumption ==
    /\ SessionIDs \subseteq Nat \ {0}
    /\ MaxMinute \in Nat \ {0}
    /\ MaxRows \in Nat

VARIABLES
    pc,               \* where each tick is
    target,           \* the state its transition leads to
    after,            \* where it goes after the transition
    rowID,            \* the session row it works on
    thisMinute,       \* the minute accumulateSample found
    copied,           \* what flushMinuteAverage copied
    charging,         \* Controller.state = StateCharging
    activeSessionID,
    mode,
    currentMinute,    \* 0: the zero time
    accumulator,
    openRows,         \* rows of charge_sessions with no end_time
    readings,         \* number of rows of readings for each minute
    now,              \* external: the minute of the clock
    \* History, which only the properties read
    sawAuto,          \* the mode was auto at some moment of the tick
    messy,            \* transitions overlapped and left the session unsettled
    saved,            \* samples of the accumulator that are in a row already
    dropped,          \* a sample was cleared that is in no row
    torn              \* flushes overlapped, or a row was refused

tickVars == <<pc, target, after, rowID, thisMinute, copied>>
sessionVars == <<charging, activeSessionID, openRows, messy>>
minuteVars == <<currentMinute, accumulator, readings, saved, dropped, torn>>
modeVars == <<mode, sawAuto>>
vars == <<tickVars, sessionVars, minuteVars, modeVars, now>>

Minutes == 1 .. MaxMinute
Sample == [by : Threads, at : Minutes]

\* The steps between the change of the state and the end of transitionTo.
Booking == {"startSession", "setID", "summary", "endSession", "clearID"}

\* The steps between accumulateSample's test and the new minute.
Flushing == {"flush", "insert", "rollover"}

Steps == {"idle", "read", "command", "transition", "accumulate"}
           \union Booking \union Flushing

Busy(S) == \E t \in Threads : pc[t] \in S
OthersBusy(t, S) == \E u \in Threads \ {t} : pc[u] \in S

Go(t, step) == pc' = [pc EXCEPT ![t] = step]

----------------------------------------------------------------------------
(* A tick up to its transition                                              *)

Begin(t) ==
    /\ pc[t] = "idle"
    /\ Go(t, "read")
    /\ sawAuto' = [sawAuto EXCEPT ![t] = mode = "auto"]
    /\ UNCHANGED <<target, after, rowID, thisMinute, copied, sessionVars,
                   minuteVars, mode, now>>

\* The tick calls transitionTo, with a step to go on with afterwards.
Call(t, charge, next) ==
    /\ Go(t, "transition")
    /\ target' = [target EXCEPT ![t] = charge]
    /\ after' = [after EXCEPT ![t] = next]

\* The inverter or the car cannot be read: to the error state, no sample.
ReadFails(t) ==
    /\ pc[t] = "read"
    /\ Call(t, FALSE, "idle")
    /\ UNCHANGED <<rowID, thisMinute, copied, sessionVars, minuteVars, modeVars,
                   now>>

\* maybeClearError found the error state, which is not charging, and leaves it.
ClearError(t) ==
    /\ pc[t] = "read" /\ ~charging
    /\ Call(t, FALSE, "read")
    /\ UNCHANGED <<rowID, thisMinute, copied, sessionVars, minuteVars, modeVars,
                   now>>

\* The car is unplugged, or asleep and not to be woken, or in test mode: the
\* transition is to no charge, whatever the mode.
NotChargeable(t) ==
    /\ pc[t] = "read"
    /\ Call(t, FALSE, "accumulate")
    /\ UNCHANGED <<rowID, thisMinute, copied, sessionVars, minuteVars, modeVars,
                   now>>

\* Mutant: the loop decides in manual mode too while a session is active.
DecideUnlessIdle(t) ==
    /\ pc[t] = "read"
    /\ \/ mode = "manual" /\ Go(t, "accumulate") /\ UNCHANGED <<target, after>>
       \/ /\ mode = "auto" \/ activeSessionID # 0
          /\ \/ \E charge \in BOOLEAN : Call(t, charge, "accumulate")
             \/ Call(t, FALSE, "command")
             \/ Go(t, "command") /\ UNCHANGED <<target, after>>
    /\ UNCHANGED <<rowID, thisMinute, copied, sessionVars, minuteVars, modeVars,
                   now>>

\* Steps 4 to 6: the mode is read under the lock, once; in auto mode some
\* decisions send a command, some do not, and a wake-up sends it after the
\* transition to its state.
Decide(t) ==
    /\ pc[t] = "read"
    /\ \/ mode = "manual" /\ Go(t, "accumulate") /\ UNCHANGED <<target, after>>
       \/ /\ mode = "auto"
          /\ \/ \E charge \in BOOLEAN : Call(t, charge, "accumulate")
             \/ Call(t, FALSE, "command")
             \/ Go(t, "command") /\ UNCHANGED <<target, after>>
    /\ UNCHANGED <<rowID, thisMinute, copied, sessionVars, minuteVars, modeVars,
                   now>>

\* SetChargingAmps, StartCharging, StopCharging or WakeUp.  A start sends two
\* commands; after a successful start or a change of the amps the state is
\* charging, after a stop or a failure it is not; a failed stop and a
\* successful wake-up are followed by no transition.
Command(t) ==
    /\ pc[t] = "command"
    /\ \/ \E charge \in BOOLEAN : Call(t, charge, "accumulate")
       \/ /\ \E step \in {"command", "accumulate"} : Go(t, step)
          /\ UNCHANGED <<target, after>>
    /\ UNCHANGED <<rowID, thisMinute, copied, sessionVars, minuteVars, modeVars,
                   now>>

----------------------------------------------------------------------------
(* transitionTo                                                             *)

\* transitionTo returns to the tick; the local variables die.
Leave(t) ==
    /\ Go(t, after[t])
    /\ target' = [target EXCEPT ![t] = FALSE]
    /\ after' = [after EXCEPT ![t] = "idle"]
    /\ rowID' = [rowID EXCEPT ![t] = 0]

Stay(t, step) == Go(t, step) /\ UNCHANGED <<target, after>>

\* The state changes under the lock; the bookkeeping follows without it.
Transition(t) ==
    /\ pc[t] = "transition"
    /\ charging' = target[t]
    /\ \/ target[t] = charging /\ Leave(t)
       \/ target[t] /\ ~charging /\ Stay(t, "startSession") /\ UNCHANGED rowID
       \/ ~target[t] /\ charging /\ Stay(t, "summary") /\ UNCHANGED rowID
    /\ messy' = \/ messy
                \/ target[t] # charging /\ OthersBusy(t, Booking)
    /\ UNCHANGED <<thisMinute, copied, activeSessionID, openRows, minuteVars,
                   modeVars, now>>

\* Mutant: a row that is still open is taken up again.
StartSessionResumes(t) ==
    /\ pc[t] = "startSession"
    /\ \E id \in SessionIDs :
          /\ openRows # {} => id \in openRows
          /\ openRows' = openRows \union {id}
          /\ rowID' = [rowID EXCEPT ![t] = id]
          /\ Stay(t, "setID")
    /\ UNCHANGED <<thisMinute, copied, charging, activeSessionID, messy,
                   minuteVars, modeVars, now>>

\* The store inserts a row with an id that nobody has seen, or fails.
StartSession(t) ==
    /\ pc[t] = "startSession"
    /\ \/ \E id \in SessionIDs \ (openRows \union {activeSessionID}
                                   \union {rowID[u] : u \in Threads}) :
             /\ openRows' = openRows \union {id}
             /\ rowID' = [rowID EXCEPT ![t] = id]
             /\ Stay(t, "setID")
       \/ Leave(t) /\ UNCHANGED openRows
    /\ UNCHANGED <<thisMinute, copied, charging, activeSessionID, messy,
                   minuteVars, modeVars, now>>

\* A step that ends the bookkeeping alone, with the session as the state
\* wants it, settles what an overlap has left.
Settles(t, asWanted) == messy' = (messy /\ ~(asWanted /\ ~OthersBusy(t, Booking)))

SetID(t) ==
    /\ pc[t] = "setID"
    /\ activeSessionID' = rowID[t]
    /\ Leave(t)
    /\ Settles(t, charging)
    /\ UNCHANGED <<thisMinute, copied, charging, openRows, minuteVars, modeVars,
                   now>>

\* sessionSummary reads the id; with none there is nothing to end.
SessionSummary(t) ==
    /\ pc[t] = "summary"
    /\ \/ activeSessionID = 0 /\ Leave(t)
       \/ /\ activeSessionID # 0
          /\ rowID' = [rowID EXCEPT ![t] = activeSessionID]
          /\ Stay(t, "endSession")
    /\ Settles(t, activeSessionID = 0)
    /\ UNCHANGED <<thisMinute, copied, charging, activeSessionID, openRows,
                   minuteVars, modeVars, now>>

EndSession(t) ==
    /\ pc[t] = "endSession"
    /\ openRows' \in {openRows, openRows \ {rowID[t]}}
    /\ Stay(t, "clearID")
    /\ UNCHANGED <<rowID, thisMinute, copied, charging, activeSessionID, messy,
                   minuteVars, modeVars, now>>

\* Mutant: the ended session's id stays in the controller.
ClearIDKeeps(t) ==
    /\ pc[t] = "clearID"
    /\ Leave(t)
    /\ Settles(t, TRUE)
    /\ UNCHANGED <<thisMinute, copied, charging, activeSessionID, openRows,
                   minuteVars, modeVars, now>>

ClearID(t) ==
    /\ pc[t] = "clearID"
    /\ activeSessionID' = 0
    /\ Leave(t)
    /\ Settles(t, TRUE)
    /\ UNCHANGED <<thisMinute, copied, charging, openRows, minuteVars, modeVars,
                   now>>

----------------------------------------------------------------------------
(* accumulateSample and flushMinuteAverage                                  *)

\* Mutant: the time is rounded up to the minute's end.
AccumulateRounds(t) ==
    /\ pc[t] = "accumulate"
    /\ currentMinute' = IF currentMinute = 0 THEN now + 1 ELSE currentMinute
    /\ accumulator' = accumulator \union {[by |-> t, at |-> now + 1]}
    /\ Go(t, "idle")
    /\ UNCHANGED <<target, after, rowID, thisMinute, copied, sessionVars,
                   readings, saved, dropped, torn, modeVars, now>>

\* The first lock section: the sample joins its minute, or the minute is over.
Accumulate(t) ==
    /\ pc[t] = "accumulate"
    /\ LET minute == IF currentMinute = 0 THEN now ELSE currentMinute
           sample == [by |-> t, at |-> now]
       IN  /\ currentMinute' = minute
           /\ IF minute = now
              THEN /\ accumulator' = accumulator \union {sample}
                   /\ Go(t, "idle")
                   /\ UNCHANGED <<thisMinute, torn>>
              ELSE /\ thisMinute' = [thisMinute EXCEPT ![t] = now]
                   /\ Go(t, "flush")
                   /\ torn' = (torn \/ OthersBusy(t, Flushing))
                   /\ UNCHANGED accumulator
    /\ UNCHANGED <<target, after, rowID, copied, sessionVars, readings, saved,
                   dropped, modeVars, now>>

\* Mutant: a minute of a single sample is not worth a row.
FlushSkipsSingle(t) ==
    /\ pc[t] = "flush"
    /\ copied' = [copied EXCEPT ![t] = [minute |-> currentMinute,
                                        samples |-> accumulator]]
    /\ Go(t, IF \A a, b \in accumulator : a = b THEN "rollover" ELSE "insert")
    /\ UNCHANGED <<target, after, rowID, thisMinute, sessionVars, minuteVars,
                   modeVars, now>>

\* The samples and their minute are copied in one lock section.
Flush(t) ==
    /\ pc[t] = "flush"
    /\ copied' = [copied EXCEPT ![t] = [minute |-> currentMinute,
                                        samples |-> accumulator]]
    /\ Go(t, IF accumulator = {} THEN "rollover" ELSE "insert")
    /\ UNCHANGED <<target, after, rowID, thisMinute, sessionVars, minuteVars,
                   modeVars, now>>

\* InsertReading; a refused row is logged and its samples are gone.
InsertReading(t) ==
    /\ pc[t] = "insert"
    /\ \/ /\ readings' = [readings EXCEPT ![copied[t].minute] =
                                      IF @ < MaxRows THEN @ + 1 ELSE @]
          /\ saved' = saved \union (copied[t].samples \intersect accumulator)
          /\ UNCHANGED torn
       \/ /\ torn' = TRUE
          /\ UNCHANGED <<readings, saved>>
    /\ Go(t, "rollover")
    /\ UNCHANGED <<target, after, rowID, thisMinute, copied, sessionVars,
                   currentMinute, accumulator, dropped, modeVars, now>>

\* Mutant: the samples of the old minute stay in the accumulator.
RolloverKeeps(t) ==
    /\ pc[t] = "rollover"
    /\ accumulator' = accumulator \union {[by |-> t, at |-> thisMinute[t]]}
    /\ currentMinute' = thisMinute[t]
    /\ copied' = [copied EXCEPT ![t] = [minute |-> 0, samples |-> {}]]
    /\ thisMinute' = [thisMinute EXCEPT ![t] = 1]
    /\ Go(t, "idle")
    /\ UNCHANGED <<target, after, rowID, sessionVars, readings, saved, dropped,
                   torn, modeVars, now>>

\* The second lock section: the minute found by the first one begins.
Rollover(t) ==
    /\ pc[t] = "rollover"
    /\ accumulator' = {[by |-> t, at |-> thisMinute[t]]}
    /\ saved' = {}
    /\ dropped' = (dropped \/ ~(accumulator \subseteq saved))
    /\ currentMinute' = thisMinute[t]
    /\ copied' = [copied EXCEPT ![t] = [minute |-> 0, samples |-> {}]]
    /\ thisMinute' = [thisMinute EXCEPT ![t] = 1]
    /\ Go(t, "idle")
    /\ UNCHANGED <<target, after, rowID, sessionVars, readings, torn,
                   modeVars, now>>

----------------------------------------------------------------------------
(* The dashboard and the clock                                              *)

SetMode(m) ==
    /\ m # mode
    /\ mode' = m
    /\ sawAuto' = [t \in Threads |-> sawAuto[t] \/ m = "auto"]
    /\ UNCHANGED <<tickVars, sessionVars, minuteVars, now>>

MinutePasses ==
    /\ now < MaxMinute
    /\ now' = now + 1
    /\ UNCHANGED <<tickVars, sessionVars, minuteVars, modeVars>>

Init ==
    /\ pc = [t \in Threads |-> "idle"]
    /\ target = [t \in Threads |-> FALSE]
    /\ after = [t \in Threads |-> "idle"]
    /\ rowID = [t \in Threads |-> 0]
    /\ thisMinute = [t \in Threads |-> 1]
    /\ copied = [t \in Threads |-> [minute |-> 0, samples |-> {}]]
    /\ charging = FALSE /\ activeSessionID = 0 /\ mode = "auto"
    /\ currentMinute = 0 /\ accumulator = {}
    /\ openRows = {}
    /\ readings = [m \in Minutes |-> 0]
    /\ now = 1
    /\ sawAuto = [t \in Threads |-> TRUE]
    /\ messy = FALSE
    /\ saved = {} /\ dropped = FALSE /\ torn = FALSE

Next ==
    \/ \E t \in Threads :
          \/ Begin(t) \/ ReadFails(t) \/ ClearError(t) \/ NotChargeable(t)
          \/ Decide(t) \/ Command(t)
          \/ Transition(t) \/ StartSession(t) \/ SetID(t)
          \/ SessionSummary(t) \/ EndSession(t) \/ ClearID(t)
          \/ Accumulate(t) \/ Flush(t) \/ InsertReading(t) \/ Rollover(t)
    \/ \E m \in {"auto", "manual"} : SetMode(m)
    \/ MinutePasses

Spec == Init /\ [][Next]_vars

----------------------------------------------------------------------------
(* Properties                                                               *)

\* The type of every field and of every tick's local variables.
TypeOK ==
    /\ pc \in [Threads -> Steps]
    /\ target \in [Threads -> BOOLEAN]
    /\ after \in [Threads -> {"idle", "read", "command", "accumulate"}]
    /\ rowID \in [Threads -> SessionIDs \union {0}]
    /\ thisMinute \in [Threads -> Minutes]
    /\ copied \in [Threads -> [minute : Minutes \union {0},
                               samples : SUBSET Sample]]
    /\ charging \in BOOLEAN
    /\ activeSessionID \in SessionIDs \union {0}
    /\ mode \in {"auto", "manual"}
    /\ currentMinute \in Minutes \union {0}
    /\ accumulator \subseteq Sample
    /\ openRows \subseteq SessionIDs
    /\ readings \in [Minutes -> 0 .. MaxRows]
    /\ now \in Minutes
    /\ sawAuto \in [Threads -> BOOLEAN]
    /\ messy \in BOOLEAN
    /\ saved \subseteq accumulator
    /\ dropped \in BOOLEAN
    /\ torn \in BOOLEAN

\* transitionTo's bookkeeping runs outside the lock.  Overlapping transitions
\* may leave a session active that nobody charges, or none for a charge; but
\* the next transition that ends alone, as the state wants the session,
\* settles it: from then on a session is active only while charging, and its
\* row is open, as if ticks were atomic.
OverlapHeals ==
    ~messy /\ ~Busy(Booking) /\ activeSessionID # 0
      => charging /\ activeSessionID \in openRows

\* A row of charge_sessions is set as the active one by the tick that opened
\* it, and by no other, however the transitions overlap: rows about to become
\* active are open, and no two ticks have the same.
RowsHaveOneOwner ==
    \A t \in Threads : pc[t] = "setID" =>
        /\ rowID[t] \in openRows /\ rowID[t] # activeSessionID
        /\ \A u \in Threads \ {t} : rowID[u] # rowID[t]

\* The mode is read once per tick and the commands come later.  A tick that
\* commands the car after a switch to manual had begun before it: no tick
\* that begins in manual mode, and runs while it lasts, commands.
CommandsFollowMode ==
    \A t \in Threads : pc[t] = "command" => sawAuto[t]

\* Ticks that find the minute over flush without the lock, and a slow one may
\* set an earlier minute again.  Still no sample is averaged into the row of
\* another minute.
ReadingsPure ==
    /\ \A s \in accumulator : s.at = currentMinute
    /\ \A t \in Threads : pc[t] = "insert" =>
          \A s \in copied[t].samples : s.at = copied[t].minute

\* As long as flushes do not overlap and the store takes the rows, a minute
\* has one row at most and no sample is lost, although transitions, mode
\* switches and other samples come in between.
MinuteBooked ==
    ~torn => ~dropped /\ \A m \in Minutes : readings[m] <= 1
=============================================================================
