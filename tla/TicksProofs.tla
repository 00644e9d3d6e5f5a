---------------------------- MODULE TicksProofs ----------------------------
(***************************************************************************)
(* Proofs about ticks that overlap, for any number of goroutines, session  *)
(* rows and minutes.                                                       *)
(***************************************************************************)
EXTENDS Ticks, TLAPS

\* The steps of a tick that touch neither the session nor the minute.
Early(t) ==
    \/ Begin(t) \/ ReadFails(t) \/ ClearError(t) \/ NotChargeable(t)
    \/ Decide(t) \/ Command(t)

\* The steps of transitionTo.
Booked(t) ==
    \/ Transition(t) \/ StartSession(t) \/ SetID(t) \/ SessionSummary(t)
    \/ EndSession(t) \/ ClearID(t)

\* The steps of accumulateSample and flushMinuteAverage.
Late(t) == Accumulate(t) \/ Flush(t) \/ InsertReading(t) \/ Rollover(t)

\* The steps of nobody's tick.
Outside == (\E m \in {"auto", "manual"} : SetMode(m)) \/ MinutePasses

LEMMA NextSplit ==
    ASSUME Next
    PROVE  (\E t \in Threads : Early(t) \/ Booked(t) \/ Late(t)) \/ Outside
    BY DEF Next, Early, Booked, Late, Outside

----------------------------------------------------------------------------
(* Types                                                                    *)

\* Every step keeps the fields and the local variables in their types.
LEMMA TypeStep == TypeOK /\ [Next]_vars => TypeOK'
<1> SUFFICES ASSUME TypeOK, [Next]_vars PROVE TypeOK'
    OBVIOUS
<1> USE TicksAssumption DEF Minutes, Sample
<1>1. ASSUME NEW t \in Threads, Early(t) PROVE TypeOK'
  <2>1. pc' \in [Threads -> Steps] /\ sawAuto' \in [Threads -> BOOLEAN]
      BY <1>1 DEF Early, Begin, ReadFails, ClearError, NotChargeable, Decide,
         Command, Go, Call, TypeOK, Steps, modeVars
  <2>2. /\ target' \in [Threads -> BOOLEAN]
        /\ after' \in [Threads -> {"idle", "read", "command", "accumulate"}]
      BY <1>1 DEF Early, Begin, ReadFails, ClearError, NotChargeable, Decide,
         Command, Go, Call, TypeOK
  <2>3. UNCHANGED <<rowID, thisMinute, copied, sessionVars, minuteVars, mode, now>>
      BY <1>1 DEF Early, Begin, ReadFails, ClearError, NotChargeable, Decide,
         Command, modeVars
  <2> QED
      BY <2>1, <2>2, <2>3 DEF TypeOK, sessionVars, minuteVars
<1>2. ASSUME NEW t \in Threads, Booked(t) PROVE TypeOK'
  <2>1. Leave(t) \/ (\E step \in Booking : Stay(t, step))
      BY <1>2 DEF Booked, Transition, StartSession, SetID, SessionSummary,
         EndSession, ClearID, Booking
  <2>2. /\ pc' \in [Threads -> Steps]
        /\ target' \in [Threads -> BOOLEAN]
        /\ after' \in [Threads -> {"idle", "read", "command", "accumulate"}]
    <3>1. after[t] \in Steps /\ Booking \subseteq Steps
        BY DEF TypeOK, Steps
    <3> QED
        BY <2>1, <3>1 DEF Leave, Stay, Go, TypeOK
  <2>5. /\ rowID' \in [Threads -> SessionIDs \union {0}]
        /\ activeSessionID' \in SessionIDs \union {0}
        /\ openRows' \subseteq SessionIDs
    <3>0. /\ rowID \in [Threads -> SessionIDs \union {0}]
          /\ activeSessionID \in SessionIDs \union {0}
          /\ openRows \subseteq SessionIDs
        BY DEF TypeOK
    <3>1. CASE Transition(t)
        BY <3>0, <3>1 DEF Transition, Leave
    <3>2. CASE StartSession(t)
        BY <3>0, <3>2 DEF StartSession, Leave
    <3>3. CASE SetID(t)
        BY <3>0, <3>3 DEF SetID, Leave
    <3>4. CASE SessionSummary(t)
        BY <3>0, <3>4 DEF SessionSummary, Leave
    <3>5. CASE EndSession(t)
        BY <3>0, <3>5 DEF EndSession
    <3>6. CASE ClearID(t)
        BY <3>0, <3>6 DEF ClearID, Leave
    <3> QED
        BY <1>2, <3>1, <3>2, <3>3, <3>4, <3>5, <3>6 DEF Booked
  <2>3. charging' \in BOOLEAN /\ messy' \in BOOLEAN
      BY <1>2, Zenon DEF Booked, Transition, StartSession, SetID,
         SessionSummary, EndSession, ClearID, Settles, OthersBusy, TypeOK
  <2>4. UNCHANGED <<thisMinute, copied, minuteVars, modeVars, now>>
      BY <1>2 DEF Booked, Transition, StartSession, SetID, SessionSummary,
         EndSession, ClearID
  <2> QED
      BY <2>2, <2>3, <2>4, <2>5 DEF TypeOK, minuteVars, modeVars
<1>3. ASSUME NEW t \in Threads, Late(t) PROVE TypeOK'
  <2>1. pc' \in [Threads -> Steps]
    <3>1. \E step \in {"idle"} \union Flushing : Go(t, step)
        BY <1>3 DEF Late, Accumulate, Flush, InsertReading, Rollover, Flushing
    <3> QED
        BY <3>1 DEF Go, TypeOK, Steps
  <2>2. /\ thisMinute' \in [Threads -> Minutes]
        /\ currentMinute' \in Minutes \union {0}
    <3>0. /\ thisMinute \in [Threads -> Minutes] /\ now \in Minutes
          /\ currentMinute \in Minutes \union {0}
        BY DEF TypeOK
    <3>1. CASE Accumulate(t)
        BY <3>0, <3>1 DEF Accumulate
    <3>2. CASE Flush(t) \/ InsertReading(t)
        BY <3>0, <3>2 DEF Flush, InsertReading, minuteVars
    <3>3. CASE Rollover(t)
        BY <3>0, <3>3 DEF Rollover
    <3> QED
        BY <1>3, <3>1, <3>2, <3>3 DEF Late
  <2>3. accumulator' \subseteq Sample /\ saved' \subseteq accumulator'
    <3>1. CASE Accumulate(t)
        BY <3>1 DEF Accumulate, TypeOK
    <3>2. CASE Flush(t)
        BY <3>2 DEF Flush, TypeOK, minuteVars
    <3>3. CASE InsertReading(t)
        BY <3>3 DEF InsertReading, TypeOK
    <3>4. CASE Rollover(t)
        BY <3>4 DEF Rollover, TypeOK
    <3> QED
        BY <1>3, <3>1, <3>2, <3>3, <3>4 DEF Late
  <2>4. copied' \in [Threads -> [minute : Minutes \union {0},
                                 samples : SUBSET Sample]]
    <3>1. CASE Flush(t)
        BY <3>1 DEF Flush, TypeOK
    <3>2. CASE Rollover(t)
        BY <3>2 DEF Rollover, TypeOK
    <3>3. CASE Accumulate(t) \/ InsertReading(t)
        BY <3>3 DEF Accumulate, InsertReading, TypeOK
    <3> QED
        BY <1>3, <3>1, <3>2, <3>3 DEF Late
  <2>5. readings' \in [Minutes -> 0 .. MaxRows]
    <3>0. readings \in [Minutes -> 0 .. MaxRows]
        BY DEF TypeOK
    <3>1. CASE InsertReading(t)
        BY <3>0, <3>1 DEF InsertReading
    <3>2. CASE Accumulate(t) \/ Flush(t) \/ Rollover(t)
        BY <3>2 DEF Accumulate, Flush, Rollover, TypeOK, minuteVars
    <3> QED
        BY <1>3, <3>1, <3>2 DEF Late
  <2>6. dropped' \in BOOLEAN /\ torn' \in BOOLEAN
      BY <1>3, Zenon DEF Late, Accumulate, Flush, InsertReading, Rollover,
         OthersBusy, TypeOK, minuteVars
  <2>7. UNCHANGED <<target, after, rowID, sessionVars, modeVars, now>>
      BY <1>3 DEF Late, Accumulate, Flush, InsertReading, Rollover
  <2> QED
      BY <2>1, <2>2, <2>3, <2>4, <2>5, <2>6, <2>7
      DEF TypeOK, sessionVars, modeVars
<1>4. ASSUME NEW m \in {"auto", "manual"}, SetMode(m) PROVE TypeOK'
  <2>1. mode' \in {"auto", "manual"} /\ sawAuto' \in [Threads -> BOOLEAN]
      BY <1>4 DEF SetMode, TypeOK
  <2> QED
      BY <1>4, <2>1 DEF SetMode, TypeOK, tickVars, sessionVars, minuteVars
<1>5. CASE MinutePasses
    BY <1>5 DEF MinutePasses, TypeOK, tickVars, sessionVars, minuteVars, modeVars
<1>6. CASE UNCHANGED vars
    BY <1>6 DEF TypeOK, vars, tickVars, sessionVars, minuteVars, modeVars
<1> QED
    BY <1>1, <1>2, <1>3, <1>4, <1>5, <1>6, NextSplit DEF Outside

\* TypeOK holds in every reachable state, for any number of goroutines.
THEOREM TicksTyped == Spec => []TypeOK
<1>1. ASSUME Init PROVE TypeOK
  <2>1. pc \in [Threads -> Steps]
      BY <1>1 DEF Init, Steps
  <2>2. thisMinute \in [Threads -> Minutes] /\ now \in Minutes
      BY <1>1, TicksAssumption DEF Init, Minutes
  <2>3. /\ copied \in [Threads -> [minute : Minutes \union {0},
                                   samples : SUBSET Sample]]
        /\ readings \in [Minutes -> 0 .. MaxRows]
      BY <1>1, TicksAssumption DEF Init
  <2>4. target \in [Threads -> BOOLEAN] /\ sawAuto \in [Threads -> BOOLEAN]
      BY <1>1 DEF Init
  <2> QED
      BY <1>1, <2>1, <2>2, <2>3, <2>4 DEF Init, TypeOK
<1> QED
    BY <1>1, TypeStep, PTL DEF Spec

----------------------------------------------------------------------------
(* What every step leaves alone                                             *)

\* A step of a tick moves its own program counter only.
LEMMA OwnStep ==
    ASSUME TypeOK, NEW t \in Threads, Early(t) \/ Booked(t) \/ Late(t),
           NEW u \in Threads \ {t}
    PROVE  pc'[u] = pc[u] /\ after'[u] = after[u] /\ rowID'[u] = rowID[u]
<1>1. /\ pc \in [Threads -> Steps]
      /\ after \in [Threads -> {"idle", "read", "command", "accumulate"}]
      /\ rowID \in [Threads -> SessionIDs \union {0}]
    BY DEF TypeOK
<1>2. CASE Early(t)
    BY <1>1, <1>2 DEF Early, Begin, ReadFails, ClearError, NotChargeable,
       Decide, Command, Go, Call
<1>3. CASE Booked(t)
    BY <1>1, <1>3 DEF Booked, Transition, StartSession, SetID, SessionSummary,
       EndSession, ClearID, Leave, Stay, Go
<1>4. CASE Late(t)
    BY <1>1, <1>4 DEF Late, Accumulate, Flush, InsertReading, Rollover, Go
<1> QED
    BY <1>2, <1>3, <1>4

\* Outside transitionTo a tick leaves the session alone.
LEMMA SessionLeftAlone ==
    ASSUME TypeOK, NEW t \in Threads, Early(t) \/ Late(t)
    PROVE  /\ pc[t] \notin Booking /\ pc'[t] \notin Booking
           /\ rowID' = rowID
           /\ UNCHANGED sessionVars
<1>1. pc \in [Threads -> Steps]
    BY DEF TypeOK
<1>2. CASE Early(t)
    BY <1>1, <1>2 DEF Early, Begin, ReadFails, ClearError, NotChargeable,
       Decide, Command, Go, Call, Booking
<1>3. CASE Late(t)
    BY <1>1, <1>3 DEF Late, Accumulate, Flush, InsertReading, Rollover, Go,
       Booking
<1> QED
    BY <1>2, <1>3

\* Outside accumulateSample a tick leaves the minute alone.
LEMMA MinuteLeftAlone ==
    ASSUME TypeOK, NEW t \in Threads, Early(t) \/ Booked(t)
    PROVE  /\ pc[t] \notin Flushing /\ pc'[t] \notin Flushing
           /\ UNCHANGED <<thisMinute, copied, minuteVars, now>>
<1>1. /\ pc \in [Threads -> Steps]
      /\ after \in [Threads -> {"idle", "read", "command", "accumulate"}]
    BY DEF TypeOK
<1>2. CASE Early(t)
    BY <1>1, <1>2 DEF Early, Begin, ReadFails, ClearError, NotChargeable,
       Decide, Command, Go, Call, Flushing
<1>3. CASE Booked(t)
  <2>1. pc[t] \notin Flushing /\ UNCHANGED <<thisMinute, copied, minuteVars, now>>
      BY <1>3 DEF Booked, Transition, StartSession, SetID, SessionSummary,
         EndSession, ClearID, Flushing
  <2>2. Leave(t) \/ (\E step \in Booking : Stay(t, step))
      BY <1>3 DEF Booked, Transition, StartSession, SetID, SessionSummary,
         EndSession, ClearID, Booking
  <2> QED
      BY <1>1, <2>1, <2>2 DEF Leave, Stay, Go, Booking, Flushing
<1> QED
    BY <1>2, <1>3

----------------------------------------------------------------------------
(* The mode                                                                 *)

\* While the mode is auto every running tick has seen it, and a tick that
\* will send a command after its transition has seen it; only transitionTo
\* remembers where to return.
ModeInv ==
    /\ \A t \in Threads : mode = "auto" /\ pc[t] # "idle" => sawAuto[t]
    /\ \A t \in Threads : after[t] = "command" => sawAuto[t]
    /\ \A t \in Threads :
          pc[t] \notin {"transition"} \union Booking => after[t] = "idle"
    /\ CommandsFollowMode

LEMMA ModeStep == TypeOK /\ ModeInv /\ [Next]_vars => ModeInv'
<1> SUFFICES ASSUME TypeOK, ModeInv, [Next]_vars PROVE ModeInv'
    OBVIOUS
<1>0. /\ pc \in [Threads -> Steps] /\ sawAuto \in [Threads -> BOOLEAN]
      /\ after \in [Threads -> {"idle", "read", "command", "accumulate"}]
      /\ mode \in {"auto", "manual"}
    BY DEF TypeOK
<1>1. ASSUME NEW t \in Threads, Early(t) PROVE ModeInv'
  <2>1. CASE Begin(t)
      BY <1>0, <2>1 DEF Begin, Go, ModeInv, CommandsFollowMode, Booking
  <2>2. CASE ReadFails(t) \/ ClearError(t) \/ NotChargeable(t)
      BY <1>0, <2>2 DEF ReadFails, ClearError, NotChargeable, Call, Go,
         ModeInv, CommandsFollowMode, Booking, modeVars
  <2>3. CASE Decide(t)
      BY <1>0, <2>3 DEF Decide, Call, Go, ModeInv, CommandsFollowMode, Booking,
         modeVars
  <2>4. CASE Command(t)
      BY <1>0, <2>4 DEF Command, Call, Go, ModeInv, CommandsFollowMode, Booking,
         modeVars
  <2> QED
      BY <1>1, <2>1, <2>2, <2>3, <2>4 DEF Early
<1>2. ASSUME NEW t \in Threads, Booked(t) PROVE ModeInv'
  <2>1. /\ pc[t] \in {"transition"} \union Booking
        /\ UNCHANGED modeVars
        /\ Leave(t) \/ (\E step \in Booking : Stay(t, step))
      BY <1>2 DEF Booked, Transition, StartSession, SetID, SessionSummary,
         EndSession, ClearID, Booking
  <2>2. CASE Leave(t)
      BY <1>0, <2>1, <2>2 DEF Leave, Go, ModeInv, CommandsFollowMode, Booking,
         modeVars
  <2>3. ASSUME NEW step \in Booking, Stay(t, step) PROVE ModeInv'
      BY <1>0, <2>1, <2>3 DEF Stay, Go, ModeInv, CommandsFollowMode, Booking,
         modeVars
  <2> QED
      BY <2>1, <2>2, <2>3
<1>3. ASSUME NEW t \in Threads, Late(t) PROVE ModeInv'
  <2>1. /\ pc[t] \in {"accumulate"} \union Flushing
        /\ UNCHANGED <<after, modeVars>>
        /\ \E step \in {"idle"} \union Flushing : Go(t, step)
      BY <1>3 DEF Late, Accumulate, Flush, InsertReading, Rollover, Flushing
  <2> QED
      BY <1>0, <2>1 DEF Go, ModeInv, CommandsFollowMode, Booking, Flushing,
         modeVars
<1>4. CASE Outside
    BY <1>0, <1>4 DEF Outside, SetMode, MinutePasses, tickVars, modeVars,
       ModeInv, CommandsFollowMode
<1>5. CASE UNCHANGED vars
    BY <1>5 DEF vars, tickVars, modeVars, ModeInv, CommandsFollowMode
<1> QED
    BY <1>1, <1>2, <1>3, <1>4, <1>5, NextSplit

\* A tick that commands the car after a switch to manual mode had begun
\* before the switch: the single read of the mode in Tick is enough, with
\* any number of ticks under way.
THEOREM ModeObeyed == Spec => []CommandsFollowMode
<1>1. Init => ModeInv
    BY DEF Init, ModeInv, CommandsFollowMode
<1>2. ModeInv => CommandsFollowMode
    BY DEF ModeInv
<1> QED
    BY <1>1, <1>2, ModeStep, TicksTyped, PTL DEF Spec

----------------------------------------------------------------------------
(* The session                                                              *)

LEMMA RowsStep == TypeOK /\ RowsHaveOneOwner /\ [Next]_vars => RowsHaveOneOwner'
<1> SUFFICES ASSUME TypeOK, RowsHaveOneOwner, [Next]_vars
             PROVE  RowsHaveOneOwner'
    OBVIOUS
<1>0. /\ pc \in [Threads -> Steps] /\ openRows \subseteq SessionIDs
      /\ after \in [Threads -> {"idle", "read", "command", "accumulate"}]
      /\ rowID \in [Threads -> SessionIDs \union {0}]
      /\ 0 \notin SessionIDs
    BY TicksAssumption DEF TypeOK
<1>1. ASSUME NEW t \in Threads, Early(t) \/ Late(t) PROVE RowsHaveOneOwner'
    BY <1>1, SessionLeftAlone, OwnStep DEF RowsHaveOneOwner, Booking, sessionVars
<1>2. ASSUME NEW t \in Threads, Booked(t) PROVE RowsHaveOneOwner'
  <2>0. \A u \in Threads \ {t} : pc'[u] = pc[u] /\ rowID'[u] = rowID[u]
      BY <1>2, OwnStep
  <2>1. CASE Transition(t)
    <3>1. /\ pc'[t] # "setID" /\ UNCHANGED <<activeSessionID, openRows>>
          /\ rowID'[t] \in {rowID[t], 0}
        BY <1>0, <2>1 DEF Transition, Leave, Stay, Go
    <3> QED
        BY <1>0, <2>0, <3>1 DEF RowsHaveOneOwner
  <2>2. CASE StartSession(t)
    <3>1. CASE Leave(t) /\ UNCHANGED openRows
      <4>1. pc'[t] # "setID" /\ rowID'[t] = 0 /\ UNCHANGED activeSessionID
          BY <1>0, <2>2, <3>1 DEF StartSession, Leave, Go
      <4> QED
          BY <1>0, <2>0, <3>1, <4>1 DEF RowsHaveOneOwner
    <3>2. ASSUME NEW id \in SessionIDs \ (openRows \union {activeSessionID}
                                   \union {rowID[u] : u \in Threads}),
                 openRows' = openRows \union {id},
                 rowID' = [rowID EXCEPT ![t] = id]
          PROVE  RowsHaveOneOwner'
      <4>1. UNCHANGED activeSessionID
          BY <2>2 DEF StartSession
      <4> QED
          BY <1>0, <2>0, <3>2, <4>1 DEF RowsHaveOneOwner
    <3> QED
        BY <2>2, <3>1, <3>2 DEF StartSession
  <2>3. CASE SetID(t)
    <3>1. /\ pc[t] = "setID" /\ pc'[t] # "setID" /\ rowID'[t] = 0
          /\ activeSessionID' = rowID[t] /\ UNCHANGED openRows
        BY <1>0, <2>3 DEF SetID, Leave, Go
    <3> QED
        BY <1>0, <2>0, <3>1 DEF RowsHaveOneOwner
  <2>4. CASE SessionSummary(t)
    <3>1. /\ pc'[t] # "setID" /\ rowID'[t] \in {0, activeSessionID}
          /\ UNCHANGED <<activeSessionID, openRows>>
        BY <1>0, <2>4 DEF SessionSummary, Leave, Stay, Go
    <3> QED
        BY <1>0, <2>0, <3>1 DEF RowsHaveOneOwner
  <2>5. CASE EndSession(t)
    <3>1. /\ pc'[t] # "setID" /\ rowID' = rowID
          /\ UNCHANGED activeSessionID
          /\ openRows' \in {openRows, openRows \ {rowID[t]}}
        BY <1>0, <2>5 DEF EndSession, Stay, Go
    <3> QED
        BY <1>0, <2>0, <3>1 DEF RowsHaveOneOwner
  <2>6. CASE ClearID(t)
    <3>1. /\ pc'[t] # "setID" /\ rowID'[t] = 0 /\ activeSessionID' = 0
          /\ UNCHANGED openRows
        BY <1>0, <2>6 DEF ClearID, Leave, Go
    <3> QED
        BY <1>0, <2>0, <3>1 DEF RowsHaveOneOwner
  <2> QED
      BY <1>2, <2>1, <2>2, <2>3, <2>4, <2>5, <2>6 DEF Booked
<1>3. CASE Outside
    BY <1>3 DEF Outside, SetMode, MinutePasses, tickVars, sessionVars,
       RowsHaveOneOwner
<1>4. CASE UNCHANGED vars
    BY <1>4 DEF vars, tickVars, sessionVars, RowsHaveOneOwner
<1> QED
    BY <1>1, <1>2, <1>3, <1>4, NextSplit

\* However transitions overlap, a row of charge_sessions becomes the active
\* one through the tick that opened it only.
THEOREM RowsOwned == Spec => []RowsHaveOneOwner
<1>1. Init => RowsHaveOneOwner
    BY DEF Init, RowsHaveOneOwner
<1> QED
    BY <1>1, RowsStep, TicksTyped, PTL DEF Spec

\* What transitionTo relies on while it keeps the books without the lock,
\* unless transitions overlapped: it is alone, the state is the one it set,
\* a session to start finds none active, and the one to end is open.
Undisturbed ==
    ~messy =>
      /\ \A t, u \in Threads : pc[t] \in Booking /\ pc[u] \in Booking => t = u
      /\ \A t \in Threads : pc[t] \in {"startSession", "setID"} =>
            charging /\ activeSessionID = 0
      /\ \A t \in Threads : pc[t] \in {"summary", "endSession", "clearID"} =>
            ~charging
      /\ OverlapHeals

LEMMA UndisturbedStep ==
    TypeOK /\ RowsHaveOneOwner /\ Undisturbed /\ [Next]_vars => Undisturbed'
<1> SUFFICES ASSUME TypeOK, RowsHaveOneOwner, Undisturbed, [Next]_vars
             PROVE  Undisturbed'
    OBVIOUS
<1>0. /\ pc \in [Threads -> Steps] /\ charging \in BOOLEAN /\ messy \in BOOLEAN
      /\ after \in [Threads -> {"idle", "read", "command", "accumulate"}]
      /\ rowID \in [Threads -> SessionIDs \union {0}]
      /\ target \in [Threads -> BOOLEAN]
    BY DEF TypeOK
<1>1. ASSUME NEW t \in Threads, Early(t) \/ Late(t) PROVE Undisturbed'
    BY <1>1, SessionLeftAlone, OwnStep
    DEF Undisturbed, OverlapHeals, Busy, Booking, sessionVars
<1>2. ASSUME NEW t \in Threads, Booked(t) PROVE Undisturbed'
  <2>0. \A u \in Threads \ {t} : pc'[u] = pc[u]
      BY <1>2, OwnStep
  <2>1. CASE Transition(t)
    <3>1. CASE target[t] = charging
      <4>1. pc[t] \notin Booking /\ pc'[t] \notin Booking
          BY <1>0, <2>1, <3>1 DEF Transition, Leave, Go, Booking
      <4>2. charging' = charging /\ messy' = messy
          BY <1>0, <2>1, <3>1 DEF Transition
      <4>3. UNCHANGED <<activeSessionID, openRows>>
          BY <2>1 DEF Transition
      <4> QED
          BY <2>0, <4>1, <4>2, <4>3
          DEF Undisturbed, OverlapHeals, Busy, Booking
    <3>2. CASE target[t] # charging
      <4>1. pc[t] = "transition"
            /\ pc'[t] = (IF target[t] THEN "startSession" ELSE "summary")
          BY <1>0, <2>1, <3>2 DEF Transition, Stay, Go
      <4>2. ~messy' => ~messy /\ ~OthersBusy(t, Booking)
          BY <2>1, <3>2 DEF Transition
      <4>3. charging' = target[t] /\ UNCHANGED <<activeSessionID, openRows>>
          BY <2>1 DEF Transition
      <4>4. ASSUME ~messy'
            PROVE  ~Busy(Booking) /\ (target[t] => activeSessionID = 0)
        <5>1. ~Busy(Booking)
            BY <4>1, <4>2, <4>4 DEF Busy, OthersBusy, Booking
        <5> QED
            BY <1>0, <3>2, <4>2, <4>4, <5>1 DEF Undisturbed, OverlapHeals
      <4> QED
          BY <1>0, <2>0, <4>1, <4>3, <4>4
          DEF Undisturbed, OverlapHeals, Busy, Booking
    <3> QED
        BY <3>1, <3>2
  <2>2. CASE StartSession(t)
    <3>1. /\ pc[t] = "startSession" /\ pc'[t] \notin Booking \ {"setID"}
          /\ UNCHANGED <<charging, activeSessionID, messy>>
        BY <1>0, <2>2 DEF StartSession, Leave, Stay, Go, Booking
    <3> QED
        BY <2>0, <3>1 DEF Undisturbed, OverlapHeals, Busy, Booking
  <2>3. CASE SetID(t)
    <3>1. /\ pc[t] = "setID" /\ pc'[t] \notin Booking
          /\ activeSessionID' = rowID[t] /\ rowID[t] \in openRows
          /\ UNCHANGED <<charging, openRows>>
        BY <1>0, <2>3 DEF SetID, Leave, Go, Booking, RowsHaveOneOwner
    <3>2. ~messy' => ~messy \/ (charging /\ ~OthersBusy(t, Booking))
        BY <2>3 DEF SetID, Settles
    <3> QED
        BY <2>0, <3>1, <3>2
        DEF Undisturbed, OverlapHeals, Busy, OthersBusy, Booking
  <2>4. CASE SessionSummary(t)
    <3>1. CASE activeSessionID = 0
      <4>1. /\ pc[t] = "summary" /\ pc'[t] \notin Booking
            /\ UNCHANGED <<charging, activeSessionID, openRows>>
          BY <1>0, <2>4, <3>1 DEF SessionSummary, Leave, Go, Booking
      <4>2. ~messy' => ~messy \/ ~OthersBusy(t, Booking)
          BY <2>4 DEF SessionSummary, Settles
      <4> QED
          BY <2>0, <3>1, <4>1, <4>2
          DEF Undisturbed, OverlapHeals, Busy, OthersBusy, Booking
    <3>2. CASE activeSessionID # 0
      <4>1. /\ pc[t] = "summary" /\ pc'[t] = "endSession"
            /\ UNCHANGED <<charging, activeSessionID, openRows>>
          BY <1>0, <2>4, <3>2 DEF SessionSummary, Stay, Go
      <4>2. ~messy' => ~messy
          BY <2>4, <3>2 DEF SessionSummary, Settles
      <4> QED
          BY <2>0, <4>1, <4>2 DEF Undisturbed, OverlapHeals, Busy, Booking
    <3> QED
        BY <3>1, <3>2
  <2>5. CASE EndSession(t)
    <3>1. /\ pc[t] = "endSession" /\ pc'[t] = "clearID"
          /\ UNCHANGED <<charging, activeSessionID, messy>>
        BY <1>0, <2>5 DEF EndSession, Stay, Go
    <3> QED
        BY <2>0, <3>1 DEF Undisturbed, OverlapHeals, Busy, Booking
  <2>6. CASE ClearID(t)
    <3>1. /\ pc[t] = "clearID" /\ pc'[t] \notin Booking
          /\ activeSessionID' = 0 /\ UNCHANGED charging
        BY <1>0, <2>6 DEF ClearID, Leave, Go, Booking
    <3>2. ~messy' => ~messy \/ ~OthersBusy(t, Booking)
        BY <2>6 DEF ClearID, Settles
    <3> QED
        BY <2>0, <3>1, <3>2
        DEF Undisturbed, OverlapHeals, Busy, OthersBusy, Booking
  <2> QED
      BY <1>2, <2>1, <2>2, <2>3, <2>4, <2>5, <2>6 DEF Booked
<1>3. CASE Outside
    BY <1>3 DEF Outside, SetMode, MinutePasses, tickVars, sessionVars,
       Undisturbed, OverlapHeals, Busy
<1>4. CASE UNCHANGED vars
    BY <1>4 DEF vars, tickVars, sessionVars, Undisturbed, OverlapHeals, Busy
<1> QED
    BY <1>1, <1>2, <1>3, <1>4, NextSplit

\* After overlapping transitions, the next one that ends alone, as the state
\* wants the session, leaves the books as atomic ticks would.
THEOREM OverlapsHeal == Spec => []OverlapHeals
<1>1. Init => Undisturbed
    BY DEF Init, Undisturbed, OverlapHeals, Booking
<1>2. Undisturbed => OverlapHeals
    BY DEF Undisturbed, OverlapHeals
<1> QED
    BY <1>1, <1>2, UndisturbedStep, RowsOwned, TicksTyped, PTL DEF Spec

----------------------------------------------------------------------------
(* The minute                                                               *)

LEMMA PureStep == TypeOK /\ ReadingsPure /\ [Next]_vars => ReadingsPure'
<1> SUFFICES ASSUME TypeOK, ReadingsPure, [Next]_vars PROVE ReadingsPure'
    OBVIOUS
<1>0. /\ pc \in [Threads -> Steps] /\ now \in Minutes
      /\ copied \in [Threads -> [minute : Minutes \union {0},
                                 samples : SUBSET Sample]]
      /\ accumulator \subseteq Sample
      /\ 0 \notin Minutes
    BY DEF TypeOK, Minutes
<1>1. ASSUME NEW t \in Threads, Early(t) \/ Booked(t) PROVE ReadingsPure'
    BY <1>1, MinuteLeftAlone, OwnStep DEF ReadingsPure, Flushing, minuteVars
<1>2. ASSUME NEW t \in Threads, Late(t) PROVE ReadingsPure'
  <2>0. \A u \in Threads \ {t} : pc'[u] = pc[u]
      BY <1>2, OwnStep
  <2>1. CASE Accumulate(t)
    <3>1. \A s \in accumulator' : s.at = currentMinute'
      <4>1. currentMinute = 0 => accumulator = {}
          BY <1>0 DEF ReadingsPure, Sample
      <4> QED
          BY <1>0, <2>1, <4>1 DEF Accumulate, ReadingsPure
    <3>2. pc'[t] # "insert" /\ copied' = copied
        BY <1>0, <2>1 DEF Accumulate, Go
    <3> QED
        BY <2>0, <3>1, <3>2 DEF ReadingsPure
  <2>2. CASE Flush(t)
    <3>1. /\ UNCHANGED <<accumulator, currentMinute>>
          /\ \A u \in Threads \ {t} : copied'[u] = copied[u]
          /\ copied'[t] = [minute |-> currentMinute, samples |-> accumulator]
        BY <1>0, <2>2 DEF Flush, minuteVars
    <3> QED
        BY <2>0, <3>1 DEF ReadingsPure
  <2>3. CASE InsertReading(t)
    <3>1. /\ UNCHANGED <<accumulator, currentMinute, copied>>
          /\ pc'[t] # "insert"
        BY <1>0, <2>3 DEF InsertReading, Go
    <3> QED
        BY <2>0, <3>1 DEF ReadingsPure
  <2>4. CASE Rollover(t)
    <3>1. /\ \A s \in accumulator' : s.at = currentMinute'
          /\ \A u \in Threads \ {t} : copied'[u] = copied[u]
          /\ pc'[t] # "insert"
        BY <1>0, <2>4 DEF Rollover, Go
    <3> QED
        BY <2>0, <3>1 DEF ReadingsPure
  <2> QED
      BY <1>2, <2>1, <2>2, <2>3, <2>4 DEF Late
<1>3. CASE Outside
    BY <1>3 DEF Outside, SetMode, MinutePasses, tickVars, minuteVars, ReadingsPure
<1>4. CASE UNCHANGED vars
    BY <1>4 DEF vars, tickVars, minuteVars, ReadingsPure
<1> QED
    BY <1>1, <1>2, <1>3, <1>4, NextSplit

\* No sample is averaged into the row of another minute, although the minute
\* is flushed without the lock and a slow tick may set an earlier one again.
THEOREM SamplesPure == Spec => []ReadingsPure
<1>1. Init => ReadingsPure
    BY DEF Init, ReadingsPure
<1> QED
    BY <1>1, PureStep, TicksTyped, PTL DEF Spec

\* The minute of the controller and of every flush are in the past, and a
\* flush that overlaps with no other is for a minute that is over.  Its row
\* has not been written before the insert, and holds every sample after it.
MinuteInv ==
    /\ currentMinute <= now
    /\ \A t \in Threads : thisMinute[t] <= now
    /\ ~torn =>
         /\ \A t, u \in Threads : pc[t] \in Flushing /\ pc[u] \in Flushing => t = u
         /\ \A t \in Threads : pc[t] \in Flushing =>
               currentMinute # 0 /\ currentMinute < thisMinute[t]
         /\ \A m \in Minutes : currentMinute < m => readings[m] = 0
         /\ ~(\E t \in Threads : pc[t] = "rollover") =>
               saved = {} /\ \A m \in Minutes : m = currentMinute => readings[m] = 0
         /\ \A t \in Threads : pc[t] = "insert" =>
               copied[t] = [minute |-> currentMinute, samples |-> accumulator]
         /\ \A t \in Threads : pc[t] = "rollover" => accumulator \subseteq saved
         /\ MinuteBooked

LEMMA MinuteStep == TypeOK /\ MinuteInv /\ [Next]_vars => MinuteInv'
<1> SUFFICES ASSUME TypeOK, MinuteInv, [Next]_vars PROVE MinuteInv'
    OBVIOUS
<1>0. /\ pc \in [Threads -> Steps] /\ now \in Minutes
      /\ thisMinute \in [Threads -> Minutes]
      /\ currentMinute \in Minutes \union {0}
      /\ readings \in [Minutes -> 0 .. MaxRows]
      /\ saved \subseteq accumulator
      /\ torn \in BOOLEAN /\ dropped \in BOOLEAN
      /\ Minutes \subseteq Nat \ {0}
      /\ copied \in [Threads -> [minute : Minutes \union {0},
                                 samples : SUBSET Sample]]
    BY TicksAssumption DEF TypeOK, Minutes
<1>a. /\ now \in Int /\ currentMinute \in Int
      /\ \A t \in Threads : thisMinute[t] \in Int
      /\ \A m \in Minutes : m \in Int /\ m > 0
  <2>1. \A m \in Minutes : m \in Int /\ m > 0
      BY TicksAssumption DEF Minutes
  <2>2. \A t \in Threads : thisMinute[t] \in Minutes
      BY <1>0
  <2>3. now \in Minutes /\ currentMinute \in Minutes \union {0}
      BY <1>0
  <2> QED
      BY <2>1, <2>2, <2>3
<1>b. currentMinute <= now /\ \A t \in Threads : thisMinute[t] <= now
    BY DEF MinuteInv
<1>1. ASSUME NEW t \in Threads, Early(t) \/ Booked(t) PROVE MinuteInv'
    BY <1>1, MinuteLeftAlone, OwnStep
    DEF MinuteInv, MinuteBooked, Flushing, minuteVars
<1>2. ASSUME NEW t \in Threads, Late(t) PROVE MinuteInv'
  <2>0. /\ \A u \in Threads \ {t} : pc'[u] = pc[u]
        /\ UNCHANGED now
      BY <1>2, OwnStep DEF Late, Accumulate, Flush, InsertReading, Rollover
  <2>1. CASE Accumulate(t)
    <3>1. CASE currentMinute \in {0, now}
      <4>1. /\ currentMinute' = now /\ UNCHANGED <<readings, saved, dropped, torn>>
            /\ pc[t] = "accumulate" /\ pc'[t] = "idle"
            /\ UNCHANGED <<thisMinute, copied>>
          BY <1>0, <2>1, <3>1 DEF Accumulate, Go
      <4>2. ASSUME ~torn PROVE \A u \in Threads : pc[u] \notin Flushing
        <5>1. \A u \in Threads : pc[u] \in Flushing =>
                 currentMinute # 0 /\ currentMinute < thisMinute[u]
            BY <4>2 DEF MinuteInv
        <5> QED
            BY <1>a, <1>b, <3>1, <5>1
      <4>3. \A u \in Threads : pc'[u] \in Flushing => pc[u] \in Flushing
          BY <2>0, <4>1 DEF Flushing
      <4>4. ASSUME ~torn
            PROVE  saved = {} /\ \A m \in Minutes : now <= m => readings[m] = 0
        <5>1. ~(\E u \in Threads : pc[u] = "rollover")
            BY <4>2, <4>4 DEF Flushing
        <5>2. \A m \in Minutes : m = currentMinute \/ currentMinute < m
                                 => readings[m] = 0
            BY <4>4, <5>1 DEF MinuteInv
        <5>3. \A m \in Minutes : now <= m => m = currentMinute \/ currentMinute < m
            BY <1>a, <1>b, <3>1
        <5> QED
            BY <4>4, <5>1, <5>2, <5>3 DEF MinuteInv
      <4>5. now <= now /\ \A m \in Minutes : now < m => now <= m
          BY <1>0
      <4>6. \A u \in Threads : thisMinute'[u] <= now
          BY <4>1 DEF MinuteInv
      <4>7. ASSUME ~torn PROVE \A u \in Threads : pc'[u] \notin Flushing
          BY <4>2, <4>3, <4>7
      <4>8. ASSUME ~torn PROVE ~dropped /\ \A m \in Minutes : readings[m] <= 1
          BY <4>8 DEF MinuteInv, MinuteBooked
      <4> QED
          BY <2>0, <4>1, <4>4, <4>5, <4>6, <4>7, <4>8
          DEF MinuteInv, MinuteBooked, Flushing
    <3>2. CASE currentMinute \notin {0, now}
      <4>1. /\ currentMinute' = currentMinute /\ pc[t] = "accumulate"
            /\ pc'[t] = "flush"
            /\ torn' = (torn \/ OthersBusy(t, Flushing))
            /\ thisMinute' = [thisMinute EXCEPT ![t] = now]
            /\ UNCHANGED <<accumulator, copied, readings, saved, dropped>>
          BY <1>0, <2>1, <3>2 DEF Accumulate, Go
      <4>2. ASSUME ~torn' PROVE ~torn /\ \A u \in Threads : pc[u] \notin Flushing
          BY <4>1, <4>2 DEF OthersBusy, Flushing
      <4>3. /\ currentMinute' <= now' /\ \A u \in Threads : thisMinute'[u] <= now'
            /\ currentMinute < now
          BY <1>0, <1>a, <1>b, <2>0, <3>2, <4>1
      <4>4. ASSUME ~torn'
            PROVE  \A u \in Threads : pc'[u] \in Flushing => u = t /\ pc'[u] = "flush"
          BY <2>0, <4>1, <4>2, <4>4
      <4>5. ASSUME ~torn'
            PROVE  /\ saved = {}
                   /\ \A m \in Minutes :
                         m = currentMinute \/ currentMinute < m => readings[m] = 0
        <5>1. ~(\E u \in Threads : pc[u] = "rollover")
            BY <4>2, <4>5 DEF Flushing
        <5> QED
            BY <4>2, <4>5, <5>1 DEF MinuteInv
      <4>6. ASSUME ~torn' PROVE ~dropped /\ \A m \in Minutes : readings[m] <= 1
          BY <4>2, <4>6 DEF MinuteInv, MinuteBooked
      <4>7. currentMinute # 0 /\ thisMinute'[t] = now
          BY <1>0, <3>2, <4>1
      <4> QED
          BY <2>0, <4>1, <4>3, <4>4, <4>5, <4>6, <4>7
          DEF MinuteInv, MinuteBooked, Flushing
    <3> QED
        BY <3>1, <3>2
  <2>2. CASE Flush(t)
    <3>1. /\ pc[t] = "flush"
          /\ pc'[t] = (IF accumulator = {} THEN "rollover" ELSE "insert")
          /\ copied'[t] = [minute |-> currentMinute, samples |-> accumulator]
          /\ \A u \in Threads \ {t} : copied'[u] = copied[u]
          /\ UNCHANGED <<currentMinute, accumulator, readings, saved, dropped,
                         torn, thisMinute>>
        BY <1>0, <2>2 DEF Flush, Go, minuteVars
    <3> QED
        BY <1>0, <2>0, <3>1 DEF MinuteInv, MinuteBooked, Flushing
  <2>3. CASE InsertReading(t)
    <3>1. /\ pc[t] = "insert" /\ pc'[t] = "rollover"
          /\ UNCHANGED <<currentMinute, accumulator, dropped, thisMinute, copied>>
        BY <1>0, <2>3 DEF InsertReading, Go
    <3>2. ASSUME ~torn'
          PROVE  /\ ~torn
                 /\ saved' = saved \union (copied[t].samples \intersect accumulator)
                 /\ readings' = [readings EXCEPT ![copied[t].minute] =
                                      IF @ < MaxRows THEN @ + 1 ELSE @]
        BY <2>3, <3>2 DEF InsertReading
    <3>3. ASSUME ~torn'
          PROVE  /\ copied[t] = [minute |-> currentMinute, samples |-> accumulator]
                 /\ currentMinute \in Minutes /\ readings[currentMinute] = 0
                 /\ \A u \in Threads \ {t} : pc[u] \notin Flushing
      <4>1. ~(\E u \in Threads : pc[u] = "rollover")
          BY <3>1, <3>2, <3>3 DEF MinuteInv, Flushing
      <4> QED
          BY <1>0, <3>1, <3>2, <3>3, <4>1 DEF MinuteInv, Flushing
    <3>4. ASSUME ~torn'
          PROVE  /\ accumulator \subseteq saved'
                 /\ \A m \in Minutes :
                       /\ m # currentMinute => readings'[m] = readings[m]
                       /\ m = currentMinute => readings'[m] <= 1
        BY <1>0, <3>2, <3>3, <3>4
    <3> QED
        BY <1>0, <2>0, <3>1, <3>2, <3>3, <3>4 DEF MinuteInv, MinuteBooked, Flushing
  <2>4. CASE Rollover(t)
    <3>1. /\ pc[t] = "rollover" /\ pc'[t] = "idle"
          /\ currentMinute' = thisMinute[t] /\ saved' = {}
          /\ dropped' = (dropped \/ ~(accumulator \subseteq saved))
          /\ UNCHANGED <<readings, torn>>
          /\ thisMinute' = [thisMinute EXCEPT ![t] = 1]
        BY <1>0, <2>4 DEF Rollover, Go
    <3>2. ASSUME ~torn
          PROVE  /\ \A u \in Threads \ {t} : pc[u] \notin Flushing
                 /\ accumulator \subseteq saved /\ currentMinute < thisMinute[t]
        BY <3>1, <3>2 DEF MinuteInv, Flushing
    <3> QED
        BY <1>0, <2>0, <3>1, <3>2 DEF MinuteInv, MinuteBooked, Flushing
  <2> QED
      BY <1>2, <2>1, <2>2, <2>3, <2>4 DEF Late
<1>3. CASE Outside
  <2>1. now' \in {now, now + 1} /\ UNCHANGED <<tickVars, minuteVars>>
      BY <1>3 DEF Outside, SetMode, MinutePasses
  <2>2. /\ UNCHANGED <<pc, thisMinute, copied, currentMinute, accumulator,
                       readings, saved, dropped, torn>>
        /\ currentMinute <= now' /\ \A t \in Threads : thisMinute[t] <= now'
      BY <1>a, <1>b, <2>1 DEF tickVars, minuteVars
  <2> QED
      BY <2>2 DEF MinuteInv, MinuteBooked
<1>4. CASE UNCHANGED vars
    BY <1>4 DEF vars, tickVars, minuteVars, MinuteInv, MinuteBooked
<1> QED
    BY <1>1, <1>2, <1>3, <1>4, NextSplit

\* A minute has one row at most, and no sample is lost, unless flushes overlap
\* or the store refuses a row.
THEOREM MinutesBooked == Spec => []MinuteBooked
<1>1. ASSUME Init PROVE MinuteInv
  <2>1. currentMinute = 0 /\ now = 1 /\ thisMinute = [t \in Threads |-> 1]
      BY <1>1 DEF Init
  <2>2. \A t \in Threads : pc[t] = "idle"
      BY <1>1 DEF Init
  <2>3. saved = {} /\ ~dropped /\ \A m \in Minutes : readings[m] = 0
      BY <1>1 DEF Init
  <2>4. \A m \in Minutes : readings[m] <= 1
      BY <2>3
  <2>5. currentMinute <= now /\ \A t \in Threads : thisMinute[t] <= now
      BY <2>1
  <2> QED
      BY <2>2, <2>3, <2>4, <2>5 DEF MinuteInv, MinuteBooked, Flushing
<1>2. MinuteInv => MinuteBooked
    BY DEF MinuteInv, MinuteBooked
<1> QED
    BY <1>1, <1>2, MinuteStep, TicksTyped, PTL DEF Spec
=============================================================================
