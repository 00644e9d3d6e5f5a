------------------------------ MODULE ApiUsage ------------------------------
(***************************************************************************)
(* The count of Tesla API calls of a billing month: the tracker of the     *)
(* client, the snapshots that the controller stores every minute, and      *)
(* their restoration at the start and after the activation of a client,    *)
(* with the correction by TESLA_USAGE_BASELINE.                            *)
(*                                                                         *)
(* The categories of calls are counted alike, so one stands for all.  The  *)
(* clock counts instants: several to a minute, several minutes to a month. *)
(* The figures of a baseline are what Tesla had billed at its time.  Tesla *)
(* bills a call at the instant at which it is counted.  One activation is  *)
(* under way at a time; those that overlap are the subject of TeslaTokens. *)
(***************************************************************************)
EXTENDS Integers, FiniteSets

CONSTANTS
    Minute,       \* instants in a minute
    Month,        \* instants in a billing month
    Retention,    \* instants that the store keeps
    Readings,     \* bound: instants of the figures on Tesla's dashboard
    CarryOver,    \* counts an earlier version may have stored, too high perhaps
    MaxRestarts,  \* bound: starts of the process
    MaxTime,      \* bound: the last instant
    MaxCalls,     \* bound: calls billed in a month
    MaxCount      \* bound: the counter

ASSUME UsageAssumption ==
    /\ {Minute, Month, Retention} \subseteq Nat \ {0}
    /\ {MaxRestarts, MaxTime, MaxCalls, MaxCount} \subseteq Nat
    /\ Month % Minute = 0 /\ Minute <= MaxTime
    /\ CarryOver \subseteq 0 .. MaxCount
    /\ Readings \subseteq 0 .. MaxTime

VARIABLES
    vehicle,        \* what ActivatingController.current() is
    tracker,        \* APIUsageTracker of the client
    currentMinute,  \* Controller.currentMinute
    baseline,       \* Config.TeslaUsageBaseline
    activation,     \* how far SetRefreshToken is
    snapshots,      \* table api_usage_snapshots
    events,         \* events of type api_usage_baseline
    cutoff,         \* of the Prune under way: rows before it are deleted
    restarts,       \* starts of the process so far
    now,            \* external: the clock
    billed,         \* external: calls that Tesla billed this month
    billedAt,       \* external: what Tesla had billed at each instant
    \* History, which only the properties read
    inflated,       \* an earlier version's count of this month is uncorrected
    unrestored,     \* the counter of this process was not restored
    forgotten,      \* events pruned while rows before them may be left
    disturbed       \* the stored counts of this month are not comparable

procVars == <<vehicle, tracker, currentMinute, baseline, activation, cutoff,
              restarts>>
storeVars == <<snapshots, events>>
teslaVars == <<now, billed, billedAt>>
histVars == <<inflated, unrestored, forgotten, disturbed>>
vars == <<procVars, storeVars, teslaVars, histVars>>

Times == 0 .. MaxTime
Counts == 0 .. MaxCount
Never == -1
NoBaseline == [at |-> Never, calls |-> 0]
Idle == [step |-> "none", calls |-> 0, at |-> 0]

MonthStart(t) == t - (t % Month)

\* Mutant: up to the end of the minute.
RoundUp(t) == t + Minute - (t % Minute)

Truncate(t) == t - (t % Minute)

SameMonth(t) == t # Never /\ MonthStart(t) = MonthStart(now)

----------------------------------------------------------------------------
(* The tracker                                                              *)

NewTracker == [calls |-> 0, monthStart |-> MonthStart(now)]

resetIfNewMonth ==
    IF MonthStart(now) > tracker.monthStart THEN NewTracker ELSE tracker

\* What Snapshot reports.
Count == resetIfNewMonth.calls

\* Mutant: the month of the restored counts is not looked at.
SetCountsAnyMonth(calls, monthStart) ==
    tracker' = [calls |-> calls, monthStart |-> MonthStart(now)]

SetCounts(calls, monthStart) ==
    tracker' = IF monthStart < MonthStart(now) THEN tracker
               ELSE [calls |-> calls, monthStart |-> MonthStart(now)]

\* recordBillableResponse, of any category.
Record ==
    /\ vehicle = "client" /\ billed < MaxCalls /\ Count < MaxCount
    /\ billed' = billed + 1
    /\ tracker' = [resetIfNewMonth EXCEPT !.calls = @ + 1]
    /\ UNCHANGED <<vehicle, currentMinute, baseline, activation, cutoff, restarts,
                   storeVars, now, billedAt, histVars>>

\* The corrections that are marked, or whose mark was pruned without the rows
\* before it.
Marked == events \union forgotten

\* Those of this month.
Marks == {e \in Marked : SameMonth(e.at)}

\* One of them is not the one that the configuration names.
Reconfigured == \E e \in Marks : e.baseline # baseline

\* The rows of this month that are later than its correction.
Fresh ==
    {s \in snapshots : MonthStart(now) <= s.at /\ \A e \in Marks : e.at < s.at}

----------------------------------------------------------------------------
(* The snapshot of every minute                                             *)

\* accumulateSample when the minute is over, with flushMinuteAverage: the
\* count of this instant is stored under the minute that is over.  An
\* unavailable controller has no count.
Sample ==
    /\ currentMinute # Truncate(now)
    /\ currentMinute' = Truncate(now)
    /\ IF currentMinute = Never \/ vehicle = "unavailable"
       THEN UNCHANGED <<tracker, snapshots, disturbed>>
       ELSE /\ tracker' = resetIfNewMonth
            /\ \/ /\ snapshots' = snapshots \union
                                   {[at |-> currentMinute, calls |-> Count]}
                  /\ disturbed' = (disturbed \/ unrestored \/ Reconfigured)
               \/ disturbed' = TRUE /\ UNCHANGED snapshots
    /\ UNCHANGED <<vehicle, baseline, activation, cutoff, restarts, events,
                   teslaVars, inflated, unrestored, forgotten>>

----------------------------------------------------------------------------
(* Prune, in one goroutine of main: two statements, each on its own         *)

Kept(rows, limit) == {r \in rows : r.at >= limit}

\* DELETE FROM events, after the tables that do not matter here.  A Prune that
\* finds nothing to delete changes nothing.
Prune ==
    /\ cutoff = Never
    /\ \E r \in events \union snapshots : r.at < now - Retention
    /\ cutoff' = now - Retention
    /\ events' = Kept(events, cutoff')
    /\ forgotten' = forgotten \union (events \ events')
    /\ UNCHANGED <<vehicle, tracker, currentMinute, baseline, activation, restarts,
                   snapshots, teslaVars, inflated, unrestored, disturbed>>

\* DELETE FROM api_usage_snapshots.
PruneSnapshots ==
    /\ cutoff # Never /\ cutoff' = Never
    /\ snapshots' = Kept(snapshots, cutoff)
    /\ forgotten' = {}
    /\ UNCHANGED <<vehicle, tracker, currentMinute, baseline, activation, restarts,
                   events, teslaVars, inflated, unrestored>>
    /\ disturbed' = (disturbed \/ (Reconfigured /\ Marks' # Marks))

\* Or it is refused, or cancelled by the end of the process.
PruneFails ==
    /\ cutoff # Never /\ cutoff' = Never
    /\ UNCHANGED <<vehicle, tracker, currentMinute, baseline, activation, restarts,
                   storeVars, teslaVars, histVars>>

----------------------------------------------------------------------------
(* LoadAPIUsage                                                             *)

QueryAPIUsage(from) == {s \in snapshots : from <= s.at /\ s.at <= now}

\* Mutant: the last row counts, not the highest.
IsLatest(rows, n) ==
    IF rows = {} THEN n = 0
    ELSE \E s \in rows : n = s.calls /\ \A r \in rows : r.at <= s.at

\* n is the maximum over the rows, starting from 0.
IsPeak(rows, n) ==
    /\ n = 0 \/ \E s \in rows : n = s.calls
    /\ \A s \in rows : s.calls <= n

\* The baseline b concerns this billing month.
InForce(b) == SameMonth(b.at) /\ b.at <= now

\* baselineAppliedAt: the times of the events that mark it.
AppliedAt(b) == {e.at : e \in {f \in events : f.baseline = b /\ SameMonth(f.at)}}

\* The last row at or before the baseline, or the first one after it; rows of
\* the same second come in any order.
References(b, rows) ==
    LET before == {s \in rows : s.at <= b.at}
    IN  IF before # {}
        THEN {s \in before : \A r \in before : r.at <= s.at}
        ELSE {s \in rows : \A r \in rows : s.at <= r.at}

\* The baseline b is applied: a snapshot and then the event that marks it,
\* which the store may refuse.  It may be applied already, its mark forgotten.
applyBaseline(b, failed, calls) ==
    LET rows == QueryAPIUsage(MonthStart(now))
        none == [at |-> Never, calls |-> 0]
    IN  \E ref \in IF rows = {} THEN {none} ELSE References(b, rows),
           peak \in Counts :
          /\ IsPeak({s \in rows : s.at > b.at} \union {ref}, peak)
          /\ calls = b.calls + (peak - ref.calls)
          /\ snapshots' = snapshots \union {[at |-> now, calls |-> calls]}
          /\ events' = IF failed THEN events
                       ELSE events \union {[baseline |-> b, at |-> now]}
          /\ inflated' = (inflated /\ failed)
          /\ disturbed' = (disturbed \/ failed \/ \E e \in Marks : e.baseline = b)

\* The counts to restore, with the baseline b applied the first time.  Without
\* rows nothing is found; an error of the store restores nothing.
LoadAPIUsage(b, failed, found, calls) ==
    \/ /\ InForce(b) /\ AppliedAt(b) = {}
       /\ applyBaseline(b, failed, calls)
       /\ found = ~failed
    \/ \E from \in IF InForce(b) THEN AppliedAt(b) ELSE {MonthStart(now)} :
          /\ failed = FALSE
          /\ found = (QueryAPIUsage(from) # {})
          /\ IsPeak(QueryAPIUsage(from), calls)
          /\ UNCHANGED <<storeVars, inflated, disturbed>>
    \/ /\ failed = TRUE /\ found = FALSE /\ calls = 0
       /\ UNCHANGED <<storeVars, inflated, disturbed>>

----------------------------------------------------------------------------
(* The history of the counts                                                *)

\* Mutant: the buckets are not rounded up.
bucketRoundedDown(span, maxPoints) ==
    IF span \div maxPoints = 0 THEN 1 ELSE span \div maxPoints

\* The length of a bucket of the history.
bucketSecs(span, maxPoints) == span \div maxPoints + 1

\* The times of the rows that SampleAPIUsage returns: of each bucket the last.
\* The first query finds the span of the rows, and the second the rows; the
\* quotient of what precedes the span is rounded towards zero.
SampleAPIUsage(span, times, maxPoints) ==
    LET first == CHOOSE t \in span : \A u \in span : t <= u
        last == CHOOSE t \in span : \A u \in span : u <= t
        secs == bucketSecs(last - first, maxPoints)
        bucket(t) == IF t < first THEN -((first - t) \div secs)
                     ELSE (t - first) \div secs
    IN  {t \in times : span # {} /\ \A u \in times : bucket(u) = bucket(t) => u <= t}

----------------------------------------------------------------------------
(* Start and activation                                                     *)

\* main: the vehicle controller v, the configured baseline b, the restoration.
\* The process before it may have ended anywhere.
Restart(v, b) ==
    /\ restarts < MaxRestarts /\ restarts' = restarts + 1
    /\ vehicle' = v /\ baseline' = b
    /\ currentMinute' = Never /\ activation' = Idle /\ cutoff' = Never
    /\ \E failed, found \in BOOLEAN, calls \in Counts :
          /\ LoadAPIUsage(b, failed, found, calls)
          /\ tracker' = IF v = "client" /\ found
                        THEN [calls |-> calls, monthStart |-> MonthStart(now)]
                        ELSE NewTracker
          /\ unrestored' = failed
    /\ UNCHANGED <<teslaVars, forgotten>>

\* SetRefreshToken of the vehicle: a client takes the place of the unavailable
\* controller; one that is there keeps its tracker.
Activate ==
    /\ activation.step = "none"
    /\ vehicle' = "client"
    /\ tracker' = IF vehicle = "client" THEN tracker ELSE NewTracker
    /\ activation' = [Idle EXCEPT !.step = "activated"]
    /\ unrestored' = (unrestored \/ vehicle = "unavailable")
    /\ UNCHANGED <<currentMinute, baseline, cutoff, restarts, storeVars, teslaVars,
                   inflated, forgotten, disturbed>>

\* Counters that are not zero are not restored.
CheckUsage ==
    /\ activation.step = "activated"
    /\ tracker' = resetIfNewMonth
    /\ activation' = IF Count # 0 THEN Idle
                     ELSE [Idle EXCEPT !.step = "checked"]
    /\ UNCHANGED <<vehicle, currentMinute, baseline, cutoff, restarts, storeVars,
                   teslaVars, histVars>>

Load ==
    /\ activation.step = "checked"
    /\ \E failed, found \in BOOLEAN, calls \in Counts :
          /\ LoadAPIUsage(baseline, failed, found, calls)
          /\ activation' = IF ~found THEN Idle
                           ELSE [step |-> "loaded", calls |-> calls, at |-> now]
          /\ unrestored' = (failed \/ (unrestored /\ found))
    /\ UNCHANGED <<vehicle, tracker, currentMinute, baseline, cutoff, restarts,
                   teslaVars, forgotten>>

\* RestoreAPIUsage.  Calls counted since the check are overwritten.
Restore ==
    /\ activation.step = "loaded"
    /\ SetCounts(activation.calls, MonthStart(activation.at))
    /\ activation' = Idle
    /\ unrestored' = IF SameMonth(activation.at) THEN Count # 0 ELSE unrestored
    /\ UNCHANGED <<vehicle, currentMinute, baseline, cutoff, restarts, storeVars,
                   teslaVars, inflated, forgotten, disturbed>>

----------------------------------------------------------------------------

\* Calls were counted on top of the stored ones that will not be stored under
\* this minute, since the process has taken no sample yet.
Adrift ==
    /\ currentMinute = Never
    /\ Fresh # {} /\ \A s \in Fresh : s.calls < Count

\* Time passes; Tesla bills every month anew.
Pass ==
    /\ now < MaxTime
    /\ now' = now + 1
    /\ LET same == MonthStart(now') = MonthStart(now)
       IN  /\ billed' = IF same THEN billed ELSE 0
           /\ billedAt' = [billedAt EXCEPT ![now'] = billed']
           /\ inflated' = (inflated /\ same)
           /\ unrestored' = (unrestored /\ same)
           /\ disturbed' = (same /\ (disturbed \/ (now' \in Readings /\ Adrift)))
    /\ UNCHANGED <<procVars, storeVars, forgotten>>

\* The baselines an operator may have read on the dashboard.
Baselines == 
    {NoBaseline} \union
    {[at |-> t, calls |-> billedAt[t]] : t \in {r \in Readings : r <= now}}

\* An earlier version may have billed calls and stored a row.
Init ==
    /\ vehicle = "unavailable"
    /\ tracker = [calls |-> 0, monthStart |-> 0]
    /\ currentMinute = Never
    /\ baseline = NoBaseline
    /\ activation = Idle /\ cutoff = Never /\ restarts = 0
    /\ snapshots \in {{}} \union {{[at |-> 0, calls |-> c]} : c \in CarryOver}
    /\ inflated = (snapshots # {})
    /\ events = {}
    /\ now = Minute /\ billed \in IF inflated THEN 0 .. MaxCalls ELSE {0}
    /\ billedAt = [t \in Readings |-> billed]
    /\ unrestored = FALSE /\ forgotten = {} /\ disturbed = FALSE

Next ==
    \/ Record \/ Sample \/ Prune \/ PruneSnapshots \/ PruneFails
    \/ \E v \in {"unavailable", "client"}, b \in Baselines : Restart(v, b)
    \/ Activate \/ CheckUsage \/ Load \/ Restore
    \/ Pass

Spec == Init /\ [][Next]_vars

----------------------------------------------------------------------------
(* Properties                                                               *)

\* The type of the tracker, the activation, the tables and the history.
TypeOK ==
    /\ vehicle \in {"unavailable", "client"}
    /\ tracker \in [calls : Counts, monthStart : Times]
    /\ currentMinute \in Times \union {Never}
    /\ baseline \in [at : Times \union {Never}, calls : 0 .. MaxCalls]
    /\ activation \in [step : {"none", "activated", "checked", "loaded"},
                       calls : Counts, at : Times]
    /\ cutoff \in Times \union {Never} /\ restarts \in 0 .. MaxRestarts
    /\ snapshots \subseteq [at : Times, calls : Counts]
    /\ events \union forgotten \subseteq
          [baseline : [at : Times, calls : 0 .. MaxCalls], at : Times]
    /\ now \in Times
    /\ billed \in 0 .. MaxCalls
    /\ billedAt \in [Readings -> 0 .. MaxCalls]
    /\ inflated \in BOOLEAN /\ unrestored \in BOOLEAN /\ disturbed \in BOOLEAN

\* The counter never shows more calls than Tesla billed in this month, through
\* rollovers of the month, restarts, activations and the correction, even if
\* the counts were too high before it.  The exceptions: the correction's
\* mark or a snapshot was refused, snapshots were taken by a process that was
\* not restored, figures were read between a process's first call and its
\* first sample when rows were stored already, the baseline of a correction
\* is changed or removed, or was when its mark and the rows before it were
\* pruned, or the baseline was applied again because only the mark was.
NeverOvercounts ==
    ~inflated /\ ~disturbed /\ ~Reconfigured => Count <= billed

\* The stored counts survive restarts and activations: the counter is at least
\* every count stored this month after the correction, although refused,
\* pruned and zero snapshots are among them.  The exceptions: the process
\* could not load them, or calls came in while it was activated.
CountersSurvive ==
    vehicle = "client" /\ activation.step = "none" /\ ~unrestored =>
      \A s \in snapshots :
        /\ SameMonth(s.at)
        /\ InForce(baseline) =>
              \A e \in Marks : e.baseline = baseline => e.at < s.at
        => s.calls <= Count

\* Whatever refused, missed and pruned snapshots leave in the table, its
\* history has no more points than asked for, and never lacks the last row.  The
\* rows inserted between the two queries may give a point each; a Prune under
\* way may delete rows then.
HistoryFits ==
    \A maxPoints \in 1 .. 2, inserted \in SUBSET {currentMinute, now} :
        LET span == {s.at : s \in QueryAPIUsage(0)}
            times == {t \in span \union inserted : 0 <= t /\ cutoff <= t}
            points == SampleAPIUsage(span, times, maxPoints)
        IN  /\ Cardinality(points) <= maxPoints + Cardinality(times \ span)
            /\ span # {} => \A t \in times : \E u \in points : t <= u
=============================================================================
