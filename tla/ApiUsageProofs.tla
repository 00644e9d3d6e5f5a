--------------------------- MODULE ApiUsageProofs ---------------------------
(***************************************************************************)
(* Proofs about the count of API calls, for every length of the minute, of *)
(* the month and of the retention: the types, the counters that survive,   *)
(* the counter that never overcounts, and the size of the history.         *)
(***************************************************************************)
EXTENDS ApiUsage, FiniteSetTheorems, WellFoundedInduction, TLAPS

----------------------------------------------------------------------------
(* Billing months                                                           *)

LEMMA MultipleWithin ==
    ASSUME NEW M \in Nat \ {0}, NEW k \in Int, NEW d \in Int,
           M * k = d, -M < d, d < M
    PROVE  d = 0
<1>1. CASE k >= 1
  <2>1. M * k >= M
      BY <1>1
  <2> QED
      BY <2>1
<1>2. CASE k <= -1
  <2>1. M * k <= -M
      BY <1>2
  <2> QED
      BY <2>1
<1>3. CASE k = 0
    BY <1>3
<1> QED
    BY <1>1, <1>2, <1>3

LEMMA RemainderSteps ==
    ASSUME NEW M \in Nat \ {0}, NEW n \in Nat
    PROVE  (n + 1) % M = 0 \/ (n + 1) % M = (n % M) + 1
<1> DEFINE q == n \div M
           r == n % M
           p == (n + 1) \div M
           s == (n + 1) % M
<1>1. n = M * q + r /\ q \in Int /\ r \in 0 .. M - 1
    OBVIOUS
<1>2. n + 1 = M * p + s /\ p \in Int /\ s \in 0 .. M - 1
    OBVIOUS
<1>3. M * (p - q) = r + 1 - s
  <2>1. M * (p - q) = M * p - M * q
      BY <1>1, <1>2
  <2> HIDE DEF q, r, p, s
  <2> QED
      BY <1>1, <1>2, <2>1
<1>4. CASE r + 1 - s < M
  <2>1. r + 1 - s = 0
    <3> HIDE DEF q, r, p, s
    <3> QED
        BY <1>1, <1>2, <1>3, <1>4, MultipleWithin
  <2> QED
      BY <2>1
<1>5. CASE r + 1 - s >= M
    BY <1>1, <1>2, <1>5
<1> QED
    BY <1>1, <1>2, <1>4, <1>5

\* A month starts at or before its instants, and the next instant is of the
\* same month or starts one.
LEMMA Months ==
    ASSUME NEW t \in Nat
    PROVE  /\ MonthStart(t) \in Nat /\ MonthStart(t) <= t
           /\ MonthStart(t + 1) \in {MonthStart(t), t + 1}
<1>1. Month \in Nat \ {0}
    BY UsageAssumption
<1>2. t % Month \in 0 .. Month - 1 /\ t % Month <= t
    BY <1>1
<1>3. (t + 1) % Month = 0 \/ (t + 1) % Month = (t % Month) + 1
    BY <1>1, RemainderSteps
<1> QED
    BY <1>2, <1>3 DEF MonthStart

LEMMA Truncates == ASSUME NEW t \in Nat PROVE Truncate(t) \in Nat /\ Truncate(t) <= t
<1>1. Minute \in Nat \ {0}
    BY UsageAssumption
<1>2. t % Minute \in 0 .. Minute - 1 /\ t % Minute <= t
    BY <1>1
<1> QED
    BY <1>2 DEF Truncate

----------------------------------------------------------------------------
(* Types                                                                    *)

\* What the clock's type says of the other times.
LEMMA TimesTyped ==
    ASSUME now \in Times
    PROVE  /\ MonthStart(now) \in Times /\ Truncate(now) \in Times
           /\ MonthStart(0) = 0 /\ 0 \in Times
<1>1. now \in Nat /\ now <= MaxTime /\ MaxTime \in Nat
    BY UsageAssumption DEF Times
<1>2. MonthStart(0) \in Nat /\ MonthStart(0) <= 0
    BY Months
<1> QED
    BY <1>1, <1>2, Months, Truncates DEF Times

LEMMA TrackerTyped ==
    ASSUME TypeOK
    PROVE  /\ resetIfNewMonth \in [calls : Counts, monthStart : Times]
           /\ NewTracker \in [calls : Counts, monthStart : Times]
           /\ Count \in Counts
<1>1. MonthStart(now) \in Times /\ 0 \in Counts
    BY TimesTyped, UsageAssumption DEF TypeOK, Counts
<1>2. NewTracker \in [calls : Counts, monthStart : Times]
    BY <1>1 DEF NewTracker
<1>3. resetIfNewMonth \in [calls : Counts, monthStart : Times]
    BY <1>2 DEF resetIfNewMonth, TypeOK
<1> QED
    BY <1>2, <1>3 DEF Count

LEMMA LoadTyped ==
    ASSUME TypeOK, NEW b \in [at : Times \union {Never}, calls : 0 .. MaxCalls],
           NEW failed \in BOOLEAN, NEW found \in BOOLEAN, NEW calls \in Counts,
           LoadAPIUsage(b, failed, found, calls)
    PROVE  /\ snapshots' \subseteq [at : Times, calls : Counts]
           /\ events' \subseteq [baseline : [at : Times, calls : 0 .. MaxCalls],
                                 at : Times]
           /\ inflated' \in BOOLEAN /\ disturbed' \in BOOLEAN
<1>1. CASE InForce(b) /\ applyBaseline(b, failed, calls)
  <2>1. b \in [at : Times, calls : 0 .. MaxCalls]
      BY <1>1 DEF InForce, SameMonth
  <2>2. /\ snapshots' = snapshots \union {[at |-> now, calls |-> calls]}
        /\ events' = IF failed THEN events
                     ELSE events \union {[baseline |-> b, at |-> now]}
        /\ inflated' = (inflated /\ failed)
        /\ disturbed' = (disturbed \/ failed \/ \E e \in Marks : e.baseline = b)
      BY <1>1 DEF applyBaseline
  <2> QED
      BY <2>1, <2>2 DEF TypeOK
<1>2. CASE UNCHANGED <<storeVars, inflated, disturbed>>
    BY <1>2 DEF TypeOK, storeVars
<1> QED
    BY <1>1, <1>2 DEF LoadAPIUsage

LEMMA BaselinesTyped ==
    ASSUME TypeOK
    PROVE  Baselines \subseteq [at : Times \union {Never}, calls : 0 .. MaxCalls]
    BY UsageAssumption DEF TypeOK, Baselines, NoBaseline, Times

\* Every step keeps the tracker, the tables and the history in their types.
LEMMA TypeStep == TypeOK /\ [Next]_vars => TypeOK'
<1> SUFFICES ASSUME TypeOK, [Next]_vars PROVE TypeOK'
    OBVIOUS
<1>0. /\ MonthStart(now) \in Times /\ Truncate(now) \in Times /\ 0 \in Times
      /\ 0 \in Counts /\ Idle \in [step : {"none", "activated", "checked", "loaded"},
                                   calls : Counts, at : Times]
    BY TimesTyped, UsageAssumption DEF TypeOK, Counts, Idle, Times
<1>1. CASE Record
  <2>1. billed' \in 0 .. MaxCalls
      BY <1>1, UsageAssumption DEF Record, TypeOK
  <2>2. tracker' \in [calls : Counts, monthStart : Times]
    <3>1. Count + 1 \in Counts
        BY <1>1, TrackerTyped, UsageAssumption DEF Record, Counts
    <3>2. tracker' = [resetIfNewMonth EXCEPT !.calls = Count + 1]
        BY <1>1 DEF Record, Count
    <3> QED
        BY <3>1, <3>2, TrackerTyped
  <2> QED
      BY <1>1, <2>1, <2>2 DEF Record, TypeOK, storeVars, histVars
<1>2. CASE Sample
  <2>1. tracker' \in [calls : Counts, monthStart : Times]
      BY <1>2, TrackerTyped DEF Sample, TypeOK
  <2>2. snapshots' \subseteq [at : Times, calls : Counts]
    <3>1. CASE UNCHANGED snapshots
        BY <3>1 DEF TypeOK
    <3>2. CASE /\ currentMinute # Never
               /\ snapshots' = snapshots \union
                                 {[at |-> currentMinute, calls |-> Count]}
        BY <3>2, TrackerTyped DEF TypeOK
    <3> QED
        BY <1>2, <3>1, <3>2 DEF Sample
  <2>3. disturbed' \in BOOLEAN
      BY <1>2 DEF Sample, TypeOK, Reconfigured
  <2>4. currentMinute' \in Times \union {Never}
      BY <1>0, <1>2 DEF Sample
  <2> QED
      BY <1>2, <2>1, <2>2, <2>3, <2>4 DEF Sample, TypeOK, teslaVars
<1>3. CASE Prune
  <2>1. cutoff' \in Times
    <3>1. \A r \in events \union snapshots : r.at \in Nat
        BY UsageAssumption DEF TypeOK, Times
    <3>2. now \in Nat /\ now <= MaxTime /\ MaxTime \in Nat /\ Retention \in Nat
        BY UsageAssumption DEF TypeOK, Times
    <3> QED
        BY <1>3, <3>1, <3>2 DEF Prune, Times
  <2>2. events' \subseteq events /\ forgotten' \subseteq forgotten \union events
      BY <1>3 DEF Prune, Kept
  <2> QED
      BY <1>3, <2>1, <2>2 DEF Prune, TypeOK, teslaVars
<1>11. CASE PruneSnapshots
  <2>1. disturbed' \in BOOLEAN
      BY <1>11 DEF PruneSnapshots, TypeOK, Reconfigured
  <2> QED
      BY <1>11, <2>1 DEF PruneSnapshots, Kept, TypeOK, teslaVars
<1>12. CASE PruneFails
    BY <1>12 DEF PruneFails, TypeOK, storeVars, teslaVars, histVars
<1>4. ASSUME NEW v \in {"unavailable", "client"}, NEW b \in Baselines, Restart(v, b)
      PROVE  TypeOK'
  <2>1. PICK failed \in BOOLEAN, found \in BOOLEAN, calls \in Counts :
          /\ LoadAPIUsage(b, failed, found, calls)
          /\ tracker' = IF v = "client" /\ found
                        THEN [calls |-> calls, monthStart |-> MonthStart(now)]
                        ELSE NewTracker
          /\ unrestored' = failed
      BY <1>4 DEF Restart
  <2>2. b \in [at : Times \union {Never}, calls : 0 .. MaxCalls]
      BY BaselinesTyped
  <2>3. /\ snapshots' \subseteq [at : Times, calls : Counts]
        /\ events' \subseteq [baseline : [at : Times, calls : 0 .. MaxCalls],
                              at : Times]
        /\ inflated' \in BOOLEAN /\ disturbed' \in BOOLEAN
      BY <2>1, <2>2, LoadTyped
  <2>4. tracker' \in [calls : Counts, monthStart : Times]
      BY <1>0, <2>1, TrackerTyped
  <2>5. restarts' \in 0 .. MaxRestarts
      BY <1>4, UsageAssumption DEF Restart, TypeOK
  <2> QED
      BY <1>0, <1>4, <2>1, <2>2, <2>3, <2>4, <2>5 DEF Restart, TypeOK, teslaVars
<1>5. CASE Activate
  <2>1. tracker' \in [calls : Counts, monthStart : Times]
      BY <1>5, TrackerTyped DEF Activate, TypeOK
  <2>2. activation' \in [step : {"none", "activated", "checked", "loaded"},
                         calls : Counts, at : Times]
      BY <1>0, <1>5 DEF Activate
  <2> QED
      BY <1>5, <2>1, <2>2 DEF Activate, TypeOK, storeVars, teslaVars
<1>6. CASE CheckUsage
  <2>1. activation' \in [step : {"none", "activated", "checked", "loaded"},
                         calls : Counts, at : Times]
      BY <1>0, <1>6 DEF CheckUsage
  <2> QED
      BY <1>6, <2>1, TrackerTyped
      DEF CheckUsage, TypeOK, storeVars, teslaVars, histVars
<1>7. CASE Load
  <2>1. PICK failed \in BOOLEAN, found \in BOOLEAN, calls \in Counts :
          /\ LoadAPIUsage(baseline, failed, found, calls)
          /\ activation' = IF ~found THEN Idle
                           ELSE [step |-> "loaded", calls |-> calls, at |-> now]
          /\ unrestored' = (failed \/ (unrestored /\ found))
      BY <1>7 DEF Load
  <2>2. /\ snapshots' \subseteq [at : Times, calls : Counts]
        /\ events' \subseteq [baseline : [at : Times, calls : 0 .. MaxCalls],
                              at : Times]
        /\ inflated' \in BOOLEAN /\ disturbed' \in BOOLEAN
      BY <2>1, LoadTyped DEF TypeOK
  <2>3. activation' \in [step : {"none", "activated", "checked", "loaded"},
                         calls : Counts, at : Times]
      BY <1>0, <2>1 DEF TypeOK
  <2>4. unrestored' \in BOOLEAN
      BY <2>1 DEF TypeOK
  <2> QED
      BY <1>7, <2>2, <2>3, <2>4 DEF Load, TypeOK, teslaVars
<1>8. CASE Restore
  <2>1. tracker' \in [calls : Counts, monthStart : Times]
      BY <1>0, <1>8 DEF Restore, SetCounts, TypeOK
  <2>2. unrestored' \in BOOLEAN
      BY <1>8 DEF Restore, TypeOK
  <2> QED
      BY <1>0, <1>8, <2>1, <2>2 DEF Restore, TypeOK, storeVars, teslaVars
<1>9. CASE Pass
  <2>1. now' \in Times
      BY <1>9, UsageAssumption DEF Pass, TypeOK, Times
  <2>2. billed' \in 0 .. MaxCalls
      BY <1>9, UsageAssumption DEF Pass, TypeOK
  <2>3. billedAt' \in [Readings -> 0 .. MaxCalls]
      BY <1>9, <2>2 DEF Pass, TypeOK
  <2>4. inflated' \in BOOLEAN /\ unrestored' \in BOOLEAN /\ disturbed' \in BOOLEAN
      BY <1>9 DEF Pass, TypeOK
  <2> QED
      BY <1>9, <2>1, <2>2, <2>3, <2>4 DEF Pass, TypeOK, procVars, storeVars
<1>10. CASE UNCHANGED vars
    BY <1>10 DEF TypeOK, vars, procVars, storeVars, teslaVars, histVars
<1> QED
    BY <1>1, <1>2, <1>3, <1>4, <1>5, <1>6, <1>7, <1>8, <1>9, <1>10, <1>11, <1>12
    DEF Next

LEMMA InitTyped == Init => TypeOK
<1> SUFFICES ASSUME Init PROVE TypeOK
    OBVIOUS
<1>1. /\ 0 \in Times /\ Minute \in Times /\ 0 \in Counts /\ 0 \in 0 .. MaxCalls
      /\ 0 \in 0 .. MaxRestarts
    BY UsageAssumption DEF Times, Counts
<1>2. snapshots \subseteq [at : Times, calls : Counts]
    BY <1>1, UsageAssumption DEF Init, Counts
<1>3. billed \in 0 .. MaxCalls /\ inflated \in BOOLEAN
    BY <1>1 DEF Init
<1>4. billedAt \in [Readings -> 0 .. MaxCalls]
    BY <1>3 DEF Init
<1> QED
    BY <1>1, <1>2, <1>3, <1>4 DEF Init, TypeOK, Idle, NoBaseline

\* TypeOK holds in every reachable state.
THEOREM UsageTyped == Spec => []TypeOK
    BY InitTyped, TypeStep, PTL DEF Spec

----------------------------------------------------------------------------
(* The counters survive                                                     *)

\* The rows that the counter has to live up to.
Binding(s) ==
    /\ SameMonth(s.at)
    /\ InForce(baseline) =>
          \A e \in Marks : e.baseline = baseline => e.at < s.at

\* Counts that are loaded but not restored yet.
Pending == activation.step = "loaded" /\ SameMonth(activation.at)

\* A mark is forgotten once it is due to be pruned, and gone for good with the
\* rows that are pruned after it.
PruneInv ==
    /\ \A e \in forgotten : e.at < now - Retention
    /\ cutoff # Never =>
          /\ cutoff <= now
          /\ \A e \in forgotten : e.at < cutoff
          /\ \A e \in events : cutoff <= e.at

\* Nothing is stored or loaded from the future; but for a load under way the
\* counter lives up to the rows, and during the load the counter or the loaded
\* counts do.
SurviveInv ==
    /\ \A s \in snapshots : s.at <= now
    /\ currentMinute <= now
    /\ tracker.monthStart <= MonthStart(now)
    /\ activation.at <= now /\ MonthStart(activation.at) <= MonthStart(now)
    /\ vehicle = "client" /\ ~unrestored /\ ~Pending =>
          \A s \in snapshots : Binding(s) => s.calls <= Count
    /\ Pending => \A s \in snapshots :
          Binding(s) => s.calls <= Count \/ s.calls <= activation.calls

LEMMA PruneStep == TypeOK /\ PruneInv /\ [Next]_vars => PruneInv'
<1> SUFFICES ASSUME TypeOK, PruneInv, [Next]_vars PROVE PruneInv'
    OBVIOUS
<1>0. /\ now \in Nat /\ Retention \in Nat /\ cutoff \in Int
      /\ \A e \in events \union forgotten : e.at \in Nat
    BY UsageAssumption DEF TypeOK, Times, Never
<1>1. CASE /\ UNCHANGED <<now, cutoff, forgotten>>
           /\ \A e \in events' : e \in events \/ e.at = now
    BY <1>0, <1>1 DEF PruneInv
<1>2. CASE Prune
  <2>1. /\ now' = now /\ cutoff' = now - Retention
        /\ \A e \in events' : e \in events /\ e.at >= now - Retention
        /\ \A e \in forgotten' : e \in forgotten \/
              (e \in events /\ ~(e.at >= now - Retention))
      BY <1>2 DEF Prune, Kept, teslaVars
  <2> QED
      BY <1>0, <2>1 DEF PruneInv
<1>3. CASE cutoff' = Never /\ now' = now /\ forgotten' \in {{}, forgotten}
    BY <1>3 DEF PruneInv
<1>4. CASE Pass
  <2>1. now' = now + 1 /\ UNCHANGED <<cutoff, events, forgotten>>
      BY <1>4 DEF Pass, procVars, storeVars
  <2> QED
      BY <1>0, <2>1 DEF PruneInv
<1>5. ASSUME NEW v \in {"unavailable", "client"}, NEW b \in Baselines, Restart(v, b)
      PROVE  cutoff' = Never /\ now' = now /\ forgotten' = forgotten
    BY <1>5 DEF Restart, teslaVars
<1>6. PruneSnapshots => cutoff' = Never /\ now' = now /\ forgotten' = {}
    BY DEF PruneSnapshots, teslaVars
<1>7. PruneFails => cutoff' = Never /\ now' = now /\ forgotten' = forgotten
    BY DEF PruneFails, teslaVars, histVars
<1>8. Record \/ Sample \/ Activate \/ CheckUsage \/ Restore \/ UNCHANGED vars
      => UNCHANGED <<now, cutoff, events, forgotten>>
    BY DEF Record, Sample, Activate, CheckUsage, Restore, vars, procVars, storeVars,
           teslaVars, histVars
<1>9. Load => /\ UNCHANGED <<now, cutoff, forgotten>>
              /\ \A e \in events' : e \in events \/ e.at = now
  <2> SUFFICES ASSUME Load
               PROVE  /\ UNCHANGED <<now, cutoff, forgotten>>
                      /\ \A e \in events' : e \in events \/ e.at = now
      OBVIOUS
  <2>1. PICK failed \in BOOLEAN, found \in BOOLEAN, calls \in Counts :
          LoadAPIUsage(baseline, failed, found, calls)
      BY DEF Load
  <2>2. events' \in {events, events \union {[baseline |-> baseline, at |-> now]}}
    <3>1. CASE applyBaseline(baseline, failed, calls)
        BY <3>1 DEF applyBaseline
    <3>2. applyBaseline(baseline, failed, calls) \/ events' = events
        BY <2>1 DEF LoadAPIUsage, storeVars
    <3> QED
        BY <3>1, <3>2
  <2> QED
      BY <2>2 DEF Load, teslaVars
<1> QED
    BY <1>1, <1>2, <1>3, <1>4, <1>5, <1>6, <1>7, <1>8, <1>9 DEF Next

LEMMA PruneInit == Init => PruneInv
    BY DEF Init, PruneInv, Never

\* What a successful load finds covers the rows that bind afterwards.
LEMMA LoadCovers ==
    ASSUME TypeOK, SurviveInv,
           NEW b \in [at : Times \union {Never}, calls : 0 .. MaxCalls],
           NEW failed \in BOOLEAN, NEW found \in BOOLEAN, NEW calls \in Counts,
           LoadAPIUsage(b, failed, found, calls), ~failed, baseline' = b,
           UNCHANGED <<now, forgotten>>
    PROVE  \A s \in snapshots' : Binding(s)' => found /\ s.calls <= calls
<1> SUFFICES ASSUME NEW s \in snapshots', Binding(s)'
             PROVE  found /\ s.calls <= calls
    OBVIOUS
<1>0. now \in Nat /\ MonthStart(now) <= now /\ 0 \in Nat
    BY Months, UsageAssumption DEF TypeOK, Times
<1>1. CASE InForce(b) /\ applyBaseline(b, failed, calls)
  <2>1. /\ snapshots' = snapshots \union {[at |-> now, calls |-> calls]}
        /\ [baseline |-> b, at |-> now] \in events'
      BY <1>1 DEF applyBaseline
  <2>2. s.at <= now
      BY <1>0, <2>1 DEF SurviveInv
  <2>3. SameMonth(now)' /\ InForce(b)'
      BY <1>0, <1>1 DEF SameMonth, InForce, Never
  <2>4. [baseline |-> b, at |-> now] \in Marks'
      BY <2>1, <2>3 DEF Marks, Marked, SameMonth
  <2>5. now < s.at
      BY <2>3, <2>4 DEF Binding
  <2>6. s.at \in Int
      BY <2>1, <1>0 DEF TypeOK, Times
  <2> QED
      BY <1>0, <2>2, <2>5, <2>6
<1>2. ASSUME NEW from \in IF InForce(b) THEN AppliedAt(b) ELSE {MonthStart(now)},
             found = (QueryAPIUsage(from) # {}),
             IsPeak(QueryAPIUsage(from), calls),
             UNCHANGED <<storeVars, inflated, disturbed>>
      PROVE  found /\ s.calls <= calls
  <2>1. s \in snapshots /\ s.at <= now /\ s.at \in Nat
      BY <1>2, UsageAssumption DEF storeVars, SurviveInv, TypeOK, Times
  <2>2. MonthStart(s.at) = MonthStart(now)
      BY DEF Binding, SameMonth
  <2>3. MonthStart(now) <= s.at
      BY <2>1, <2>2, Months
  <2>4. from <= s.at
    <3>1. CASE InForce(b)
      <4>1. InForce(b)' /\ Marks' = Marks
          BY <1>2, <3>1 DEF InForce, SameMonth, Marks, Marked, storeVars
      <4>2. PICK e \in Marks : e.baseline = b /\ e.at = from
          BY <1>2, <3>1 DEF AppliedAt, Marks, Marked
      <4>4. from < s.at
          BY <4>1, <4>2 DEF Binding
      <4>3. from \in Int
          BY <1>2, <3>1, UsageAssumption DEF AppliedAt, TypeOK, Times
      <4> QED
          BY <2>1, <4>3, <4>4
    <3>2. CASE ~InForce(b)
        BY <1>2, <2>3, <3>2
    <3> QED
        BY <3>1, <3>2
  <2>5. s \in QueryAPIUsage(from)
      BY <2>1, <2>4 DEF QueryAPIUsage
  <2> QED
      BY <1>2, <2>5 DEF IsPeak
<1> QED
    BY <1>1, <1>2 DEF LoadAPIUsage

\* A load adds no row from the future.
LEMMA LoadNotFuture ==
    ASSUME TypeOK, SurviveInv,
           NEW b, NEW failed \in BOOLEAN, NEW found \in BOOLEAN, NEW calls \in Counts,
           LoadAPIUsage(b, failed, found, calls)
    PROVE  \A s \in snapshots' : s.at <= now
<1>1. now <= now
    BY UsageAssumption DEF TypeOK, Times
<1>2. CASE applyBaseline(b, failed, calls)
  <2>1. snapshots' = snapshots \union {[at |-> now, calls |-> calls]}
      BY <1>2 DEF applyBaseline
  <2> QED
      BY <1>1, <2>1 DEF SurviveInv
<1>3. CASE UNCHANGED <<storeVars, inflated, disturbed>>
    BY <1>3 DEF SurviveInv, storeVars
<1> QED
    BY <1>2, <1>3 DEF LoadAPIUsage

\* Reading the counter does not change it.
LEMMA CountRead ==
    ASSUME tracker' = resetIfNewMonth, UNCHANGED now, TypeOK
    PROVE  Count' = Count
<1>1. MonthStart(now) \in Int /\ tracker.monthStart \in Int
    BY Months, UsageAssumption DEF TypeOK, Times
<1> QED
    BY <1>1 DEF Count, resetIfNewMonth, NewTracker

LEMMA SurviveStep == TypeOK /\ PruneInv /\ SurviveInv /\ [Next]_vars => SurviveInv'
<1> SUFFICES ASSUME TypeOK, PruneInv, SurviveInv, [Next]_vars PROVE SurviveInv'
    OBVIOUS
<1>0. /\ now \in Nat /\ MonthStart(now) \in Nat /\ MonthStart(now) <= now
      /\ Truncate(now) <= now
      /\ MonthStart(0) = 0 /\ Never <= now
    BY Months, Truncates, TimesTyped, UsageAssumption DEF TypeOK, Times, Never
<1>1. CASE Record
  <2>1. /\ UNCHANGED <<vehicle, currentMinute, baseline, activation, snapshots,
                       events, now, unrestored, forgotten>>
        /\ tracker' = [resetIfNewMonth EXCEPT !.calls = Count + 1]
      BY <1>1 DEF Record, storeVars, histVars, Count
  <2>2. tracker'.monthStart <= MonthStart(now) /\ tracker'.calls = Count + 1
      BY <1>0, <2>1 DEF resetIfNewMonth, NewTracker, SurviveInv, TypeOK
  <2>3. tracker'.monthStart = MonthStart(now)
      BY <1>0, <2>1, UsageAssumption
      DEF resetIfNewMonth, NewTracker, SurviveInv, TypeOK, Times
  <2>4. Count' = Count + 1 /\ Count \in Nat
    <3>1. Count \in Nat
        BY TrackerTyped, UsageAssumption DEF Counts
    <3> QED
        BY <1>0, <2>1, <2>2, <2>3, <3>1 DEF Count, resetIfNewMonth
  <2>5. \A s \in snapshots : s.calls \in Nat
      BY UsageAssumption DEF TypeOK, Counts
  <2>6. \A s \in snapshots : Binding(s)' <=> Binding(s)
      BY <2>1 DEF Binding, InForce, Marks, Marked, SameMonth
  <2>7. Pending' <=> Pending
      BY <2>1 DEF Pending, SameMonth
  <2> QED
      BY <2>1, <2>2, <2>4, <2>5, <2>6, <2>7 DEF SurviveInv
<1>2. CASE Sample
  <2>1. UNCHANGED <<vehicle, baseline, activation, events, now, unrestored,
                    forgotten>>
      BY <1>2 DEF Sample, teslaVars
  <2>2. tracker' \in {tracker, resetIfNewMonth}
      BY <1>2 DEF Sample
  <2>3. Count' = Count /\ tracker'.monthStart <= MonthStart(now)
    <3>1. CASE tracker' = tracker
        BY <2>1, <3>1 DEF Count, resetIfNewMonth, NewTracker, SurviveInv
    <3>2. CASE tracker' = resetIfNewMonth
        BY <1>0, <2>1, <3>2, CountRead DEF resetIfNewMonth, NewTracker, SurviveInv
    <3> QED
        BY <2>2, <3>1, <3>2
  <2>4. \A s \in snapshots' :
           s \in snapshots \/ (s.at = currentMinute /\ s.calls = Count)
      BY <1>2 DEF Sample
  <2>5. Count <= Count
      BY TrackerTyped, UsageAssumption DEF Counts
  <2>6. \A s : Binding(s)' <=> Binding(s)
      BY <2>1 DEF Binding, InForce, Marks, Marked, SameMonth
  <2>7. Pending' <=> Pending
      BY <2>1 DEF Pending, SameMonth
  <2>8. currentMinute' <= now
      BY <1>0, <1>2 DEF Sample
  <2> QED
      BY <2>1, <2>3, <2>4, <2>5, <2>6, <2>7, <2>8 DEF SurviveInv
<1>3. CASE Prune
  <2>1. /\ UNCHANGED <<vehicle, tracker, currentMinute, baseline, activation,
                       snapshots, now, unrestored>>
        /\ events' \union forgotten' = events \union forgotten
      BY <1>3 DEF Prune, Kept, teslaVars
  <2>2. Count' = Count /\ (Pending' <=> Pending)
      BY <2>1 DEF Count, resetIfNewMonth, NewTracker, Pending, SameMonth
  <2>3. \A s : Binding(s)' <=> Binding(s)
      BY <2>1 DEF Binding, InForce, Marks, Marked, SameMonth
  <2> QED
      BY <2>1, <2>2, <2>3 DEF SurviveInv
<1>11. CASE PruneSnapshots
  <2>1. /\ UNCHANGED <<vehicle, tracker, currentMinute, baseline, activation,
                       events, now, unrestored>>
        /\ cutoff # Never /\ snapshots' = Kept(snapshots, cutoff) /\ forgotten' = {}
      BY <1>11 DEF PruneSnapshots, teslaVars
  <2>2. Count' = Count /\ (Pending' <=> Pending)
      BY <2>1 DEF Count, resetIfNewMonth, NewTracker, Pending, SameMonth
  <2>3. ASSUME NEW s \in snapshots', Binding(s)' PROVE s \in snapshots /\ Binding(s)
    <3>1. s \in snapshots /\ s.at >= cutoff
        BY <2>1, <2>3 DEF Kept
    <3>2. SameMonth(s.at) /\ (InForce(baseline)' <=> InForce(baseline))
        BY <2>1, <2>3 DEF Binding, SameMonth, InForce
    <3>3. ASSUME InForce(baseline), NEW e \in Marks, e.baseline = baseline
          PROVE  e.at < s.at
      <4>1. CASE e \in events
        <5>1. e \in Marks'
            BY <2>1, <3>3, <4>1 DEF Marks, Marked, SameMonth
        <5> QED
            BY <2>1, <2>3, <3>2, <3>3, <5>1 DEF Binding
      <4>2. CASE e \in forgotten
        <5>1. e.at < cutoff
            BY <2>1, <4>2 DEF PruneInv
        <5>2. e.at \in Nat /\ s.at \in Nat /\ cutoff \in Int
            BY <3>1, <4>2, UsageAssumption DEF TypeOK, Times, Never
        <5> QED
            BY <3>1, <5>1, <5>2
      <4> QED
          BY <4>1, <4>2 DEF Marks, Marked
    <3> QED
        BY <3>1, <3>2, <3>3 DEF Binding
  <2>4. \A s \in snapshots' : s \in snapshots
      BY <2>1 DEF Kept
  <2> QED
      BY <2>1, <2>2, <2>3, <2>4 DEF SurviveInv
<1>12. CASE PruneFails
  <2>1. UNCHANGED <<vehicle, tracker, currentMinute, baseline, activation,
                    snapshots, events, now, unrestored, forgotten>>
      BY <1>12 DEF PruneFails, storeVars, teslaVars, histVars
  <2>2. \A s : Binding(s)' <=> Binding(s)
      BY <2>1 DEF Binding, InForce, Marks, Marked, SameMonth
  <2>3. Count' = Count /\ (Pending' <=> Pending)
      BY <2>1 DEF Count, resetIfNewMonth, NewTracker, Pending, SameMonth
  <2> QED
      BY <2>1, <2>2, <2>3 DEF SurviveInv
<1>4. ASSUME NEW v \in {"unavailable", "client"}, NEW b \in Baselines, Restart(v, b)
      PROVE  SurviveInv'
  <2>1. PICK failed \in BOOLEAN, found \in BOOLEAN, calls \in Counts :
          /\ LoadAPIUsage(b, failed, found, calls)
          /\ tracker' = IF v = "client" /\ found
                        THEN [calls |-> calls, monthStart |-> MonthStart(now)]
                        ELSE NewTracker
          /\ unrestored' = failed
      BY <1>4 DEF Restart
  <2>2. /\ b \in [at : Times \union {Never}, calls : 0 .. MaxCalls]
        /\ vehicle' = v /\ baseline' = b /\ currentMinute' = Never
        /\ activation' = Idle /\ UNCHANGED <<now, forgotten>>
      BY <1>4, BaselinesTyped DEF Restart, teslaVars
  <2>3. /\ tracker'.monthStart = MonthStart(now)
        /\ v = "client" /\ found => tracker'.calls = calls
      BY <2>1 DEF NewTracker
  <2>4. Count' = tracker'.calls
      BY <1>0, <2>2, <2>3 DEF Count, resetIfNewMonth
  <2>5. ~failed => \A s \in snapshots' : Binding(s)' => found /\ s.calls <= calls
      BY <2>1, <2>2, LoadCovers
  <2>6. \A s \in snapshots' : s.at <= now
      BY <2>1, LoadNotFuture
  <2>7. ~Pending' /\ activation'.at <= now /\ MonthStart(activation'.at) <= MonthStart(now)
      BY <1>0, <2>2 DEF Pending, Idle
  <2>8. tracker'.monthStart <= MonthStart(now)
      BY <1>0, <2>3
  <2> QED
      BY <1>0, <2>1, <2>2, <2>3, <2>4, <2>5, <2>6, <2>7, <2>8 DEF SurviveInv
<1>5. CASE Activate
  <2>1. /\ UNCHANGED <<currentMinute, baseline, snapshots, events, now, forgotten>>
        /\ activation'.step = "activated" /\ activation'.at = 0
        /\ activation.step = "none"
      BY <1>5 DEF Activate, storeVars, teslaVars, Idle
  <2>2. ~Pending /\ ~Pending'
      BY <2>1 DEF Pending
  <2>3. \A s : Binding(s)' <=> Binding(s)
      BY <2>1 DEF Binding, InForce, Marks, Marked, SameMonth
  <2>4. tracker'.monthStart <= MonthStart(now)
      BY <1>0, <1>5 DEF Activate, NewTracker, SurviveInv
  <2>5. ~unrestored' => vehicle = "client" /\ ~unrestored /\ Count' = Count
    <3>1. ~unrestored' => vehicle # "unavailable" /\ ~unrestored
        BY <1>5, Zenon DEF Activate
    <3>2. vehicle = "client" => tracker' = tracker
        BY <1>5 DEF Activate
    <3>3. tracker' = tracker => Count' = Count
        BY <2>1 DEF Count, resetIfNewMonth, NewTracker
    <3>4. vehicle # "unavailable" => vehicle = "client"
        BY DEF TypeOK
    <3> QED
        BY <3>1, <3>2, <3>3, <3>4
  <2> QED
      BY <1>0, <2>1, <2>2, <2>3, <2>4, <2>5 DEF SurviveInv
<1>6. CASE CheckUsage
  <2>1. /\ UNCHANGED <<vehicle, currentMinute, baseline, snapshots, events, now,
                       unrestored, forgotten>>
        /\ activation.step = "activated" /\ tracker' = resetIfNewMonth
        /\ activation'.step \in {"none", "checked"} /\ activation'.at = 0
      BY <1>6 DEF CheckUsage, storeVars, teslaVars, histVars, Idle
  <2>2. ~Pending /\ ~Pending'
      BY <2>1 DEF Pending
  <2>3. \A s : Binding(s)' <=> Binding(s)
      BY <2>1 DEF Binding, InForce, Marks, Marked, SameMonth
  <2>4. Count' = Count /\ tracker'.monthStart <= MonthStart(now)
      BY <1>0, <2>1, CountRead DEF resetIfNewMonth, NewTracker, SurviveInv
  <2> QED
      BY <1>0, <2>1, <2>2, <2>3, <2>4 DEF SurviveInv
<1>7. CASE Load
  <2>1. PICK failed \in BOOLEAN, found \in BOOLEAN, calls \in Counts :
          /\ LoadAPIUsage(baseline, failed, found, calls)
          /\ activation' = IF ~found THEN Idle
                           ELSE [step |-> "loaded", calls |-> calls, at |-> now]
          /\ unrestored' = (failed \/ (unrestored /\ found))
      BY <1>7 DEF Load
  <2>2. /\ UNCHANGED <<vehicle, tracker, currentMinute, baseline, now, forgotten>>
        /\ baseline \in [at : Times \union {Never}, calls : 0 .. MaxCalls]
      BY <1>7 DEF Load, teslaVars, TypeOK
  <2>3. ~failed => \A s \in snapshots' : Binding(s)' => found /\ s.calls <= calls
      BY <2>1, <2>2, LoadCovers
  <2>4. \A s \in snapshots' : s.at <= now
      BY <2>1, LoadNotFuture
  <2>5. failed => ~found
      BY <2>1 DEF LoadAPIUsage
  <2>6. SameMonth(now)
      BY <1>0 DEF SameMonth, Never
  <2>7. activation'.at <= now /\ MonthStart(activation'.at) <= MonthStart(now)
      BY <1>0, <2>1 DEF Idle
  <2>8. CASE found
    <3>1. Pending' /\ activation'.calls = calls /\ ~failed
        BY <2>1, <2>2, <2>5, <2>6, <2>8 DEF Pending, SameMonth
    <3> QED
        BY <2>2, <2>3, <2>4, <2>7, <3>1 DEF SurviveInv
  <2>9. CASE ~found
    <3>1. ~Pending' /\ unrestored' = failed
        BY <2>1, <2>9 DEF Pending, Idle
    <3> QED
        BY <2>2, <2>3, <2>4, <2>7, <2>9, <3>1 DEF SurviveInv
  <2> QED
      BY <2>8, <2>9
<1>8. CASE Restore
  <2>1. /\ UNCHANGED <<vehicle, currentMinute, baseline, snapshots, events, now,
                       forgotten>>
        /\ activation.step = "loaded" /\ activation' = Idle
      BY <1>8 DEF Restore, storeVars, teslaVars
  <2>2. ~Pending' /\ activation'.at = 0
      BY <2>1 DEF Pending, Idle
  <2>3. \A s : Binding(s)' <=> Binding(s)
      BY <2>1 DEF Binding, InForce, Marks, Marked, SameMonth
  <2>4. activation.at \in Nat /\ activation.calls \in Nat
      BY UsageAssumption DEF TypeOK, Times, Counts
  <2>5. MonthStart(activation.at) \in Nat
      BY <2>4, Months
  <2>6. CASE SameMonth(activation.at)
    <3>1. tracker' = [calls |-> activation.calls, monthStart |-> MonthStart(now)]
        BY <1>0, <1>8, <2>6 DEF Restore, SetCounts, SameMonth
    <3>2. Count' = activation.calls /\ tracker'.monthStart <= MonthStart(now)
        BY <1>0, <2>1, <3>1 DEF Count, resetIfNewMonth
    <3>3. Pending
        BY <2>1, <2>6 DEF Pending
    <3>4. Count = 0 => \A s \in snapshots : Binding(s) => s.calls <= activation.calls
      <4>1. \A s \in snapshots : s.calls \in Nat
          BY UsageAssumption DEF TypeOK, Counts
      <4> QED
          BY <2>4, <3>3, <4>1 DEF SurviveInv
    <3>5. ~unrestored' => Count = 0
        BY <1>8, <2>6, Zenon DEF Restore
    <3> QED
        BY <1>0, <2>1, <2>2, <2>3, <3>2, <3>4, <3>5 DEF SurviveInv
  <2>7. CASE ~SameMonth(activation.at)
    <3>1. MonthStart(activation.at) < MonthStart(now)
        BY <1>0, <2>4, <2>5, <2>7 DEF SurviveInv, SameMonth, Never
    <3>2. UNCHANGED <<tracker, unrestored>>
        BY <1>8, <2>7, <3>1 DEF Restore, SetCounts
    <3>3. Count' = Count /\ ~Pending
        BY <2>1, <2>7, <3>2 DEF Count, resetIfNewMonth, NewTracker, Pending
    <3> QED
        BY <1>0, <2>1, <2>2, <2>3, <3>2, <3>3 DEF SurviveInv
  <2> QED
      BY <2>6, <2>7
<1>9. CASE Pass
  <2>1. /\ now' = now + 1 /\ UNCHANGED <<procVars, storeVars, forgotten>>
        /\ MonthStart(now') = MonthStart(now) => unrestored' = unrestored
      BY <1>9 DEF Pass, TypeOK
  <2>2. /\ UNCHANGED <<vehicle, tracker, currentMinute, baseline, activation,
                       snapshots, events, forgotten>>
        /\ now <= now' /\ now' \in Nat
      BY <1>0, <2>1 DEF procVars, storeVars
  <2>3. MonthStart(now') \in {MonthStart(now), now + 1} /\ MonthStart(now') \in Nat
      BY <1>0, <2>1, <2>2, Months
  <2>4. /\ \A s \in snapshots : s.at \in Nat
        /\ currentMinute \in Int /\ tracker.monthStart \in Nat
        /\ activation.at \in Nat /\ MonthStart(activation.at) \in Nat
        /\ MonthStart(activation.at) <= activation.at
    <3>1. activation.at \in Nat
        BY UsageAssumption DEF TypeOK, Times
    <3> QED
        BY <3>1, Months, UsageAssumption DEF TypeOK, Times, Never
  <2>5. /\ \A s \in snapshots : s.at <= now'
        /\ currentMinute <= now' /\ tracker.monthStart <= MonthStart(now')
        /\ activation.at <= now' /\ MonthStart(activation.at) <= MonthStart(now')
      BY <1>0, <2>1, <2>3, <2>4 DEF SurviveInv
  <2>6. CASE MonthStart(now') = MonthStart(now)
    <3>1. \A t : SameMonth(t)' <=> SameMonth(t)
        BY <2>6 DEF SameMonth
    <3>2. InForce(baseline) => InForce(baseline)'
      <4>1. baseline.at \in Int
          BY UsageAssumption DEF TypeOK, Times, Never
      <4> QED
          BY <1>0, <2>2, <3>1, <4>1 DEF InForce
    <3>3. Marks' = Marks
        BY <2>2, <3>1 DEF Marks, Marked
    <3>4. \A s : Binding(s)' => Binding(s)
        BY <2>2, <3>1, <3>2, <3>3 DEF Binding
    <3>5. Count' = Count
        BY <2>2, <2>6 DEF Count, resetIfNewMonth, NewTracker
    <3>6. Pending' <=> Pending
        BY <2>2, <3>1 DEF Pending
    <3> QED
        BY <2>1, <2>2, <2>5, <2>6, <3>4, <3>5, <3>6 DEF SurviveInv
  <2>7. CASE MonthStart(now') = now + 1
    <3>1. ASSUME NEW s \in snapshots PROVE ~Binding(s)'
      <4>1. s.at \in Nat /\ s.at <= now
          BY <2>4 DEF SurviveInv
      <4>2. MonthStart(s.at) \in Nat /\ MonthStart(s.at) <= s.at
          BY <4>1, Months
      <4>3. MonthStart(s.at) # MonthStart(now')
          BY <1>0, <2>7, <4>1, <4>2
      <4> QED
          BY <4>3 DEF Binding, SameMonth
    <3> QED
        BY <2>2, <2>5, <3>1 DEF SurviveInv
  <2> QED
      BY <2>3, <2>6, <2>7
<1>10. CASE UNCHANGED vars
  <2>1. UNCHANGED <<vehicle, tracker, currentMinute, baseline, activation,
                    snapshots, events, now, unrestored, forgotten>>
      BY <1>10 DEF vars, procVars, storeVars, teslaVars, histVars
  <2>2. \A s : Binding(s)' <=> Binding(s)
      BY <2>1 DEF Binding, InForce, Marks, Marked, SameMonth
  <2>3. Count' = Count /\ (Pending' <=> Pending)
      BY <2>1 DEF Count, resetIfNewMonth, NewTracker, Pending, SameMonth
  <2> QED
      BY <2>1, <2>2, <2>3 DEF SurviveInv
<1> QED
    BY <1>1, <1>2, <1>3, <1>4, <1>5, <1>6, <1>7, <1>8, <1>9, <1>10, <1>11, <1>12
    DEF Next

LEMMA SurviveInit == Init => SurviveInv
<1> SUFFICES ASSUME Init PROVE SurviveInv
    OBVIOUS
<1>1. now \in Nat \ {0} /\ now = Minute /\ MonthStart(now) \in Nat
    BY Months, UsageAssumption DEF Init
<1>2. MonthStart(0) \in Nat /\ MonthStart(0) <= 0
    BY Months
<1>3. /\ \A s \in snapshots : s.at = 0
      /\ currentMinute = -1 /\ tracker.monthStart = 0 /\ activation.at = 0
      /\ vehicle = "unavailable" /\ activation.step = "none"
    BY DEF Init, Never, Idle
<1>4. /\ \A s \in snapshots : s.at <= now
      /\ currentMinute <= now /\ tracker.monthStart <= MonthStart(now)
      /\ activation.at <= now /\ MonthStart(activation.at) <= MonthStart(now)
    BY <1>1, <1>2, <1>3
<1> QED
    BY <1>3, <1>4 DEF SurviveInv, Pending

\* Whatever the length of the month and of the retention, and however often
\* the process restarts or is activated: the counter is at least every count
\* that was stored this month after the correction.
THEOREM CountersAlwaysSurvive == Spec => []CountersSurvive
<1>1. SurviveInv => CountersSurvive
    BY DEF SurviveInv, CountersSurvive, Pending, Binding
<1> QED
    BY <1>1, PruneInit, PruneStep, SurviveInit, SurviveStep, UsageTyped, PTL DEF Spec

----------------------------------------------------------------------------
(* The counter never overcounts                                             *)

\* The rows of this month from its correction on.
Current ==
    {s \in snapshots : MonthStart(now) <= s.at /\ \A e \in Marks : e.at <= s.at}

\* The instants of this month at which figures were read.
Figures == {r \in Readings : MonthStart(now) <= r /\ r <= now}

\* Figures read at r are compared with the row p, now or after pruning.
RefFor(p, r) == r < p.at \/ \A q \in Fresh : q.at <= p.at \/ r < q.at

\* The next row is later than the figures read at r.
Ahead(r) == currentMinute = Never \/ r < currentMinute

\* If n were stored next, a correction with figures read before that row would
\* not exceed what Tesla billed.
Follows(n) ==
    \A r \in Figures, p \in Fresh :
       RefFor(p, r) /\ Ahead(r) => n - p.calls <= billed - billedAt[r]

\* The stored counts are comparable and at most one correction is marked ...
Sound == ~disturbed /\ \A e, f \in Marks : e.baseline = f.baseline

\* ... which is the one that the configuration names.
Right == ~disturbed /\ ~Reconfigured

Restored == vehicle = "client" /\ ~unrestored

\* The configured and the marked corrections have figures of Tesla's; the row
\* of a marked one is stored; a load starts from a counter of zero.
BillInv ==
    /\ \A e \in Marked : e.at <= now
    /\ \A r \in Figures : billedAt[r] <= billed
    /\ \/ baseline = NoBaseline
       \/ /\ baseline.at \in Readings /\ baseline.at <= now
          /\ baseline.calls = billedAt[baseline.at]
    /\ \A e \in Marks :
          /\ InForce(e.baseline)
          /\ \E s \in snapshots : s.at = e.at /\ s.calls >= e.baseline.calls
    /\ ~disturbed => \A e, f \in Marks : e.baseline = f.baseline => e = f
    /\ Marks # {} => ~inflated
    /\ activation.step # "none" => vehicle = "client"
    /\ activation.step \in {"checked", "loaded"} => Count <= billed

\* Rows are stored in the order of their minutes.
OrderInv ==
    /\ currentMinute <= Truncate(now)
    /\ ~disturbed => \A s \in Fresh :
          s.at < Truncate(now) /\ (currentMinute # Never => s.at < currentMinute)

\* The rows rise, by no more than Tesla billed since the figures they are
\* compared with, to no more than it billed.
RowsInv ==
    Sound =>
      /\ \A s \in Current, p \in Fresh : s.at <= p.at => s.calls <= p.calls
      /\ \A r \in Figures, p, s \in Fresh :
            RefFor(p, r) /\ p.at <= s.at /\ r < s.at =>
               s.calls - p.calls <= billed - billedAt[r]
      /\ ~inflated => \A s \in Current : s.calls <= billed

\* The same of the counter.
CountInv ==
    Right =>
      /\ ~inflated => Count <= billed
      /\ Restored => Follows(Count) /\ \A s \in Current : s.calls <= Count

\* The same of counts that are loaded but not restored yet.
PendInv ==
    Right /\ Pending =>
      /\ ~inflated => activation.calls <= billed
      /\ \A s \in Current : s.calls <= Count \/ s.calls <= activation.calls
      /\ Follows(activation.calls)
      /\ currentMinute = Never => \A p \in Fresh :
            (\A q \in Fresh : q.at <= p.at) => activation.calls <= p.calls
      /\ Restored => activation.calls <= Count

\* What a correction is applied to is no less than its figures.
BaseInv ==
    Right /\ InForce(baseline) /\ (~unrestored \/ Pending) =>
      /\ \A s \in Fresh : s.calls >= baseline.calls
      /\ Restored => Count >= baseline.calls
      /\ Pending => activation.calls >= baseline.calls

\* The inductive invariant, relative to TypeOK and SurviveInv.
UsageInv == BillInv /\ OrderInv /\ RowsInv /\ CountInv /\ PendInv /\ BaseInv

\* The types of what the invariant compares.
LEMMA Compared ==
    ASSUME TypeOK
    PROVE  /\ now \in Nat /\ MonthStart(now) \in Nat /\ MonthStart(now) <= now
           /\ Truncate(now) \in Nat /\ Truncate(now) <= now
           /\ billed \in Nat /\ Count \in Nat /\ activation.calls \in Nat
           /\ currentMinute \in Int
           /\ baseline.at \in Int /\ baseline.calls \in Nat
           /\ \A s \in snapshots : s.at \in Nat /\ s.calls \in Nat
           /\ \A e \in Marked : e.at \in Nat /\ e.baseline.calls \in Nat
           /\ \A r \in Readings : r \in Nat /\ billedAt[r] \in Nat
           /\ Fresh \subseteq Current /\ Current \subseteq snapshots
           /\ Marks \subseteq Marked
<1>1. now \in Nat /\ currentMinute \in Int /\ baseline.at \in Int
    BY UsageAssumption DEF TypeOK, Times, Never
<1>2. billed \in Nat /\ activation.calls \in Nat /\ baseline.calls \in Nat
    BY UsageAssumption DEF TypeOK, Counts
<1>3. \A s \in snapshots : s.at \in Nat /\ s.calls \in Nat
    BY UsageAssumption DEF TypeOK, Times, Counts
<1>4. \A e \in Marked : e.at \in Nat /\ e.baseline.calls \in Nat
    BY UsageAssumption DEF TypeOK, Times, Marked
<1>5. \A r \in Readings : r \in Nat /\ billedAt[r] \in Nat
    BY UsageAssumption DEF TypeOK
<1>6. Count \in Nat
    BY TrackerTyped, UsageAssumption DEF Counts
<1>7. Current \subseteq snapshots /\ Marks \subseteq Marked
    BY DEF Current, Marks
<1>8. Fresh \subseteq Current
  <2>1. \A e \in Marks, s \in snapshots : e.at < s.at => e.at <= s.at
      BY <1>3, <1>4, <1>7
  <2> QED
      BY <2>1 DEF Fresh, Current
<1> QED
    BY <1>1, <1>2, <1>3, <1>4, <1>5, <1>6, <1>7, <1>8, Months, Truncates

\* What a step leaves alone that keeps the tables and the month.
LEMMA SameStore ==
    ASSUME snapshots' = snapshots, Marked' = Marked,
           MonthStart(now)' = MonthStart(now)
    PROVE  /\ \A t : SameMonth(t)' <=> SameMonth(t)
           /\ Marks' = Marks /\ Fresh' = Fresh /\ Current' = Current
           /\ \A p, r : RefFor(p, r)' <=> RefFor(p, r)
<1>1. \A t : SameMonth(t)' <=> SameMonth(t)
    BY DEF SameMonth
<1>2. Marks' = Marks
    BY <1>1 DEF Marks
<1>3. Fresh' = Fresh /\ Current' = Current
    BY <1>2 DEF Fresh, Current
<1> QED
    BY <1>1, <1>2, <1>3 DEF RefFor

\* And one that keeps the configuration, the clock and the bill as well.
LEMMA SameFigures ==
    ASSUME snapshots' = snapshots, Marked' = Marked, now' = now,
           baseline' = baseline, billedAt' = billedAt
    PROVE  /\ \A t : SameMonth(t)' <=> SameMonth(t)
           /\ Marks' = Marks /\ Fresh' = Fresh /\ Current' = Current
           /\ \A p, r : RefFor(p, r)' <=> RefFor(p, r)
           /\ Figures' = Figures /\ (Reconfigured' <=> Reconfigured)
           /\ \A b : InForce(b)' <=> InForce(b)
<1>1. MonthStart(now)' = MonthStart(now)
    OBVIOUS
<1>2. /\ \A t : SameMonth(t)' <=> SameMonth(t)
      /\ Marks' = Marks /\ Fresh' = Fresh /\ Current' = Current
      /\ \A p, r : RefFor(p, r)' <=> RefFor(p, r)
    BY <1>1, SameStore
<1>3. Figures' = Figures /\ (Reconfigured' <=> Reconfigured)
    BY <1>2 DEF Figures, Reconfigured
<1> QED
    BY <1>2, <1>3 DEF InForce

\* Only one correction is marked if the configuration names it.
LEMMA RightSound == Right => Sound
    BY DEF Right, Sound, Reconfigured

\* Steps of the activation leave the rows and the figures alone.
LEMMA Quiet ==
    ASSUME UsageInv, snapshots' = snapshots, Marked' = Marked, now' = now,
           baseline' = baseline, billed' = billed, billedAt' = billedAt,
           currentMinute' = currentMinute, inflated' = inflated,
           disturbed' = disturbed
    PROVE  /\ OrderInv' /\ RowsInv'
           /\ Fresh' = Fresh /\ Current' = Current /\ Figures' = Figures
           /\ \A p, r : RefFor(p, r)' <=> RefFor(p, r)
           /\ \A r : Ahead(r)' <=> Ahead(r)
           /\ \A b : InForce(b)' <=> InForce(b)
           /\ \A t : SameMonth(t)' <=> SameMonth(t)
           /\ Right' <=> Right
           /\ (/\ activation'.step # "none" => vehicle' = "client"
               /\ activation'.step \in {"checked", "loaded"} => Count' <= billed)
              => BillInv'
<1>1. /\ Marks' = Marks /\ Fresh' = Fresh /\ Current' = Current
      /\ \A p, r : RefFor(p, r)' <=> RefFor(p, r)
      /\ Figures' = Figures /\ (Reconfigured' <=> Reconfigured)
      /\ \A b : InForce(b)' <=> InForce(b)
      /\ \A t : SameMonth(t)' <=> SameMonth(t)
    BY SameFigures
<1>2. (Right' <=> Right) /\ (Sound' <=> Sound) /\ \A r : Ahead(r)' <=> Ahead(r)
    BY <1>1 DEF Right, Sound, Ahead
<1>3. OrderInv'
    BY <1>1 DEF UsageInv, OrderInv
<1>4. RowsInv'
    BY <1>1, <1>2 DEF UsageInv, RowsInv
<1>5. (/\ activation'.step # "none" => vehicle' = "client"
       /\ activation'.step \in {"checked", "loaded"} => Count' <= billed) => BillInv'
    BY <1>1 DEF UsageInv, BillInv
<1> QED
    BY <1>1, <1>2, <1>3, <1>4, <1>5

\* What the invariant does not look at may change.
LEMMA QuietCounts ==
    ASSUME UsageInv, snapshots' = snapshots, Marked' = Marked, now' = now,
           baseline' = baseline, billed' = billed, billedAt' = billedAt,
           currentMinute' = currentMinute, inflated' = inflated,
           disturbed' = disturbed, unrestored' = unrestored,
           vehicle' = vehicle, activation' = activation, tracker' = tracker
    PROVE  UsageInv'
<1>1. Count' = Count
    BY DEF Count, resetIfNewMonth, NewTracker
<1>2. /\ activation'.step # "none" => vehicle' = "client"
      /\ activation'.step \in {"checked", "loaded"} => Count' <= billed
    BY <1>1 DEF UsageInv, BillInv
<1>3. /\ OrderInv' /\ RowsInv' /\ BillInv'
      /\ Fresh' = Fresh /\ Current' = Current /\ Figures' = Figures
      /\ \A p, r : RefFor(p, r)' <=> RefFor(p, r)
      /\ \A r : Ahead(r)' <=> Ahead(r)
      /\ \A b : InForce(b)' <=> InForce(b)
      /\ \A t : SameMonth(t)' <=> SameMonth(t)
      /\ Right' <=> Right
    BY <1>2, Quiet
<1>4. (Restored' <=> Restored) /\ (Pending' <=> Pending)
    BY <1>3 DEF Restored, Pending
<1>5. CountInv'
    BY <1>1, <1>3, <1>4 DEF UsageInv, CountInv, Follows
<1>6. PendInv'
    BY <1>1, <1>3, <1>4 DEF UsageInv, PendInv, Follows
<1> QED
    BY <1>1, <1>3, <1>4, <1>5, <1>6 DEF UsageInv, BaseInv

\* A new client starts from zero and counts as not restored.
LEMMA ActivateCounts ==
    ASSUME TypeOK, UsageInv, Activate
    PROVE  UsageInv'
<1>1. /\ snapshots' = snapshots /\ Marked' = Marked /\ now' = now
      /\ baseline' = baseline /\ billed' = billed /\ billedAt' = billedAt
      /\ currentMinute' = currentMinute /\ inflated' = inflated
      /\ disturbed' = disturbed
      /\ vehicle' = "client" /\ activation.step = "none"
      /\ activation'.step = "activated"
    BY DEF Activate, storeVars, teslaVars, Idle, Marked, histVars
<1>2. /\ OrderInv' /\ RowsInv' /\ BillInv'
      /\ Fresh' = Fresh /\ Current' = Current /\ Figures' = Figures
      /\ \A p, r : RefFor(p, r)' <=> RefFor(p, r)
      /\ \A r : Ahead(r)' <=> Ahead(r)
      /\ \A b : InForce(b)' <=> InForce(b)
      /\ Right' <=> Right
    BY <1>1, Quiet
<1>3. ~Pending /\ ~Pending'
    BY <1>1 DEF Pending
<1>4. CASE vehicle = "client"
  <2>1. Count' = Count
      BY <1>1, <1>4 DEF Activate, Count, resetIfNewMonth, NewTracker
  <2>2. unrestored' <=> unrestored
      BY <1>4, Zenon DEF Activate, TypeOK
  <2>3. CountInv'
      BY <1>1, <1>2, <1>4, <2>1, <2>2 DEF UsageInv, CountInv, Restored, Follows
  <2> QED
      BY <1>1, <1>2, <1>3, <1>4, <2>1, <2>2, <2>3
      DEF UsageInv, PendInv, BaseInv, Restored
<1>5. CASE vehicle # "client"
  <2>1. unrestored'
    <3>1. vehicle = "unavailable"
        BY <1>5 DEF TypeOK
    <3> QED
        BY <3>1, Zenon DEF Activate
  <2>2. Count' = 0
    <3>1. tracker' = NewTracker
        BY <1>5 DEF Activate
    <3>2. tracker'.calls = 0 /\ tracker'.monthStart = MonthStart(now)
        BY <3>1 DEF NewTracker
    <3> QED
        BY <1>1, <3>2, Compared DEF Count, resetIfNewMonth, NewTracker
  <2>3. 0 <= billed
      BY Compared
  <2> QED
      BY <1>1, <1>2, <1>3, <2>1, <2>2, <2>3
      DEF UsageInv, CountInv, PendInv, BaseInv, Restored
<1> QED
    BY <1>4, <1>5

\* Counts are loaded only into a counter of zero.
LEMMA CheckCounts ==
    ASSUME TypeOK, SurviveInv, UsageInv, CheckUsage
    PROVE  UsageInv'
<1>1. /\ snapshots' = snapshots /\ Marked' = Marked /\ now' = now
      /\ baseline' = baseline /\ billed' = billed /\ billedAt' = billedAt
      /\ currentMinute' = currentMinute /\ inflated' = inflated
      /\ disturbed' = disturbed /\ unrestored' = unrestored
      /\ vehicle' = vehicle /\ activation.step = "activated"
      /\ activation'.step \in {"none", "checked"}
      /\ activation'.step = "checked" => Count = 0
      /\ tracker' = resetIfNewMonth
    BY DEF CheckUsage, storeVars, teslaVars, histVars, Idle, Marked
<1>2. Count' = Count
    BY <1>1, CountRead
<1>3. activation'.step \in {"checked", "loaded"} => Count' <= billed
    BY <1>1, <1>2, Compared
<1>4. activation'.step # "none" => vehicle' = "client"
    BY <1>1 DEF UsageInv, BillInv
<1>5. /\ OrderInv' /\ RowsInv' /\ BillInv'
      /\ Fresh' = Fresh /\ Current' = Current /\ Figures' = Figures
      /\ \A p, r : RefFor(p, r)' <=> RefFor(p, r)
      /\ \A r : Ahead(r)' <=> Ahead(r)
      /\ \A b : InForce(b)' <=> InForce(b)
      /\ Right' <=> Right
    BY <1>1, <1>3, <1>4, Quiet
<1>6. ~Pending /\ ~Pending' /\ (Restored' <=> Restored)
    BY <1>1 DEF Pending, Restored
<1>7. CountInv'
    BY <1>1, <1>2, <1>5, <1>6 DEF UsageInv, CountInv, Follows
<1> QED
    BY <1>1, <1>2, <1>5, <1>6, <1>7 DEF UsageInv, PendInv, BaseInv

\* The loaded counts are as good as the rows they were loaded from.
LEMMA RestoreCounts ==
    ASSUME TypeOK, SurviveInv, UsageInv, Restore
    PROVE  UsageInv'
<1>1. /\ snapshots' = snapshots /\ Marked' = Marked /\ now' = now
      /\ baseline' = baseline /\ billed' = billed /\ billedAt' = billedAt
      /\ currentMinute' = currentMinute /\ inflated' = inflated
      /\ disturbed' = disturbed /\ vehicle' = vehicle
      /\ activation.step = "loaded" /\ activation'.step = "none"
    BY DEF Restore, storeVars, teslaVars, Idle, Marked, histVars
<1>2. /\ OrderInv' /\ RowsInv' /\ BillInv'
      /\ Fresh' = Fresh /\ Current' = Current /\ Figures' = Figures
      /\ \A p, r : RefFor(p, r)' <=> RefFor(p, r)
      /\ \A r : Ahead(r)' <=> Ahead(r)
      /\ \A b : InForce(b)' <=> InForce(b)
      /\ Right' <=> Right
    BY <1>1, Quiet
<1>3. ~Pending' /\ vehicle = "client"
    BY <1>1 DEF Pending, UsageInv, BillInv
<1>4. /\ MonthStart(now) \in Nat /\ activation.calls \in Nat
      /\ \A s \in Current : s.calls \in Nat
    BY Compared
<1>5. CASE SameMonth(activation.at)
  <2>1. tracker' = [calls |-> activation.calls, monthStart |-> MonthStart(now)]
      BY <1>4, <1>5 DEF Restore, SetCounts, SameMonth
  <2>2. Count' = activation.calls
      BY <1>1, <1>4, <2>1 DEF Count, resetIfNewMonth
  <2>3. unrestored' <=> Count # 0
      BY <1>5, Zenon DEF Restore
  <2>4. Pending
      BY <1>1, <1>5 DEF Pending
  <2>5. CountInv'
    <3> SUFFICES ASSUME Right
                 PROVE  /\ ~inflated => Count' <= billed
                        /\ Restored' => Follows(Count)' /\ \A s \in Current : s.calls <= Count'
        BY <1>1, <1>2 DEF CountInv
    <3>1. /\ ~inflated => activation.calls <= billed
          /\ \A s \in Current : s.calls <= Count \/ s.calls <= activation.calls
          /\ Follows(activation.calls)
        BY <2>4 DEF UsageInv, PendInv
    <3>2. Follows(Count)'
        BY <1>1, <1>2, <2>2, <3>1 DEF Follows
    <3>3. ASSUME Restored' PROVE \A s \in Current : s.calls <= Count'
      <4>1. Count = 0
          BY <2>3, <3>3 DEF Restored
      <4> QED
          BY <1>4, <2>2, <3>1, <4>1
    <3> QED
        BY <1>1, <2>2, <3>1, <3>2, <3>3
  <2>6. BaseInv'
      BY <1>1, <1>2, <1>3, <2>2, <2>4 DEF UsageInv, BaseInv
  <2> QED
      BY <1>2, <1>3, <2>5, <2>6 DEF UsageInv, PendInv
<1>6. CASE ~SameMonth(activation.at)
  <2>1. activation.at \in Nat
      BY UsageAssumption DEF TypeOK, Times
  <2>2. MonthStart(activation.at) \in Nat
      BY <2>1, Months
  <2>3. MonthStart(activation.at) < MonthStart(now)
      BY <1>4, <1>6, <2>1, <2>2 DEF SurviveInv, SameMonth, Never
  <2>4. tracker' = tracker /\ unrestored' = unrestored
      BY <1>6, <2>3 DEF Restore, SetCounts
  <2>5. Count' = Count /\ ~Pending /\ (Restored' <=> Restored)
      BY <1>1, <1>6, <2>4 DEF Count, resetIfNewMonth, NewTracker, Pending, Restored
  <2>6. CountInv'
      BY <1>1, <1>2, <2>5 DEF UsageInv, CountInv, Follows
  <2> QED
      BY <1>1, <1>2, <1>3, <2>4, <2>5, <2>6 DEF UsageInv, PendInv, BaseInv
<1> QED
    BY <1>5, <1>6

\* A call is counted and billed.
LEMMA RecordCounts ==
    ASSUME TypeOK, SurviveInv, UsageInv, Record
    PROVE  UsageInv'
<1>1. /\ vehicle' = vehicle /\ currentMinute' = currentMinute /\ baseline' = baseline
      /\ activation' = activation /\ snapshots' = snapshots /\ Marked' = Marked
      /\ now' = now /\ billedAt' = billedAt /\ inflated' = inflated
      /\ unrestored' = unrestored /\ disturbed' = disturbed
      /\ billed' = billed + 1 /\ tracker' = [resetIfNewMonth EXCEPT !.calls = Count + 1]
    BY DEF Record, storeVars, histVars, Count, Marked
<1>2. Count' = Count + 1
  <2>1. Count \in Nat /\ MonthStart(now) \in Nat
      BY Compared
  <2>2. tracker'.calls = Count + 1 /\ tracker'.monthStart = MonthStart(now)
      BY <1>1, <2>1, UsageAssumption
      DEF resetIfNewMonth, NewTracker, SurviveInv, TypeOK, Times
  <2> QED
      BY <1>1, <2>1, <2>2 DEF Count, resetIfNewMonth
<1>3. /\ Marks' = Marks /\ Fresh' = Fresh /\ Current' = Current
      /\ \A p, r : RefFor(p, r)' <=> RefFor(p, r)
      /\ Figures' = Figures /\ (Reconfigured' <=> Reconfigured)
      /\ \A b : InForce(b)' <=> InForce(b)
    BY <1>1, SameFigures
<1>4. (Pending' <=> Pending) /\ (Right' <=> Right) /\ (Restored' <=> Restored)
      /\ (Sound' <=> Sound) /\ (\A r : Ahead(r)' <=> Ahead(r))
    BY <1>1, <1>3 DEF Pending, SameMonth, Right, Restored, Sound, Ahead
<1>5. /\ billed \in Nat /\ Count \in Nat /\ activation.calls \in Nat
      /\ baseline.calls \in Nat
      /\ \A s \in Current : s.at \in Nat /\ s.calls \in Nat
      /\ \A s \in Fresh : s.at \in Nat /\ s.calls \in Nat
      /\ \A r \in Figures : r \in Nat /\ billedAt[r] \in Nat
    BY Compared DEF Figures
<1>6. BillInv'
  <2>1. /\ \A r \in Figures : billedAt[r] <= billed'
        /\ Count <= billed => Count' <= billed'
      BY <1>1, <1>2, <1>5 DEF UsageInv, BillInv
  <2> QED
      BY <1>1, <1>3, <2>1 DEF UsageInv, BillInv
<1>7. OrderInv'
    BY <1>1, <1>3 DEF UsageInv, OrderInv
<1>8. RowsInv'
  <2> SUFFICES ASSUME Sound' PROVE
      /\ \A s \in Current, p \in Fresh : s.at <= p.at => s.calls <= p.calls
      /\ \A r \in Figures, p, s \in Fresh :
            RefFor(p, r) /\ p.at <= s.at /\ r < s.at =>
               s.calls - p.calls <= billed' - billedAt[r]
      /\ ~inflated => \A s \in Current : s.calls <= billed'
      BY <1>1, <1>3 DEF RowsInv
  <2>1. /\ \A s \in Current, p \in Fresh : s.at <= p.at => s.calls <= p.calls
        /\ \A r \in Figures, p, s \in Fresh :
            RefFor(p, r) /\ p.at <= s.at /\ r < s.at =>
               s.calls - p.calls <= billed - billedAt[r]
        /\ ~inflated => \A s \in Current : s.calls <= billed
      BY <1>4 DEF UsageInv, RowsInv
  <2> QED
      BY <1>1, <1>5, <2>1
<1>9. CountInv'
  <2> SUFFICES ASSUME Right
               PROVE  /\ ~inflated => Count' <= billed'
                      /\ Restored => Follows(Count)' /\ \A s \in Current : s.calls <= Count'
      BY <1>1, <1>3, <1>4 DEF CountInv
  <2>1. ~inflated => Count' <= billed'
      BY <1>1, <1>2, <1>5 DEF UsageInv, CountInv
  <2>2. ASSUME Restored PROVE Follows(Count)' /\ \A s \in Current : s.calls <= Count'
    <3>1. Follows(Count) /\ \A s \in Current : s.calls <= Count
        BY <2>2 DEF UsageInv, CountInv
    <3>2. \A s \in Current : s.calls <= Count'
        BY <1>2, <1>5, <3>1
    <3>3. Follows(Count)'
      <4>1. ASSUME NEW r \in Figures, NEW p \in Fresh, RefFor(p, r), Ahead(r)
            PROVE  Count' - p.calls <= billed' - billedAt[r]
        <5>1. Count - p.calls <= billed - billedAt[r]
            BY <3>1, <4>1 DEF Follows
        <5> QED
            BY <1>1, <1>2, <1>5, <5>1
      <4> QED
          BY <1>1, <1>3, <1>4, <4>1 DEF Follows
    <3> QED
        BY <3>2, <3>3
  <2> QED
      BY <2>1, <2>2
<1>10. PendInv'
  <2> SUFFICES ASSUME Right, Pending
               PROVE  /\ ~inflated => activation.calls <= billed'
                      /\ \A s \in Current : s.calls <= Count' \/ s.calls <= activation.calls
                      /\ Follows(activation.calls)'
                      /\ currentMinute = Never => \A p \in Fresh :
                            (\A q \in Fresh : q.at <= p.at) => activation.calls <= p.calls
                      /\ Restored => activation.calls <= Count'
      BY <1>1, <1>3, <1>4 DEF PendInv
  <2>1. /\ ~inflated => activation.calls <= billed
        /\ \A s \in Current : s.calls <= Count \/ s.calls <= activation.calls
        /\ Follows(activation.calls)
        /\ currentMinute = Never => \A p \in Fresh :
              (\A q \in Fresh : q.at <= p.at) => activation.calls <= p.calls
        /\ Restored => activation.calls <= Count
      BY DEF UsageInv, PendInv
  <2>2. /\ ~inflated => activation.calls <= billed'
        /\ \A s \in Current : s.calls <= Count' \/ s.calls <= activation.calls
        /\ Restored => activation.calls <= Count'
      BY <1>1, <1>2, <1>5, <2>1
  <2>3. Follows(activation.calls)'
    <3>1. ASSUME NEW r \in Figures, NEW p \in Fresh, RefFor(p, r), Ahead(r)
          PROVE  activation.calls - p.calls <= billed' - billedAt[r]
      <4>1. activation.calls - p.calls <= billed - billedAt[r]
          BY <2>1, <3>1 DEF Follows
      <4> QED
          BY <1>1, <1>5, <4>1
    <3> QED
        BY <1>1, <1>3, <1>4, <3>1 DEF Follows
  <2> QED
      BY <2>1, <2>2, <2>3
<1>11. BaseInv'
  <2>1. Count >= baseline.calls => Count' >= baseline.calls
      BY <1>2, <1>5
  <2> QED
      BY <1>1, <1>3, <1>4, <2>1 DEF UsageInv, BaseInv
<1> QED
    BY <1>6, <1>7, <1>8, <1>9, <1>10, <1>11 DEF UsageInv

\* The bill does not look at the rows of samples.
LEMMA SampleBilled ==
    ASSUME TypeOK, UsageInv, Sample
    PROVE  BillInv' /\ Count' = Count /\ currentMinute' <= Truncate(now)'
           /\ currentMinute' # Never
<1>1. /\ vehicle' = vehicle /\ activation' = activation /\ baseline' = baseline
      /\ Marked' = Marked /\ now' = now /\ billed' = billed /\ billedAt' = billedAt
      /\ inflated' = inflated /\ snapshots \subseteq snapshots'
      /\ tracker' \in {tracker, resetIfNewMonth} /\ currentMinute' = Truncate(now)
    BY DEF Sample, teslaVars, Marked, histVars, storeVars
<1>2. Count' = Count
  <2>1. CASE tracker' = tracker
      BY <1>1, <2>1 DEF Count, resetIfNewMonth, NewTracker
  <2>2. CASE tracker' = resetIfNewMonth
      BY <1>1, <2>2, CountRead
  <2> QED
      BY <1>1, <2>1, <2>2
<1>3. Marks' = Marks /\ Figures' = Figures /\ \A b : InForce(b)' <=> InForce(b)
    BY <1>1 DEF Marks, Figures, InForce, SameMonth
<1>4. disturbed => disturbed'
    BY DEF Sample
<1>5. BillInv'
  <2>1. BillInv
      BY DEF UsageInv
  <2>2. \A e \in Marks' :
          /\ InForce(e.baseline)'
          /\ \E s \in snapshots' : s.at = e.at /\ s.calls >= e.baseline.calls
    <3> SUFFICES ASSUME NEW e \in Marks
                 PROVE  /\ InForce(e.baseline)'
                        /\ \E s \in snapshots' :
                              s.at = e.at /\ s.calls >= e.baseline.calls
        BY <1>3
    <3> QED
        BY <1>1, <1>3, <2>1 DEF BillInv
  <2>3. ~disturbed' => \A e, f \in Marks' : e.baseline = f.baseline => e = f
      BY <1>3, <1>4, <2>1 DEF BillInv
  <2>4. /\ \A e \in Marked' : e.at <= now'
        /\ \A r \in Figures' : billedAt'[r] <= billed'
        /\ \/ baseline' = NoBaseline
           \/ /\ baseline'.at \in Readings /\ baseline'.at <= now'
              /\ baseline'.calls = billedAt'[baseline'.at]
        /\ Marks' # {} => ~inflated'
        /\ activation'.step # "none" => vehicle' = "client"
        /\ activation'.step \in {"checked", "loaded"} => Count' <= billed'
      BY <1>1, <1>2, <1>3, <2>1 DEF BillInv
  <2> QED
      BY <2>2, <2>3, <2>4 DEF BillInv
<1> QED
    BY <1>1, <1>2, <1>5, Compared DEF Never

\* Without a count nothing is stored.
LEMMA NoSampleCounts ==
    ASSUME TypeOK, UsageInv, Sample, currentMinute = Never \/ vehicle = "unavailable"
    PROVE  UsageInv'
<1>1. /\ vehicle' = vehicle /\ activation' = activation /\ baseline' = baseline
      /\ snapshots' = snapshots /\ Marked' = Marked /\ now' = now
      /\ billed' = billed /\ billedAt' = billedAt
      /\ inflated' = inflated /\ disturbed' = disturbed /\ unrestored' = unrestored
      /\ currentMinute' = Truncate(now)
    BY DEF Sample, teslaVars, Marked, histVars, storeVars
<1>2. BillInv' /\ Count' = Count
      /\ currentMinute' <= Truncate(now)' /\ currentMinute' # Never
    BY SampleBilled
<1>3. /\ Marks' = Marks /\ Fresh' = Fresh /\ Current' = Current
      /\ \A p, r : RefFor(p, r)' <=> RefFor(p, r)
      /\ Figures' = Figures /\ (Reconfigured' <=> Reconfigured)
      /\ \A b : InForce(b)' <=> InForce(b)
      /\ \A t : SameMonth(t)' <=> SameMonth(t)
    BY <1>1, SameFigures
<1>4. /\ (Right' <=> Right) /\ (Sound' <=> Sound)
      /\ (Restored' <=> Restored) /\ (Pending' <=> Pending)
    BY <1>1, <1>3 DEF Right, Sound, Restored, Pending
<1>5. OrderInv'
    BY <1>1, <1>2, <1>3 DEF UsageInv, OrderInv
<1>6. RowsInv'
    BY <1>1, <1>3, <1>4 DEF UsageInv, RowsInv
<1>7. Restored \/ Pending => currentMinute = Never
    BY DEF Restored, Pending, UsageInv, BillInv
<1>8. CountInv'
    BY <1>1, <1>2, <1>3, <1>4, <1>7 DEF UsageInv, CountInv, Follows, Ahead
<1>9. PendInv'
    BY <1>1, <1>2, <1>3, <1>4, <1>7 DEF UsageInv, PendInv, Follows, Ahead
<1>10. BaseInv'
    BY <1>1, <1>2, <1>3, <1>4 DEF UsageInv, BaseInv
<1> QED
    BY <1>2, <1>5, <1>6, <1>8, <1>9, <1>10 DEF UsageInv

\* Nothing is claimed of rows that are not comparable.
LEMMA DisturbedCounts ==
    ASSUME BillInv', currentMinute' <= Truncate(now)', disturbed'
    PROVE  UsageInv'
    BY DEF UsageInv, OrderInv, RowsInv, CountInv, PendInv, BaseInv, Right, Sound

\* The counter of a restored process is stored under the minute that is over.
LEMMA StoredCounts ==
    ASSUME TypeOK, SurviveInv, UsageInv, Sample, currentMinute # Never, ~disturbed,
           Right, Restored,
           disturbed' = FALSE,
           snapshots' = snapshots \union {[at |-> currentMinute, calls |-> Count]}
    PROVE  UsageInv'
<1> DEFINE m == currentMinute
           n == [at |-> m, calls |-> Count]
<1>1. /\ vehicle' = vehicle /\ activation' = activation /\ baseline' = baseline
      /\ Marked' = Marked /\ now' = now
      /\ billed' = billed /\ billedAt' = billedAt
      /\ inflated' = inflated /\ unrestored' = unrestored
      /\ currentMinute' = Truncate(now) /\ m # Truncate(now)
    BY DEF Sample, teslaVars, Marked, histVars, storeVars
<1>2. BillInv' /\ Count' = Count
      /\ currentMinute' <= Truncate(now)' /\ currentMinute' # Never
    BY SampleBilled
<1>3. /\ Marks' = Marks /\ Figures' = Figures /\ (Reconfigured' <=> Reconfigured)
      /\ \A b : InForce(b)' <=> InForce(b)
    BY <1>1 DEF Marks, Figures, InForce, SameMonth, Reconfigured
<1>4. /\ Right' /\ Sound
      /\ (Restored' <=> Restored) /\ (Pending' <=> Pending)
    BY <1>1, <1>3, RightSound DEF Right, Restored, Pending, SameMonth
<1>5. /\ Fresh \subseteq Fresh' /\ Fresh' \subseteq Fresh \union {n}
      /\ Current' \subseteq Current \union {n}
    BY <1>1, <1>3 DEF Fresh, Current
<1>6. n.at = m /\ n.calls = Count
    OBVIOUS
<1>7. /\ m \in Int /\ Truncate(now) \in Nat /\ Count \in Nat /\ billed \in Nat
      /\ activation.calls \in Nat
      /\ \A s \in Current : s.at \in Nat /\ s.calls \in Nat
      /\ \A s \in Fresh : s.at \in Nat /\ s.calls \in Nat
      /\ \A r \in Figures : r \in Nat /\ billedAt[r] \in Nat /\ billedAt[r] <= billed
    BY Compared DEF Figures, UsageInv, BillInv
<1> HIDE DEF n
<1>8. /\ m < Truncate(now)
      /\ \A s \in Fresh : s.at < m /\ s.at < Truncate(now)
    BY <1>1, <1>7 DEF UsageInv, OrderInv
<1>9. /\ \A s \in Current : s.calls <= Count
      /\ Follows(Count) /\ (~inflated => Count <= billed)
    BY DEF UsageInv, CountInv
<1>10. \A p, r : RefFor(p, r)' => RefFor(p, r)
    BY <1>5 DEF RefFor
\* The new row takes the place of earlier ones for figures of its minute or later.
<1>11. ASSUME NEW p \in Fresh, NEW r \in Figures, RefFor(p, r)' PROVE r < m
  <2>1. n \in Fresh'
    <3>1. MonthStart(now) <= p.at /\ \A e \in Marks : e.at < p.at
        BY DEF Fresh
    <3>2. /\ p.at < m /\ p.at \in Nat /\ MonthStart(now) \in Nat
          /\ \A e \in Marks : e.at \in Nat
        BY <1>7, <1>8, Compared
    <3>3. MonthStart(now) <= m /\ \A e \in Marks : e.at < m
        BY <1>7, <3>1, <3>2
    <3> QED
        BY <1>1, <1>3, <1>6, <3>3 DEF Fresh, n
  <2>2. r < p.at \/ n.at <= p.at \/ r < n.at
      BY <1>11, <2>1 DEF RefFor
  <2> QED
      BY <1>6, <1>7, <1>8, <2>2
<1>12. OrderInv'
    BY <1>1, <1>2, <1>5, <1>6, <1>8 DEF OrderInv
<1>13. RowsInv'
  <2>1. ASSUME NEW s \in Current', NEW p \in Fresh', s.at <= p.at PROVE s.calls <= p.calls
    <3>1. CASE s \in Current /\ p \in Fresh
        BY <1>4, <2>1, <3>1 DEF UsageInv, RowsInv
    <3>2. CASE s \in Current /\ p = n
        BY <1>6, <1>9, <3>2
    <3>3. CASE s = n /\ p \in Fresh
        BY <1>6, <1>7, <1>8, <2>1, <3>3
    <3>4. CASE s = n /\ p = n
        BY <1>6, <1>7, <3>4
    <3> QED
        BY <1>5, <3>1, <3>2, <3>3, <3>4
  <2>2. ASSUME NEW r \in Figures, NEW p \in Fresh', NEW s \in Fresh',
               RefFor(p, r)', p.at <= s.at, r < s.at
        PROVE  s.calls - p.calls <= billed - billedAt[r]
    <3>1. CASE s \in Fresh /\ p \in Fresh
        BY <1>4, <1>10, <2>2, <3>1 DEF UsageInv, RowsInv
    <3>2. CASE s = n /\ p \in Fresh
      <4>1. RefFor(p, r) /\ Ahead(r)
          BY <1>6, <1>10, <2>2, <3>2 DEF Ahead
      <4> QED
          BY <1>6, <1>9, <3>2, <4>1 DEF Follows
    <3>3. CASE s \in Fresh /\ p = n
        BY <1>6, <1>7, <1>8, <2>2, <3>3
    <3>4. CASE s = n /\ p = n
        BY <1>6, <1>7, <3>4
    <3> QED
        BY <1>5, <3>1, <3>2, <3>3, <3>4
  <2>3. ASSUME ~inflated, NEW s \in Current' PROVE s.calls <= billed
      BY <1>4, <1>5, <1>6, <1>9, <2>3 DEF UsageInv, RowsInv
  <2> QED
      BY <1>1, <1>3, <2>1, <2>2, <2>3 DEF RowsInv
<1>14. ASSUME NEW k \in Nat, k <= Count,
              \A r \in Figures, p \in Fresh :
                 RefFor(p, r) /\ Ahead(r) => k - p.calls <= billed - billedAt[r],
              NEW r \in Figures, NEW p \in Fresh', RefFor(p, r)'
       PROVE  k - p.calls <= billed - billedAt[r]
  <2>1. CASE p \in Fresh
      BY <1>10, <1>11, <1>14, <2>1 DEF Ahead
  <2>2. CASE p = n
      BY <1>6, <1>7, <1>14, <2>2
  <2> QED
      BY <1>5, <2>1, <2>2
<1>15. CountInv'
  <2>1. Follows(Count)'
    <3>1. ASSUME NEW r \in Figures, NEW p \in Fresh', RefFor(p, r)'
          PROVE  Count - p.calls <= billed - billedAt[r]
        BY <1>7, <1>9, <1>14, <3>1 DEF Follows
    <3> QED
        BY <1>1, <1>2, <1>3, <3>1 DEF Follows
  <2>2. \A s \in Current' : s.calls <= Count
      BY <1>5, <1>6, <1>7, <1>9
  <2> QED
      BY <1>1, <1>2, <1>9, <2>1, <2>2 DEF CountInv
<1>16. PendInv'
  <2> SUFFICES ASSUME Pending PROVE
        /\ ~inflated => activation.calls <= billed
        /\ \A s \in Current' : s.calls <= Count \/ s.calls <= activation.calls
        /\ Follows(activation.calls)'
        /\ activation.calls <= Count
      BY <1>1, <1>2, <1>4 DEF PendInv
  <2>1. /\ ~inflated => activation.calls <= billed
        /\ \A s \in Current : s.calls <= Count \/ s.calls <= activation.calls
        /\ Follows(activation.calls)
        /\ activation.calls <= Count
      BY DEF UsageInv, PendInv
  <2>2. Follows(activation.calls)'
    <3>1. ASSUME NEW r \in Figures, NEW p \in Fresh', RefFor(p, r)'
          PROVE  activation.calls - p.calls <= billed - billedAt[r]
        BY <1>7, <1>14, <2>1, <3>1 DEF Follows
    <3> QED
        BY <1>1, <1>3, <3>1 DEF Follows
  <2>3. \A s \in Current' : s.calls <= Count \/ s.calls <= activation.calls
      BY <1>5, <1>6, <1>7, <2>1
  <2> QED
      BY <2>1, <2>2, <2>3
<1>17. BaseInv'
  <2>1. InForce(baseline) => Count >= baseline.calls
      BY DEF UsageInv, BaseInv, Restored
  <2> QED
      BY <1>1, <1>2, <1>3, <1>4, <1>5, <1>6, <2>1 DEF UsageInv, BaseInv
<1> QED
    BY <1>2, <1>12, <1>13, <1>15, <1>16, <1>17 DEF UsageInv

\* A minute is over.
LEMMA SampleCounts ==
    ASSUME TypeOK, SurviveInv, UsageInv, Sample
    PROVE  UsageInv'
<1>1. BillInv' /\ currentMinute' <= Truncate(now)'
    BY SampleBilled
<1>2. CASE currentMinute = Never \/ vehicle = "unavailable"
    BY <1>2, NoSampleCounts
<1>3. CASE ~(currentMinute = Never \/ vehicle = "unavailable")
  <2>1. vehicle = "client"
      BY <1>3 DEF TypeOK
  <2>2. CASE disturbed'
      BY <1>1, <2>2, DisturbedCounts
  <2>3. CASE ~disturbed'
    <3>1. \/ /\ snapshots' = snapshots \union {[at |-> currentMinute, calls |-> Count]}
             /\ disturbed' = (disturbed \/ unrestored \/ Reconfigured)
          \/ disturbed' = TRUE
        BY <1>3 DEF Sample
    <3>2. snapshots' = snapshots \union {[at |-> currentMinute, calls |-> Count]}
        BY <2>3, <3>1
    <3>3. ~disturbed /\ ~unrestored /\ ~Reconfigured /\ disturbed' = FALSE
        BY <2>3, <3>1, Zenon
    <3>4. Right /\ Restored
        BY <2>1, <3>3 DEF Right, Restored
    <3> QED
        BY <1>3, <3>2, <3>3, <3>4, StoredCounts
  <2> QED
      BY <2>2, <2>3
<1> QED
    BY <1>2, <1>3

\* The rows that are too old are deleted, after their marks.
LEMMA PruneSnapshotsCounts ==
    ASSUME TypeOK, PruneInv, SurviveInv, UsageInv, PruneSnapshots
    PROVE  UsageInv'
<1>1. /\ vehicle' = vehicle /\ tracker' = tracker /\ currentMinute' = currentMinute
      /\ baseline' = baseline /\ activation' = activation
      /\ now' = now /\ billed' = billed /\ billedAt' = billedAt
      /\ inflated' = inflated /\ unrestored' = unrestored
      /\ cutoff # Never /\ snapshots' = Kept(snapshots, cutoff)
      /\ events' = events /\ forgotten' = {}
      /\ disturbed' = (disturbed \/ (Reconfigured /\ Marks' # Marks))
    BY DEF PruneSnapshots, teslaVars
<1>2. /\ Count' = Count /\ Figures' = Figures
      /\ \A b : InForce(b)' <=> InForce(b)
      /\ \A t : SameMonth(t)' <=> SameMonth(t)
      /\ \A r : Ahead(r)' <=> Ahead(r)
    BY <1>1 DEF Count, resetIfNewMonth, NewTracker, Figures, InForce, SameMonth, Ahead
<1>3. (Restored' <=> Restored) /\ (Pending' <=> Pending)
    BY <1>1, <1>2 DEF Restored, Pending
<1> DEFINE limit == cutoff
<1>4. /\ limit \in Int /\ now \in Nat /\ MonthStart(now) \in Nat
      /\ \A s \in snapshots : s.at \in Nat
      /\ \A e \in Marked : e.at \in Nat
      /\ Marks \subseteq Marked
    BY Compared, UsageAssumption DEF TypeOK, Times, Never
<1>5. /\ \A s : s \in snapshots' <=> s \in snapshots /\ s.at >= limit
      /\ \A e : e \in Marks' <=> e \in Marks /\ e.at >= limit
  <2>1. \A s : s \in snapshots' <=> s \in snapshots /\ s.at >= limit
      BY <1>1 DEF Kept
  <2>2. \A e : e \in Marks' <=> e \in events /\ SameMonth(e.at)
      BY <1>1, <1>2 DEF Marks, Marked
  <2>3. \A e \in events : e.at >= limit
      BY <1>1, <1>4 DEF PruneInv, Marked
  <2>4. \A e \in forgotten : ~(e.at >= limit)
      BY <1>1, <1>4 DEF PruneInv, Marked
  <2> QED
      BY <2>1, <2>2, <2>3, <2>4 DEF Marks, Marked
<1> HIDE DEF limit
<1>6. BillInv'
  <2>1. \A e \in Marked' : e \in Marked
      BY <1>1 DEF Marked
  <2>2. ASSUME NEW e \in Marks'
        PROVE  /\ InForce(e.baseline)
               /\ \E s \in snapshots' : s.at = e.at /\ s.calls >= e.baseline.calls
    <3>1. e \in Marks /\ e.at >= limit
        BY <1>5, <2>2
    <3>2. /\ InForce(e.baseline)
          /\ \E s \in snapshots : s.at = e.at /\ s.calls >= e.baseline.calls
        BY <3>1 DEF UsageInv, BillInv
    <3> QED
        BY <1>5, <3>1, <3>2
  <2>3. ~disturbed' => \A e, f \in Marks' : e.baseline = f.baseline => e = f
      BY <1>1, <1>5 DEF UsageInv, BillInv
  <2>4. Marks' # {} => ~inflated
      BY <1>5 DEF UsageInv, BillInv
  <2> QED
      BY <1>1, <1>2, <2>1, <2>2, <2>3, <2>4 DEF UsageInv, BillInv
\* What is deleted is earlier than what is kept, marks and rows alike.
<1>7. ASSUME NEW s \in snapshots'
      PROVE  /\ s \in Fresh' <=> s \in Fresh
             /\ s \in Current' <=> s \in Current
  <2>1. s \in snapshots /\ s.at >= limit /\ s.at \in Nat
      BY <1>4, <1>5, <1>7
  <2>2. ASSUME NEW e \in Marks, e \notin Marks' PROVE e.at < s.at /\ e.at <= s.at
    <3>1. ~(e.at >= limit) /\ e.at \in Nat
        BY <1>4, <1>5, <2>2
    <3> QED
        BY <1>4, <2>1, <3>1
  <2>3. \A e \in Marks' : e \in Marks
      BY <1>5
  <2>4. (\A e \in Marks' : e.at < s.at) <=> (\A e \in Marks : e.at < s.at)
      BY <2>2, <2>3
  <2>5. (\A e \in Marks' : e.at <= s.at) <=> (\A e \in Marks : e.at <= s.at)
      BY <2>2, <2>3
  <2> QED
      BY <1>1, <1>7, <2>1, <2>4, <2>5 DEF Fresh, Current
<1>8. /\ Fresh' \subseteq Fresh /\ Current' \subseteq Current
      /\ \A q \in Fresh : q \notin Fresh' => q.at < limit
      /\ \A p \in Fresh' : limit <= p.at
  <2>1. /\ Fresh' \subseteq snapshots' /\ Current' \subseteq snapshots'
        /\ Fresh \subseteq snapshots
      BY DEF Fresh, Current
  <2>2. Fresh' \subseteq Fresh /\ Current' \subseteq Current
      BY <1>7, <2>1
  <2>3. \A p \in Fresh' : limit <= p.at
      BY <1>4, <1>5, <2>1
  <2>4. ASSUME NEW q \in Fresh, q \notin Fresh' PROVE q.at < limit
    <3>1. q \in snapshots /\ q \notin snapshots' /\ q.at \in Nat
        BY <1>4, <1>7, <2>1, <2>4
    <3> QED
        BY <1>4, <1>5, <3>1
  <2> QED
      BY <2>2, <2>3, <2>4
<1>9. ASSUME NEW p \in Fresh', NEW q \in Fresh, q \notin Fresh' PROVE q.at <= p.at
  <2>1. q.at < limit /\ limit <= p.at
      BY <1>8, <1>9
  <2>2. q.at \in Nat /\ p.at \in Nat
      BY <1>4, <1>8, <1>9 DEF Fresh
  <2> QED
      BY <1>4, <2>1, <2>2
<1>10. \A p \in Fresh' : \A r : RefFor(p, r)' => RefFor(p, r)
    BY <1>9 DEF RefFor
<1>11. CASE disturbed'
  <2>1. currentMinute' <= Truncate(now)'
      BY <1>1 DEF UsageInv, OrderInv
  <2> QED
      BY <1>6, <1>11, <2>1, DisturbedCounts
<1>12. CASE ~disturbed'
  <2>1. ~disturbed /\ (Reconfigured => Marks' = Marks)
      BY <1>1, <1>12, Zenon
  <2>2. (Right' => Right) /\ (Sound' => Sound)
    <3>1. CASE ~Reconfigured
        BY <2>1, <3>1, RightSound DEF Right
    <3>2. CASE Marks' = Marks
        BY <1>1, <2>1, <3>2 DEF Right, Sound, Reconfigured
    <3> QED
        BY <2>1, <3>1, <3>2
  <2>3. OrderInv'
      BY <1>1, <1>8, <2>1 DEF UsageInv, OrderInv
  <2>4. RowsInv'
      BY <1>1, <1>2, <1>8, <1>10, <2>2 DEF UsageInv, RowsInv
  <2>5. CountInv'
      BY <1>1, <1>2, <1>3, <1>8, <1>10, <2>2 DEF UsageInv, CountInv, Follows
  <2>6. PendInv'
    <3>1. \A p \in Fresh' : (\A q \in Fresh' : q.at <= p.at) => \A q \in Fresh : q.at <= p.at
        BY <1>9
    <3> QED
        BY <1>1, <1>2, <1>3, <1>8, <1>10, <2>2, <3>1 DEF UsageInv, PendInv, Follows
  <2>7. BaseInv'
      BY <1>1, <1>2, <1>3, <1>8, <2>2 DEF UsageInv, BaseInv
  <2> QED
      BY <1>6, <2>3, <2>4, <2>5, <2>6, <2>7 DEF UsageInv
<1> QED
    BY <1>11, <1>12

\* The marks that are too old are deleted: they are forgotten first, ...
LEMMA PruneCounts ==
    ASSUME TypeOK, SurviveInv, UsageInv, Prune \/ PruneFails
    PROVE  UsageInv'
<1>1. /\ vehicle' = vehicle /\ tracker' = tracker /\ currentMinute' = currentMinute
      /\ baseline' = baseline /\ activation' = activation
      /\ snapshots' = snapshots /\ Marked' = Marked
      /\ now' = now /\ billed' = billed /\ billedAt' = billedAt
      /\ inflated' = inflated /\ unrestored' = unrestored /\ disturbed' = disturbed
    BY DEF Prune, PruneFails, Kept, Marked, teslaVars, storeVars, histVars
<1> QED
    BY <1>1, QuietCounts

\* Minutes are in order.
LEMMA MinutesPass ==
    ASSUME NEW t \in Nat
    PROVE  Truncate(t) <= Truncate(t + 1)
<1>1. Minute \in Nat \ {0}
    BY UsageAssumption
<1>2. t % Minute \in 0 .. Minute - 1 /\ t % Minute <= t
    BY <1>1
<1>3. (t + 1) % Minute = 0 \/ (t + 1) % Minute = (t % Minute) + 1
    BY <1>1, RemainderSteps
<1> QED
    BY <1>2, <1>3 DEF Truncate

\* Time passes within a month.
LEMMA InstantCounts ==
    ASSUME TypeOK, SurviveInv, UsageInv, Pass, MonthStart(now') = MonthStart(now)
    PROVE  UsageInv'
<1>1. /\ vehicle' = vehicle /\ tracker' = tracker /\ currentMinute' = currentMinute
      /\ baseline' = baseline /\ activation' = activation
      /\ snapshots' = snapshots /\ Marked' = Marked
      /\ now' = now + 1 /\ billed' = billed
      /\ billedAt' = [billedAt EXCEPT ![now'] = billed]
    BY DEF Pass, procVars, storeVars, Marked, histVars
<1>2. /\ inflated' <=> inflated
      /\ unrestored' <=> unrestored
      /\ disturbed' <=> disturbed \/ (now' \in Readings /\ Adrift)
    BY Zenon DEF Pass
<1>3. /\ now \in Nat /\ currentMinute \in Int /\ Truncate(now) \in Nat
      /\ Count \in Nat /\ billed \in Nat /\ activation.calls \in Nat
      /\ \A s \in snapshots : s.at \in Nat /\ s.calls \in Nat
      /\ \A e \in Marked : e.at \in Nat
      /\ \A r \in Readings : r \in Nat /\ billedAt[r] \in Nat
      /\ Fresh \subseteq Current /\ Current \subseteq snapshots
      /\ baseline.at \in Int
    BY Compared
<1>4. /\ Marks' = Marks /\ Fresh' = Fresh /\ Current' = Current
      /\ \A p, r : RefFor(p, r)' <=> RefFor(p, r)
      /\ \A t : SameMonth(t)' <=> SameMonth(t)
    BY <1>1, SameStore
<1>5. /\ \A r \in Figures : r \in Figures' /\ billedAt'[r] = billedAt[r]
      /\ \A r \in Figures' : r \in Figures \/ (r = now' /\ billedAt'[r] = billed)
  <2>1. \A r \in Readings : billedAt'[r] = IF r = now' THEN billed ELSE billedAt[r]
      BY <1>1 DEF TypeOK
  <2>2. \A r \in Readings : r <= now + 1 <=> r <= now \/ r = now + 1
      BY <1>3
  <2>3. \A r \in Readings : r <= now => r # now + 1
      BY <1>3
  <2> QED
      BY <1>1, <2>1, <2>2, <2>3 DEF Figures
<1>6. (Restored' <=> Restored) /\ (Pending' <=> Pending) /\ Count' = Count
      /\ (\A r : Ahead(r)' <=> Ahead(r)) /\ (Reconfigured' <=> Reconfigured)
    BY <1>1, <1>2, <1>4
    DEF Restored, Pending, Count, resetIfNewMonth, NewTracker, Ahead, Reconfigured
<1>7. (Sound' => Sound) /\ (Right' => Right)
    BY <1>2, <1>4, <1>6 DEF Sound, Right
<1>8. InForce(baseline)' => InForce(baseline)
  <2>1. SameMonth(baseline.at) => baseline.at <= now
      BY DEF UsageInv, BillInv, NoBaseline, SameMonth
  <2> QED
      BY <1>1, <1>4, <2>1 DEF InForce
<1>9. \A e \in Marks : InForce(e.baseline) => InForce(e.baseline)'
  <2>1. ASSUME NEW e \in Marks, e.baseline.at <= now PROVE e.baseline.at <= now + 1
    <3>1. e.baseline.at \in Nat
        BY UsageAssumption DEF Marks, Marked, TypeOK, Times
    <3> QED
        BY <1>3, <2>1, <3>1
  <2> QED
      BY <1>1, <1>4, <2>1 DEF InForce
<1>10. BillInv'
  <2>1. \A e \in Marked' : e.at <= now'
      BY <1>1, <1>3 DEF UsageInv, BillInv
  <2>2. \A r \in Figures' : billedAt'[r] <= billed'
      BY <1>1, <1>3, <1>5 DEF UsageInv, BillInv
  <2>3. \/ baseline' = NoBaseline
        \/ /\ baseline'.at \in Readings /\ baseline'.at <= now'
           /\ baseline'.calls = billedAt'[baseline'.at]
    <3>1. CASE baseline = NoBaseline
        BY <1>1, <3>1
    <3>2. CASE baseline.at \in Readings /\ baseline.at <= now
               /\ baseline.calls = billedAt[baseline.at]
      <4>1. baseline.at # now' /\ baseline.at <= now'
          BY <1>1, <1>3, <3>2
      <4>2. billedAt'[baseline.at] = billedAt[baseline.at]
          BY <1>1, <3>2, <4>1 DEF TypeOK
      <4> QED
          BY <1>1, <3>2, <4>1, <4>2
    <3> QED
        BY <3>1, <3>2 DEF UsageInv, BillInv
  <2>4. \A e \in Marks' :
          /\ InForce(e.baseline)'
          /\ \E s \in snapshots' : s.at = e.at /\ s.calls >= e.baseline.calls
      BY <1>1, <1>4, <1>9 DEF UsageInv, BillInv
  <2> QED
      BY <1>1, <1>2, <1>4, <1>6, <2>1, <2>2, <2>3, <2>4 DEF UsageInv, BillInv
<1>11. OrderInv'
  <2>1. Truncate(now) <= Truncate(now') /\ Truncate(now') \in Nat
      BY <1>1, <1>3, MinutesPass, Truncates
  <2>2. currentMinute <= Truncate(now')
      BY <1>3, <2>1 DEF UsageInv, OrderInv
  <2>3. \A s \in Fresh : s.at < Truncate(now) => s.at < Truncate(now')
      BY <1>3, <2>1
  <2> QED
      BY <1>1, <1>2, <1>4, <2>2, <2>3 DEF UsageInv, OrderInv
<1>12. RowsInv'
  <2>1. \A s \in Fresh : ~(now' < s.at)
      BY <1>1, <1>3 DEF SurviveInv
  <2> QED
      BY <1>1, <1>2, <1>4, <1>5, <1>7, <2>1 DEF UsageInv, RowsInv
\* Figures that are read now are compared with the last row.
<1>13. ASSUME Right', NEW n \in Nat,
              \A r \in Figures, p \in Fresh :
                 RefFor(p, r) /\ Ahead(r) => n - p.calls <= billed - billedAt[r],
              currentMinute = Never /\ now' \in Readings => \A p \in Fresh :
                 (\A q \in Fresh : q.at <= p.at) => n <= p.calls,
              NEW r \in Figures', NEW p \in Fresh, RefFor(p, r), Ahead(r)
       PROVE  n - p.calls <= billed - billedAt'[r]
  <2>1. CASE r \in Figures
      BY <1>5, <1>13, <2>1
  <2>2. CASE r = now' /\ billedAt'[r] = billed
    <3>1. currentMinute = Never
        BY <1>1, <1>3, <1>13, <2>2 DEF Ahead, SurviveInv
    <3>2. \A q \in Fresh : ~(r < q.at)
        BY <1>1, <1>3, <2>2 DEF SurviveInv
    <3>3. \A q \in Fresh : q.at <= p.at
        BY <1>13, <3>2 DEF RefFor
    <3>4. now' \in Readings
        BY <2>2 DEF Figures
    <3>5. n <= p.calls
        BY <1>13, <3>1, <3>3, <3>4
    <3>6. p.calls \in Nat
        BY <1>3
    <3> QED
        BY <1>3, <2>2, <3>5, <3>6
  <2> QED
      BY <1>5, <2>1, <2>2
<1>14. CountInv'
  <2> SUFFICES ASSUME Right'
               PROVE  /\ ~inflated => Count <= billed
                      /\ Restored => Follows(Count)' /\ \A s \in Current : s.calls <= Count
      BY <1>1, <1>2, <1>4, <1>6 DEF CountInv
  <2>1. /\ ~inflated => Count <= billed
        /\ Restored => Follows(Count) /\ \A s \in Current : s.calls <= Count
      BY <1>7 DEF UsageInv, CountInv
  <2>2. ASSUME currentMinute = Never, now' \in Readings, NEW p \in Fresh,
               \A q \in Fresh : q.at <= p.at
        PROVE  Count <= p.calls
    <3>1. ~Adrift
        BY <1>2, <2>2 DEF Right
    <3>2. PICK s \in Fresh : ~(s.calls < Count)
        BY <2>2, <3>1 DEF Adrift
    <3>3. s.calls <= p.calls
        BY <1>3, <1>7, <2>2, RightSound DEF UsageInv, RowsInv
    <3>4. s.calls \in Nat /\ p.calls \in Nat
        BY <1>3
    <3> QED
        BY <1>3, <3>2, <3>3, <3>4
  <2>3. ASSUME Restored PROVE Follows(Count)'
    <3>1. ASSUME NEW r \in Figures', NEW p \in Fresh, RefFor(p, r), Ahead(r)
          PROVE  Count - p.calls <= billed - billedAt'[r]
        BY <1>3, <1>13, <2>1, <2>2, <2>3, <3>1 DEF Follows
    <3> QED
        BY <1>1, <1>4, <1>6, <3>1 DEF Follows
  <2> QED
      BY <2>1, <2>3
<1>15. PendInv'
  <2> SUFFICES ASSUME Right', Pending
               PROVE  /\ ~inflated => activation.calls <= billed
                      /\ \A s \in Current : s.calls <= Count \/ s.calls <= activation.calls
                      /\ Follows(activation.calls)'
                      /\ currentMinute = Never => \A p \in Fresh :
                            (\A q \in Fresh : q.at <= p.at) => activation.calls <= p.calls
                      /\ Restored => activation.calls <= Count
      BY <1>1, <1>2, <1>4, <1>6 DEF PendInv
  <2>1. /\ ~inflated => activation.calls <= billed
        /\ \A s \in Current : s.calls <= Count \/ s.calls <= activation.calls
        /\ Follows(activation.calls)
        /\ currentMinute = Never => \A p \in Fresh :
              (\A q \in Fresh : q.at <= p.at) => activation.calls <= p.calls
        /\ Restored => activation.calls <= Count
      BY <1>7 DEF UsageInv, PendInv
  <2>2. Follows(activation.calls)'
    <3>1. ASSUME NEW r \in Figures', NEW p \in Fresh, RefFor(p, r), Ahead(r)
          PROVE  activation.calls - p.calls <= billed - billedAt'[r]
        BY <1>3, <1>13, <2>1, <3>1 DEF Follows
    <3> QED
        BY <1>1, <1>4, <1>6, <3>1 DEF Follows
  <2> QED
      BY <2>1, <2>2
<1>16. BaseInv'
    BY <1>1, <1>2, <1>4, <1>6, <1>7, <1>8 DEF UsageInv, BaseInv
<1> QED
    BY <1>10, <1>11, <1>12, <1>14, <1>15, <1>16 DEF UsageInv

\* A month begins without rows, figures, marks and calls.
LEMMA MonthCounts ==
    ASSUME TypeOK, SurviveInv, UsageInv, Pass, MonthStart(now') = now + 1
    PROVE  UsageInv'
<1>1. /\ vehicle' = vehicle /\ tracker' = tracker /\ currentMinute' = currentMinute
      /\ baseline' = baseline /\ activation' = activation
      /\ snapshots' = snapshots /\ Marked' = Marked /\ now' = now + 1
    BY DEF Pass, procVars, storeVars, Marked, histVars
<1>2. /\ now \in Nat /\ MonthStart(now) \in Nat /\ MonthStart(now) <= now
      /\ currentMinute \in Int /\ Truncate(now) \in Nat
      /\ \A s \in snapshots : s.at \in Nat
      /\ \A e \in Marked : e.at \in Nat
      /\ \A r \in Readings : r \in Nat /\ billedAt[r] \in Nat
      /\ baseline.at \in Int
      /\ activation.at \in Nat /\ tracker.monthStart \in Nat
    BY Compared, UsageAssumption DEF TypeOK, Times
<1>3. MonthStart(now') # MonthStart(now)
    BY <1>1, <1>2
<1>4. billed' = 0 /\ billedAt' = [billedAt EXCEPT ![now'] = 0] /\ ~inflated' /\ ~disturbed'
    BY <1>3, Zenon DEF Pass
<1>5. ASSUME NEW t \in Nat, t <= now PROVE ~SameMonth(t)' /\ ~(MonthStart(now') <= t)
  <2>1. MonthStart(t) \in Nat /\ MonthStart(t) <= t
      BY Months
  <2> QED
      BY <1>1, <1>2, <1>5, <2>1 DEF SameMonth
<1>6. Marks' = {} /\ Fresh' = {} /\ Current' = {}
  <2>1. \A e \in Marked : ~SameMonth(e.at)'
      BY <1>2, <1>5 DEF UsageInv, BillInv
  <2>2. \A s \in snapshots : ~(MonthStart(now') <= s.at)
      BY <1>2, <1>5 DEF SurviveInv
  <2> QED
      BY <1>1, <2>1, <2>2 DEF Marks, Fresh, Current
<1>7. \A r \in Figures' : r = now' /\ billedAt'[r] = 0
  <2>1. ASSUME NEW r \in Figures' PROVE r = now' /\ r \in Readings
      BY <1>1, <1>2, <2>1 DEF Figures
  <2> QED
      BY <1>4, <2>1 DEF TypeOK
<1>8. Count' = 0
  <2>1. MonthStart(now') > tracker'.monthStart
      BY <1>1, <1>2 DEF SurviveInv
  <2> QED
      BY <2>1 DEF Count, resetIfNewMonth, NewTracker
<1>9. ~Pending'
  <2>1. activation.at <= now
      BY DEF SurviveInv
  <2> QED
      BY <1>1, <1>2, <1>5, <2>1 DEF Pending
<1>10. ~InForce(baseline)'
  <2>1. CASE baseline = NoBaseline
      BY <1>1, <2>1 DEF InForce, SameMonth, NoBaseline
  <2>2. CASE baseline.at \in Readings /\ baseline.at <= now
      BY <1>1, <1>2, <1>5, <2>2 DEF InForce
  <2> QED
      BY <2>1, <2>2 DEF UsageInv, BillInv
<1>11. BillInv'
  <2>1. \A e \in Marked' : e.at <= now'
      BY <1>1, <1>2 DEF UsageInv, BillInv
  <2>2. \A r \in Figures' : billedAt'[r] <= billed'
      BY <1>4, <1>7
  <2>3. \/ baseline' = NoBaseline
        \/ /\ baseline'.at \in Readings /\ baseline'.at <= now'
           /\ baseline'.calls = billedAt'[baseline'.at]
    <3>1. CASE baseline = NoBaseline
        BY <1>1, <3>1
    <3>2. CASE baseline.at \in Readings /\ baseline.at <= now
               /\ baseline.calls = billedAt[baseline.at]
      <4>1. baseline.at # now' /\ baseline.at <= now'
          BY <1>1, <1>2, <3>2
      <4>2. billedAt'[baseline.at] = billedAt[baseline.at]
          BY <1>4, <3>2, <4>1 DEF TypeOK
      <4> QED
          BY <1>1, <3>2, <4>1, <4>2
    <3> QED
        BY <3>1, <3>2 DEF UsageInv, BillInv
  <2>4. Count' <= billed'
      BY <1>4, <1>8
  <2> QED
      BY <1>1, <1>6, <2>1, <2>2, <2>3, <2>4 DEF UsageInv, BillInv
<1>12. OrderInv'
  <2>1. Truncate(now) <= Truncate(now') /\ Truncate(now') \in Nat
      BY <1>1, <1>2, MinutesPass, Truncates
  <2>2. currentMinute <= Truncate(now')
      BY <1>2, <2>1 DEF UsageInv, OrderInv
  <2> QED
      BY <1>1, <1>6, <2>2 DEF OrderInv
<1>13. RowsInv'
    BY <1>6 DEF RowsInv
<1>14. CountInv'
  <2>1. Count' <= billed'
      BY <1>4, <1>8
  <2> QED
      BY <1>6, <2>1 DEF CountInv, Follows
<1> QED
    BY <1>9, <1>10, <1>11, <1>12, <1>13, <1>14 DEF UsageInv, PendInv, BaseInv

\* Time passes.
LEMMA PassCounts ==
    ASSUME TypeOK, SurviveInv, UsageInv, Pass
    PROVE  UsageInv'
<1>1. now \in Nat /\ now' = now + 1
    BY Compared DEF Pass
<1>2. MonthStart(now') \in {MonthStart(now), now + 1}
    BY <1>1, Months
<1> QED
    BY <1>2, InstantCounts, MonthCounts

\* The configured baseline is one that was read.
LEMMA Configured == TypeOK /\ UsageInv => baseline \in Baselines
<1> SUFFICES ASSUME TypeOK, UsageInv PROVE baseline \in Baselines
    OBVIOUS
<1>1. baseline = [at |-> baseline.at, calls |-> baseline.calls]
    BY DEF TypeOK
<1>2. CASE baseline = NoBaseline
    BY <1>2 DEF Baselines
<1>3. CASE /\ baseline.at \in Readings /\ baseline.at <= now
           /\ baseline.calls = billedAt[baseline.at]
    BY <1>1, <1>3 DEF Baselines
<1> QED
    BY <1>2, <1>3 DEF UsageInv, BillInv

\* The rows that a load reads are the ones from the correction on.
LEMMA ReadsCurrent ==
    ASSUME TypeOK, SurviveInv, UsageInv, ~disturbed, NEW b, \A e \in Marks : e.baseline = b,
           NEW from \in IF InForce(b) THEN AppliedAt(b) ELSE {MonthStart(now)}
    PROVE  /\ QueryAPIUsage(from) = Current
           /\ InForce(b) => \E c \in Current :
                 c.calls >= b.calls /\ \A s \in Fresh : c.at <= s.at
<1>0. /\ \A s \in snapshots : s.at \in Nat /\ s.at <= now
      /\ \A e \in Marked : e.at \in Nat
      /\ MonthStart(now) \in Nat /\ Marks \subseteq Marked
    BY Compared DEF SurviveInv
<1>1. CASE InForce(b)
  <2>1. PICK e \in Marks : e.at = from /\ e.baseline = b
      BY <1>1 DEF AppliedAt, Marks, Marked
  <2>2. Marks = {e}
      BY <2>1 DEF UsageInv, BillInv
  <2>3. MonthStart(now) <= e.at /\ e.at \in Nat
    <3>1. e.at \in Nat /\ MonthStart(e.at) = MonthStart(now)
        BY <1>0, <2>1 DEF Marks, SameMonth
    <3> QED
        BY <3>1, Months
  <2>4. \A s \in snapshots : from <= s.at => MonthStart(now) <= s.at
      BY <1>0, <2>1, <2>3
  <2>5. QueryAPIUsage(from) = Current
      BY <1>0, <2>1, <2>2, <2>4 DEF QueryAPIUsage, Current
  <2>6. PICK c \in snapshots : c.at = e.at /\ c.calls >= b.calls
      BY <2>1 DEF UsageInv, BillInv
  <2>7. c \in Current
      BY <1>0, <2>2, <2>3, <2>6 DEF Current
  <2>8. ASSUME NEW s \in Fresh PROVE c.at <= s.at
    <3>1. e.at < s.at /\ s \in snapshots
        BY <2>1 DEF Fresh
    <3>2. s.at \in Nat
        BY <1>0, <3>1
    <3> QED
        BY <2>3, <2>6, <3>1, <3>2
  <2> QED
      BY <2>5, <2>6, <2>7, <2>8
<1>2. CASE ~InForce(b)
  <2>1. Marks = {}
      BY <1>2 DEF UsageInv, BillInv
  <2> QED
      BY <1>0, <1>2, <2>1 DEF QueryAPIUsage, Current
<1> QED
    BY <1>1, <1>2

\* The highest of these rows may follow them.
LEMMA PeakFollows ==
    ASSUME TypeOK, UsageInv, Sound, NEW n \in Counts, IsPeak(Current, n)
    PROVE  /\ \A r \in Figures, p \in Fresh :
                 RefFor(p, r) => n - p.calls <= billed - billedAt[r]
           /\ \A p \in Fresh : (\A q \in Fresh : q.at <= p.at) => n <= p.calls
           /\ ~inflated => n <= billed
<1>0. /\ n \in Nat /\ billed \in Nat /\ Fresh \subseteq Current
      /\ \A s \in Current : s.at \in Nat /\ s.calls \in Nat
      /\ \A r \in Figures : r \in Nat /\ billedAt[r] \in Nat /\ billedAt[r] <= billed
    BY Compared, UsageAssumption DEF Counts, Figures, UsageInv, BillInv
<1>1. CASE n = 0
    BY <1>0, <1>1
<1>2. ASSUME NEW s \in Current, n = s.calls
      PROVE  /\ \A r \in Figures, p \in Fresh :
                   RefFor(p, r) => n - p.calls <= billed - billedAt[r]
             /\ \A p \in Fresh : (\A q \in Fresh : q.at <= p.at) => n <= p.calls
             /\ ~inflated => n <= billed
  <2>1. /\ \A p \in Fresh : s.at <= p.at => s.calls <= p.calls
        /\ ~inflated => s.calls <= billed
      BY DEF UsageInv, RowsInv
  <2>2. ASSUME NEW p \in Fresh, ~(s.at <= p.at) PROVE s \in Fresh /\ p.at < s.at
    <3>1. p.at < s.at
        BY <1>0, <2>2
    <3>2. MonthStart(now) <= s.at /\ s \in snapshots
        BY DEF Current
    <3>3. ASSUME NEW e \in Marks PROVE e.at < s.at
      <4>1. e.at < p.at /\ e.at \in Nat
          BY Compared DEF Fresh
      <4> QED
          BY <1>0, <3>1, <4>1
    <3> QED
        BY <3>1, <3>2, <3>3 DEF Fresh
  <2>3. ASSUME NEW r \in Figures, NEW p \in Fresh, RefFor(p, r)
        PROVE  n - p.calls <= billed - billedAt[r]
    <3>1. CASE s.at <= p.at
        BY <1>0, <1>2, <2>1, <3>1
    <3>2. CASE ~(s.at <= p.at)
      <4>1. s \in Fresh /\ p.at < s.at
          BY <2>2, <3>2
      <4>2. r < s.at
          BY <1>0, <2>3, <3>2, <4>1 DEF RefFor
      <4>3. p.at <= s.at
          BY <1>0, <4>1
      <4> QED
          BY <1>2, <2>3, <4>1, <4>2, <4>3 DEF UsageInv, RowsInv
    <3> QED
        BY <3>1, <3>2
  <2>4. ASSUME NEW p \in Fresh, \A q \in Fresh : q.at <= p.at PROVE n <= p.calls
      BY <1>2, <2>1, <2>2, <2>4
  <2> QED
      BY <1>2, <2>1, <2>3, <2>4
<1> QED
    BY <1>1, <1>2 DEF IsPeak

\* What a correction stores: at least its figures; as the first of the month, if
\* the rows are comparable, no more than Tesla billed and no more than a
\* restored counter.
LEMMA AppliedCalls ==
    ASSUME TypeOK, SurviveInv, UsageInv, NEW b, NEW failed \in BOOLEAN,
           NEW calls \in Counts, InForce(b),
           b.at \in Readings, b.calls = billedAt[b.at],
           applyBaseline(b, failed, calls)
    PROVE  /\ b.calls <= calls
           /\ ~disturbed /\ Marks = {} =>
                /\ calls <= billed
                /\ b = baseline /\ Restored => calls <= Count
<1> DEFINE rows == QueryAPIUsage(MonthStart(now))
           none == [at |-> Never, calls |-> 0]
<1>1. PICK ref \in IF rows = {} THEN {none} ELSE References(b, rows), peak \in Counts :
          /\ IsPeak({s \in rows : s.at > b.at} \union {ref}, peak)
          /\ calls = b.calls + (peak - ref.calls)
    BY DEF applyBaseline
<1>2. /\ billed \in Nat /\ b.calls \in Nat /\ b.at \in Nat /\ peak \in Nat /\ Count \in Nat
      /\ \A s \in snapshots : s.at \in Nat /\ s.calls \in Nat /\ s.at <= now
      /\ Fresh \subseteq Current
  <2>1. b.calls \in Nat /\ b.at \in Nat /\ peak \in Nat
      BY UsageAssumption DEF Counts, TypeOK
  <2> QED
      BY <2>1, Compared DEF SurviveInv
<1>3. rows \subseteq snapshots
    BY DEF QueryAPIUsage
<1>4. ref.calls \in Nat /\ (rows # {} => ref \in rows)
  <2>1. CASE rows = {}
    <3>1. ref.calls = 0
        BY <1>1, <2>1
    <3> QED
        BY <2>1, <3>1
  <2>2. CASE rows # {}
    <3>1. ref \in rows
        BY <1>1, <2>2 DEF References
    <3> QED
        BY <1>2, <1>3, <3>1
  <2> QED
      BY <2>1, <2>2
<1>5. ref.calls <= peak
    BY <1>1 DEF IsPeak
<1>6. b.calls <= calls
    BY <1>1, <1>2, <1>4, <1>5
<1>7. b.at \in Figures
  <2>1. MonthStart(b.at) = MonthStart(now) /\ b.at <= now
      BY DEF InForce, SameMonth
  <2>2. MonthStart(now) <= b.at
      BY <1>2, <2>1, Months
  <2> QED
      BY <2>1, <2>2 DEF Figures
<1>8. b.calls <= billed
    BY <1>7 DEF UsageInv, BillInv
<1>9. ASSUME ~disturbed, Marks = {}
      PROVE  /\ calls <= billed
             /\ b = baseline /\ Restored => calls <= Count
  <2>1. rows = Fresh
      BY <1>2, <1>9 DEF QueryAPIUsage, Fresh
  <2>2. Sound /\ Right
      BY <1>9 DEF Sound, Right, Reconfigured
  <2> HIDE DEF rows, none
  <2>3. ASSUME b = baseline, Restored
        PROVE  /\ baseline.calls <= Count
               /\ \A s \in Fresh : baseline.calls <= s.calls /\ s.calls <= Count
    <3>1. /\ \A s \in Fresh : s.calls >= baseline.calls
          /\ Count >= baseline.calls
        BY <2>2, <2>3 DEF UsageInv, BaseInv, Restored
    <3>2. \A s \in Current : s.calls <= Count
        BY <2>2, <2>3 DEF UsageInv, CountInv
    <3>3. baseline.calls \in Nat /\ \A s \in Fresh : s.calls \in Nat
        BY Compared
    <3> QED
        BY <1>2, <3>1, <3>2, <3>3
  <2>4. CASE peak = ref.calls
    <3>1. calls = b.calls
        BY <1>1, <1>2, <1>4, <2>4
    <3> QED
        BY <1>8, <2>3, <3>1
  <2>5. CASE peak # ref.calls
    <3>1. PICK s \in rows : s.at > b.at /\ peak = s.calls
      <4>1. peak # 0
          BY <1>2, <1>4, <1>5, <2>5
      <4> QED
          BY <1>1, <2>5, <4>1 DEF IsPeak
    <3>2. ref \in Fresh /\ s \in Fresh
        BY <1>4, <2>1, <3>1
    <3>3. /\ ref.at \in Nat /\ s.at \in Nat /\ s.calls \in Nat /\ ref \in References(b, rows)
          /\ \A q \in rows : q.at \in Nat
        BY <1>1, <1>2, <1>3, <3>1, <3>2 DEF Fresh
    <3>4. RefFor(ref, b.at) /\ ref.at <= s.at /\ b.at < s.at
      <4>1. CASE {q \in rows : q.at <= b.at} # {}
        <5>1. ref.at <= b.at /\ \A q \in rows : q.at <= b.at => q.at <= ref.at
            BY <3>3, <4>1 DEF References
        <5>2. \A q \in Fresh : q.at <= ref.at \/ b.at < q.at
            BY <1>2, <2>1, <3>3, <5>1
        <5> QED
            BY <1>2, <3>1, <3>3, <5>1, <5>2 DEF RefFor
      <4>2. CASE {q \in rows : q.at <= b.at} = {}
        <5>1. \A q \in rows : ref.at <= q.at
            BY <3>3, <4>2 DEF References
        <5>2. b.at < ref.at
            BY <1>2, <1>4, <3>1, <3>3, <4>2
        <5> QED
            BY <1>2, <3>1, <3>3, <5>1, <5>2 DEF RefFor
      <4> QED
          BY <4>1, <4>2
    <3>5. s.calls - ref.calls <= billed - b.calls
        BY <1>7, <2>2, <3>2, <3>4 DEF UsageInv, RowsInv
    <3>6. calls <= billed
        BY <1>1, <1>2, <1>4, <3>1, <3>3, <3>5
    <3>7. ASSUME b = baseline, Restored PROVE calls <= Count
      <4>1. b.calls <= ref.calls /\ s.calls <= Count
          BY <2>3, <3>2, <3>7
      <4> QED
          BY <1>1, <1>2, <1>4, <3>1, <3>3, <4>1
    <3> QED
        BY <3>6, <3>7
  <2> QED
      BY <2>4, <2>5
<1> QED
    BY <1>6, <1>9

\* A baseline has the figures that Tesla showed at its time.
LEMMA FiguresRead ==
    ASSUME NEW b \in Baselines
    PROVE  b = NoBaseline \/ (b.at \in Readings /\ b.at <= now /\ b.calls = billedAt[b.at])
    BY DEF Baselines

\* After a correction that is marked its own row is the only one of the month
\* that counts.
LEMMA AppliedStore ==
    ASSUME TypeOK, SurviveInv, UsageInv, NEW b, NEW calls \in Counts,
           applyBaseline(b, FALSE, calls), now' = now, forgotten' = forgotten
    PROVE  /\ Marks' = Marks \union {[baseline |-> b, at |-> now]}
           /\ Fresh' = {}
           /\ ~disturbed /\ Marks = {} =>
                Current' = {[at |-> now, calls |-> calls]}
           /\ Marks # {} /\ (\A f \in Marks : f.baseline # b) =>
                ~Sound' /\ (baseline' = b => ~Right')
<1> DEFINE c == [at |-> now, calls |-> calls]
           e == [baseline |-> b, at |-> now]
<1>1. snapshots' = snapshots \union {c} /\ events' = events \union {e}
    BY DEF applyBaseline
<1>2. c.at = now /\ e.at = now /\ e.baseline = b
    OBVIOUS
<1>3. /\ now \in Nat /\ MonthStart(now) \in Nat /\ MonthStart(now) <= now
      /\ Truncate(now) \in Nat /\ Truncate(now) <= now
      /\ \A s \in snapshots : s.at \in Nat /\ s.at <= now
    BY Compared DEF SurviveInv
<1> HIDE DEF c, e
<1>4. SameMonth(now)
    BY <1>3 DEF SameMonth, Never
<1>5. Marks' = Marks \union {e}
    BY <1>1, <1>2, <1>4 DEF Marks, Marked, SameMonth
<1>6. \A s \in snapshots' : ~(now < s.at)
    BY <1>1, <1>2, <1>3
<1>7. Fresh' = {}
    BY <1>2, <1>5, <1>6 DEF Fresh
<1>8. ASSUME ~disturbed, Marks = {} PROVE Current' = {c}
  <2>1. ASSUME NEW s \in snapshots, MonthStart(now) <= s.at PROVE ~(now <= s.at)
    <3>1. s \in Fresh
        BY <1>8, <2>1 DEF Fresh
    <3>2. s.at < Truncate(now)
        BY <1>8, <3>1 DEF UsageInv, OrderInv
    <3> QED
        BY <1>3, <2>1, <3>2
  <2>2. c \in Current'
      BY <1>1, <1>2, <1>3, <1>5, <1>8 DEF Current
  <2>3. ASSUME NEW s \in Current' PROVE s = c
    <3>1. s \in snapshots' /\ MonthStart(now) <= s.at /\ now <= s.at
        BY <1>2, <1>5 DEF Current
    <3> QED
        BY <1>1, <2>1, <3>1
  <2> QED
      BY <2>2, <2>3
<1>9. ASSUME Marks # {}, \A f \in Marks : f.baseline # b
      PROVE  ~Sound' /\ (baseline' = b => ~Right')
  <2>1. PICK f \in Marks : TRUE
      BY <1>9
  <2>2. f.baseline # b
      BY <1>9
  <2>3. f \in Marks' /\ e \in Marks'
      BY <1>5
  <2> QED
      BY <1>2, <2>2, <2>3 DEF Sound, Right, Reconfigured
<1> QED
    BY <1>5, <1>7, <1>8, <1>9 DEF c, e

\* A load of any outcome keeps what relates rows, marks and figures.
LEMMA LoadBilled ==
    ASSUME TypeOK, SurviveInv, UsageInv, NEW b \in Baselines,
           NEW failed \in BOOLEAN, NEW found \in BOOLEAN, NEW calls \in Counts,
           LoadAPIUsage(b, failed, found, calls), baseline' = b, now' = now,
           forgotten' = forgotten, billed' = billed, billedAt' = billedAt,
           activation'.step # "none" => vehicle' = "client",
           activation'.step \in {"checked", "loaded"} => Count' <= billed
    PROVE  BillInv'
<1>0. \A t : SameMonth(t)' <=> SameMonth(t)
    BY DEF SameMonth
<1>1. Figures' = Figures /\ \A x : InForce(x)' <=> InForce(x)
    BY <1>0 DEF Figures, InForce
<1>2. b = NoBaseline \/ (b.at \in Readings /\ b.at <= now /\ b.calls = billedAt[b.at])
    BY FiguresRead
<1>3. CASE /\ snapshots' = snapshots /\ events' = events
           /\ inflated' = inflated /\ disturbed' = disturbed
  <2>1. Marks' = Marks /\ Marked' = Marked
      BY <1>0, <1>3 DEF Marks, Marked
  <2> QED
      BY <1>1, <1>2, <1>3, <2>1 DEF UsageInv, BillInv
<1>4. CASE InForce(b) /\ AppliedAt(b) = {} /\ applyBaseline(b, failed, calls)
  <2> DEFINE c == [at |-> now, calls |-> calls]
             e == [baseline |-> b, at |-> now]
  <2>1. snapshots' = snapshots \union {c} /\ c.at = now /\ c.calls = calls
      BY <1>4 DEF applyBaseline
  <2>2. CASE failed
    <3>1. Marked' = Marked /\ (inflated' <=> inflated) /\ disturbed'
        BY <1>4, <2>2, Zenon DEF applyBaseline, TypeOK, Marked
    <3>2. Marks' = Marks
        BY <1>0, <3>1 DEF Marks
    <3> QED
        BY <1>1, <1>2, <2>1, <3>1, <3>2 DEF UsageInv, BillInv
  <2>3. CASE ~failed
    <3>1. applyBaseline(b, FALSE, calls)
      <4>1. failed = FALSE
          BY <2>3
      <4> QED
          BY <1>4, <4>1
    <3>2. /\ ~inflated' /\ events' = events \union {e} /\ e.at = now /\ e.baseline = b
          /\ disturbed' <=> disturbed \/ \E f \in Marks : f.baseline = b
        BY <3>1, Zenon DEF applyBaseline
    <3>3. Marks' = Marks \union {e}
        BY <1>4, <3>1, AppliedStore
    <3>4. b.calls <= calls
        BY <1>2, <1>4, AppliedCalls DEF InForce, SameMonth, NoBaseline
    <3>5. b.calls \in Nat /\ calls \in Nat
        BY BaselinesTyped, UsageAssumption DEF Counts
    <3> HIDE DEF c, e
    <3>6. Marked' = Marked \union {e}
        BY <3>2 DEF Marked
    <3>7. ~disturbed' => \A f, g \in Marks' : f.baseline = g.baseline => f = g
        BY <3>2, <3>3 DEF UsageInv, BillInv
    <3>8. \A f \in Marks' :
            /\ InForce(f.baseline)'
            /\ \E s \in snapshots' : s.at = f.at /\ s.calls >= f.baseline.calls
      <4>1. c.at = e.at /\ c.calls >= e.baseline.calls /\ c \in snapshots'
          BY <2>1, <3>2, <3>4, <3>5
      <4> QED
          BY <1>1, <1>4, <2>1, <3>2, <3>3, <4>1 DEF UsageInv, BillInv
    <3>9. \A f \in Marked' : f.at <= now
        BY <3>2, <3>6, Compared DEF UsageInv, BillInv
    <3> QED
        BY <1>1, <1>2, <3>2, <3>7, <3>8, <3>9 DEF UsageInv, BillInv
  <2> QED
      BY <2>2, <2>3
<1> QED
    BY <1>3, <1>4 DEF LoadAPIUsage, storeVars

\* The process starts, with a load of any outcome.
LEMMA RestartCounts ==
    ASSUME TypeOK, SurviveInv, UsageInv, NEW v \in {"unavailable", "client"},
           NEW b \in Baselines, Restart(v, b)
    PROVE  UsageInv'
<1>1. PICK failed \in BOOLEAN, found \in BOOLEAN, calls \in Counts :
          /\ LoadAPIUsage(b, failed, found, calls)
          /\ tracker' = IF v = "client" /\ found
                        THEN [calls |-> calls, monthStart |-> MonthStart(now)]
                        ELSE NewTracker
          /\ unrestored' = failed
    BY DEF Restart
<1>2. /\ vehicle' = v /\ baseline' = b /\ currentMinute' = Never
      /\ activation'.step = "none" /\ ~Pending'
      /\ now' = now /\ forgotten' = forgotten
      /\ billed' = billed /\ billedAt' = billedAt
    BY DEF Restart, teslaVars, Idle, Pending
<1>3. /\ MonthStart(now) \in Nat /\ Truncate(now) \in Nat /\ billed \in Nat
      /\ calls \in Nat
    BY Compared, UsageAssumption DEF Counts
<1>4. Count' = IF v = "client" /\ found THEN calls ELSE 0
  <2>1. tracker'.monthStart = MonthStart(now)
        /\ tracker'.calls = IF v = "client" /\ found THEN calls ELSE 0
      BY <1>1 DEF NewTracker
  <2> QED
      BY <1>2, <1>3, <2>1 DEF Count, resetIfNewMonth
<1>5. BillInv'
    BY <1>1, <1>2, LoadBilled
<1>6. currentMinute' <= Truncate(now)'
    BY <1>2, <1>3 DEF Never
<1>7. PendInv'
    BY <1>2 DEF PendInv
<1>8. b = NoBaseline \/ (b.at \in Readings /\ b.at <= now /\ b.calls = billedAt[b.at])
    BY FiguresRead
<1>9. CASE /\ InForce(b) /\ AppliedAt(b) = {}
           /\ applyBaseline(b, failed, calls) /\ found = ~failed
  <2>1. CASE failed \/ \E e \in Marks : e.baseline = b
    <3>1. disturbed'
        BY <1>9, <2>1, Zenon DEF applyBaseline
    <3> QED
        BY <1>5, <1>6, <3>1, DisturbedCounts
  <2>2. CASE ~failed /\ \A e \in Marks : e.baseline # b
    <3>1. found /\ applyBaseline(b, FALSE, calls)
      <4>1. failed = FALSE
          BY <2>2
      <4> QED
          BY <1>9, <4>1
    <3>2. (disturbed' <=> disturbed)
        BY <2>2, <3>1, Zenon DEF applyBaseline, TypeOK
    <3>3. /\ Fresh' = {}
          /\ ~disturbed /\ Marks = {} => Current' = {[at |-> now, calls |-> calls]}
          /\ Marks # {} => ~Sound' /\ ~Right'
        BY <1>2, <1>9, <2>2, <3>1, AppliedStore
    <3>4. /\ b.calls <= calls
          /\ ~disturbed /\ Marks = {} => calls <= billed
        BY <1>8, <1>9, AppliedCalls DEF InForce, SameMonth, NoBaseline
    <3>5. (Sound' \/ Right') => ~disturbed /\ Marks = {}
        BY <3>2, <3>3 DEF Sound, Right
    <3>6. OrderInv'
        BY <1>6, <3>3 DEF OrderInv
    <3>7. \A s \in {[at |-> now, calls |-> calls]} : s.calls = calls
        OBVIOUS
    <3>8. RowsInv'
        BY <1>2, <3>3, <3>4, <3>5, <3>7 DEF RowsInv
    <3>9. CountInv'
      <4>1. Right' => Count' <= billed
          BY <1>3, <1>4, <3>4, <3>5
      <4>2. Right' /\ Restored' => \A s \in Current' : s.calls <= Count'
          BY <1>2, <1>3, <1>4, <3>1, <3>3, <3>5, <3>7 DEF Restored
      <4> QED
          BY <1>2, <3>3, <4>1, <4>2 DEF CountInv, Follows
    <3>10. BaseInv'
      <4>1. b.calls \in Nat
          BY BaselinesTyped, UsageAssumption
      <4>2. Restored' => Count' >= b.calls
          BY <1>2, <1>3, <1>4, <3>1, <3>4, <4>1 DEF Restored
      <4> QED
          BY <1>2, <3>3, <4>2 DEF BaseInv
    <3> QED
        BY <1>5, <1>7, <3>6, <3>8, <3>9, <3>10 DEF UsageInv
  <2> QED
      BY <2>1, <2>2
<1>10. CASE /\ snapshots' = snapshots /\ events' = events
            /\ inflated' = inflated /\ disturbed' = disturbed
            /\ failed \/ \E from \in IF InForce(b) THEN AppliedAt(b) ELSE {MonthStart(now)} :
                             /\ found = (QueryAPIUsage(from) # {})
                             /\ IsPeak(QueryAPIUsage(from), calls)
  <2>0. Marked' = Marked
      BY <1>2, <1>10 DEF Marked
  <2>1. /\ \A t : SameMonth(t)' <=> SameMonth(t)
        /\ Marks' = Marks /\ Fresh' = Fresh /\ Current' = Current
        /\ \A p, r : RefFor(p, r)' <=> RefFor(p, r)
      BY <1>2, <1>10, <2>0, SameStore
  <2>2. /\ Figures' = Figures /\ (Sound' <=> Sound)
        /\ \A x : InForce(x)' <=> InForce(x)
      BY <1>2, <1>10, <2>1 DEF Figures, Sound, InForce
  <2>3. Right' => Sound /\ \A e \in Marks : e.baseline = b
      BY <1>2, <1>10, <2>1 DEF Right, Reconfigured, Sound
  <2>4. OrderInv'
      BY <1>2, <1>6, <1>10, <2>1 DEF UsageInv, OrderInv
  <2>5. RowsInv'
      BY <1>2, <1>10, <2>1, <2>2 DEF UsageInv, RowsInv
  <2>6. CASE failed
    <3>1. unrestored' /\ ~found /\ Count' = 0
        BY <1>1, <1>4, <2>6 DEF LoadAPIUsage
    <3>2. 0 <= billed
        BY <1>3
    <3> QED
        BY <1>2, <1>5, <1>7, <2>4, <2>5, <3>1, <3>2
        DEF UsageInv, CountInv, BaseInv, Restored
  <2>7. ASSUME ~failed,
               NEW from \in IF InForce(b) THEN AppliedAt(b) ELSE {MonthStart(now)},
               found = (QueryAPIUsage(from) # {}), IsPeak(QueryAPIUsage(from), calls)
        PROVE  UsageInv'
    <3>1. Right' => /\ IsPeak(Current, calls) /\ (~found => Current = {})
                    /\ InForce(b) => \E c \in Current :
                          c.calls >= b.calls /\ \A s \in Fresh : c.at <= s.at
        BY <2>3, <2>7, ReadsCurrent DEF Sound
    <3>2. Right' => /\ \A r \in Figures, p \in Fresh :
                          RefFor(p, r) => calls - p.calls <= billed - billedAt[r]
                    /\ ~inflated => calls <= billed
        BY <2>3, <3>1, PeakFollows
    <3>3. ASSUME Right', Restored' PROVE Count' = calls
      <4>1. CASE found
          BY <1>2, <1>4, <3>3, <4>1 DEF Restored
      <4>2. CASE ~found
          BY <1>4, <3>1, <3>3, <4>2 DEF IsPeak
      <4> QED
          BY <4>1, <4>2
    <3>4. CountInv'
      <4>1. Right' /\ ~inflated' => Count' <= billed'
          BY <1>2, <1>3, <1>4, <1>10, <3>2
      <4>2. Right' /\ Restored' => Follows(Count)'
          BY <1>2, <2>1, <2>2, <3>2, <3>3 DEF Follows
      <4>3. Right' /\ Restored' => \A s \in Current' : s.calls <= Count'
          BY <2>1, <3>1, <3>3 DEF IsPeak
      <4> QED
          BY <4>1, <4>2, <4>3 DEF CountInv
    <3>5. BaseInv'
      <4> SUFFICES ASSUME Right', InForce(b)
                   PROVE  /\ \A s \in Fresh : s.calls >= b.calls
                          /\ Restored' => Count' >= b.calls
          BY <1>2, <2>1, <2>2 DEF BaseInv
      <4>1. PICK c \in Current : c.calls >= b.calls /\ \A s \in Fresh : c.at <= s.at
          BY <3>1
      <4>2. \A s \in Fresh : c.calls <= s.calls
          BY <2>3, <4>1 DEF UsageInv, RowsInv
      <4>3. c.calls <= calls
          BY <3>1 DEF IsPeak
      <4>4. b.calls \in Nat /\ c.calls \in Nat /\ \A s \in Fresh : s.calls \in Nat
          BY Compared, BaselinesTyped, UsageAssumption
      <4> QED
          BY <1>3, <3>3, <4>1, <4>2, <4>3, <4>4
    <3> QED
        BY <1>5, <1>7, <2>4, <2>5, <3>4, <3>5 DEF UsageInv
  <2> QED
      BY <1>10, <2>6, <2>7
<1> QED
    BY <1>1, <1>9, <1>10 DEF LoadAPIUsage, storeVars

\* A client that was activated loads the counts.
LEMMA LoadCounts ==
    ASSUME TypeOK, SurviveInv, UsageInv, Load
    PROVE  UsageInv'
<1> DEFINE b == baseline
<1>1. PICK failed \in BOOLEAN, found \in BOOLEAN, calls \in Counts :
          /\ LoadAPIUsage(b, failed, found, calls)
          /\ activation' = IF ~found THEN Idle
                           ELSE [step |-> "loaded", calls |-> calls, at |-> now]
          /\ unrestored' = (failed \/ (unrestored /\ found))
    BY DEF Load
<1>2. /\ vehicle' = vehicle /\ tracker' = tracker /\ currentMinute' = currentMinute
      /\ baseline' = b /\ activation.step = "checked"
      /\ now' = now /\ forgotten' = forgotten
      /\ billed' = billed /\ billedAt' = billedAt
    BY DEF Load, teslaVars
<1>3. /\ now \in Nat /\ billed \in Nat /\ Count \in Nat /\ calls \in Nat /\ b.calls \in Nat
    BY Compared, UsageAssumption DEF Counts
<1>4. vehicle = "client" /\ Count <= billed /\ ~Pending
    BY <1>2 DEF UsageInv, BillInv, Pending
<1>5. Count' = Count
    BY <1>2 DEF Count, resetIfNewMonth, NewTracker
<1>6. b \in Baselines
    BY Configured
<1> HIDE DEF b
<1>7. /\ found => Pending' /\ activation'.calls = calls
      /\ ~found => ~Pending' /\ activation'.step = "none"
  <2>1. SameMonth(now)'
      BY <1>2, <1>3 DEF SameMonth, Never
  <2> QED
      BY <1>1, <1>2, <2>1 DEF Pending, Idle
<1>8. BillInv'
    BY <1>1, <1>2, <1>4, <1>5, <1>6, LoadBilled
<1>9. b = NoBaseline \/ (b.at \in Readings /\ b.at <= now /\ b.calls = billedAt[b.at])
    BY <1>6, FiguresRead
<1>10. unrestored' <=> failed \/ (unrestored /\ found)
    BY <1>1, Zenon
<1>11. CASE /\ InForce(b) /\ AppliedAt(b) = {}
            /\ applyBaseline(b, failed, calls) /\ found = ~failed
  <2>0. currentMinute' <= Truncate(now)'
      BY <1>2 DEF UsageInv, OrderInv
  <2>1. CASE failed \/ \E e \in Marks : e.baseline = b
    <3>1. disturbed'
        BY <1>11, <2>1, Zenon DEF applyBaseline
    <3> QED
        BY <1>8, <2>0, <3>1, DisturbedCounts
  <2>2. CASE ~failed /\ \A e \in Marks : e.baseline # b
    <3>1. found /\ applyBaseline(b, FALSE, calls)
      <4>1. failed = FALSE
          BY <2>2
      <4> QED
          BY <1>11, <4>1
    <3>2. (disturbed' <=> disturbed) /\ (Restored' <=> Restored)
      <4>1. disturbed' <=> disturbed
          BY <2>2, <3>1, Zenon DEF applyBaseline, TypeOK
      <4> QED
          BY <1>2, <1>10, <2>2, <3>1, <4>1 DEF Restored
    <3>3. /\ Fresh' = {}
          /\ ~disturbed /\ Marks = {} => Current' = {[at |-> now, calls |-> calls]}
          /\ Marks # {} => ~Sound' /\ ~Right'
        BY <1>2, <1>11, <2>2, <3>1, AppliedStore
    <3>4. /\ b.calls <= calls
          /\ ~disturbed /\ Marks = {} => calls <= billed /\ (Restored => calls <= Count)
        BY <1>9, <1>11, AppliedCalls DEF InForce, SameMonth, NoBaseline, b
    <3>5. /\ (Sound' \/ Right') => ~disturbed /\ Marks = {}
          /\ Marks = {} /\ ~disturbed => Right
        BY <3>2, <3>3 DEF Sound, Right, Reconfigured
    <3>6. OrderInv'
        BY <2>0, <3>3 DEF OrderInv
    <3>7. \A s \in {[at |-> now, calls |-> calls]} : s.calls = calls
        OBVIOUS
    <3>8. RowsInv'
        BY <1>2, <3>3, <3>4, <3>5, <3>7 DEF RowsInv
    <3>9. CountInv'
        BY <1>2, <1>4, <1>5, <3>2, <3>3, <3>4, <3>5, <3>7 DEF CountInv, Follows
    <3>10. PendInv'
        BY <1>2, <1>3, <1>5, <1>7, <3>1, <3>2, <3>3, <3>4, <3>5, <3>7 DEF PendInv, Follows
    <3>11. BaseInv'
      <4>1. Right' /\ Restored => Count >= b.calls
          BY <1>11, <3>5 DEF UsageInv, BaseInv, Restored, b
      <4>2. calls >= b.calls
          BY <1>3, <3>4
      <4> QED
          BY <1>2, <1>5, <1>7, <3>1, <3>2, <3>3, <4>1, <4>2 DEF BaseInv
    <3> QED
        BY <1>8, <3>6, <3>8, <3>9, <3>10, <3>11 DEF UsageInv
  <2> QED
      BY <2>1, <2>2
<1>12. CASE /\ snapshots' = snapshots /\ events' = events
            /\ inflated' = inflated /\ disturbed' = disturbed
            /\ failed \/ \E from \in IF InForce(b) THEN AppliedAt(b) ELSE {MonthStart(now)} :
                             /\ found = (QueryAPIUsage(from) # {})
                             /\ IsPeak(QueryAPIUsage(from), calls)
  <2>0. Marked' = Marked
      BY <1>2, <1>12 DEF Marked
  <2>1. /\ OrderInv' /\ RowsInv'
        /\ Fresh' = Fresh /\ Current' = Current /\ Figures' = Figures
        /\ \A p, r : RefFor(p, r)' <=> RefFor(p, r)
        /\ \A r : Ahead(r)' <=> Ahead(r)
        /\ \A x : InForce(x)' <=> InForce(x)
        /\ Right' <=> Right
      BY <1>2, <1>12, <2>0, Quiet DEF b
  <2>2. CASE failed
    <3>1. ~found
        BY <1>1, <2>2 DEF LoadAPIUsage
    <3>2. unrestored' /\ ~Pending' /\ ~Restored'
        BY <1>7, <1>10, <2>2, <3>1 DEF Restored
    <3> QED
        BY <1>2, <1>4, <1>5, <1>8, <2>1, <3>2 DEF UsageInv, CountInv, PendInv, BaseInv
  <2>3. ASSUME ~failed,
               NEW from \in IF InForce(b) THEN AppliedAt(b) ELSE {MonthStart(now)},
               found = (QueryAPIUsage(from) # {}), IsPeak(QueryAPIUsage(from), calls)
        PROVE  UsageInv'
    <3>1. Right => Sound /\ \A e \in Marks : e.baseline = b
        BY RightSound DEF Right, Reconfigured, b
    <3>2. Right => /\ IsPeak(Current, calls) /\ (~found => Current = {})
                   /\ InForce(b) => \E c \in Current :
                         c.calls >= b.calls /\ \A s \in Fresh : c.at <= s.at
        BY <2>3, <3>1, ReadsCurrent DEF Sound
    <3>3. Right => /\ \A r \in Figures, p \in Fresh :
                         RefFor(p, r) => calls - p.calls <= billed - billedAt[r]
                   /\ \A p \in Fresh : (\A q \in Fresh : q.at <= p.at) => calls <= p.calls
                   /\ ~inflated => calls <= billed
        BY <3>1, <3>2, PeakFollows
    <3>4. ASSUME Right PROVE Restored => calls <= Count
      <4>1. Restored => \A s \in Current : s.calls <= Count
          BY <3>4 DEF UsageInv, CountInv
      <4>2. 0 <= Count
          BY <1>3
      <4> QED
          BY <3>2, <3>4, <4>1, <4>2 DEF IsPeak
    <3>5. ASSUME Right', Restored' PROVE Restored \/ (Current = {} /\ Fresh = {})
      <4>1. CASE found
          BY <1>2, <1>10, <3>5, <4>1 DEF Restored
      <4>2. CASE ~found
          BY <2>1, <3>2, <3>5, <4>2, Compared
      <4> QED
          BY <4>1, <4>2
    <3>6. CountInv'
      <4>1. Right' /\ Restored' => Follows(Count)' /\ \A s \in Current' : s.calls <= Count'
        <5>1. CASE Restored
            BY <1>2, <1>5, <2>1, <5>1 DEF UsageInv, CountInv, Follows
        <5>2. CASE ~Restored
            BY <2>1, <3>5, <5>2 DEF Follows
        <5> QED
            BY <5>1, <5>2
      <4> QED
          BY <1>2, <1>4, <1>5, <4>1 DEF CountInv
    <3>7. PendInv'
      <4> SUFFICES ASSUME Right', Pending'
                   PROVE  /\ ~inflated' => activation'.calls <= billed'
                          /\ \A s \in Current' : s.calls <= activation'.calls
                          /\ Follows(activation.calls)'
                          /\ \A p \in Fresh' :
                               (\A q \in Fresh' : q.at <= p.at) => activation'.calls <= p.calls
                          /\ Restored' => activation'.calls <= Count'
          BY DEF PendInv
      <4>1. found /\ activation'.calls = calls /\ (Restored' <=> Restored)
          BY <1>2, <1>7, <1>10, <2>3 DEF Restored
      <4>2. Follows(activation.calls)'
          BY <1>2, <2>1, <3>3, <4>1 DEF Follows
      <4>3. \A s \in Current' : s.calls <= activation'.calls
          BY <2>1, <3>2, <4>1 DEF IsPeak
      <4>4. Restored' => activation'.calls <= Count'
          BY <1>5, <2>1, <3>4, <4>1
      <4> QED
          BY <1>2, <1>12, <2>1, <3>3, <4>1, <4>2, <4>3, <4>4
    <3>8. BaseInv'
      <4> SUFFICES ASSUME Right, InForce(b)
                   PROVE  /\ \A s \in Fresh : s.calls >= b.calls
                          /\ Restored' => Count >= b.calls
                          /\ Pending' => activation'.calls >= b.calls
          BY <1>2, <1>5, <2>1 DEF BaseInv
      <4>1. PICK c \in Current : c.calls >= b.calls /\ \A s \in Fresh : c.at <= s.at
          BY <3>2
      <4>2. \A s \in Fresh : c.calls <= s.calls
          BY <3>1, <4>1 DEF UsageInv, RowsInv
      <4>3. c.calls <= calls /\ found
          BY <3>2 DEF IsPeak
      <4>4. c.calls \in Nat /\ \A s \in Fresh : s.calls \in Nat
          BY Compared
      <4>5. \A s \in Fresh : s.calls >= b.calls
          BY <1>3, <4>1, <4>2, <4>4
      <4>6. calls >= b.calls
          BY <1>3, <4>1, <4>3, <4>4
      <4>7. Restored' => Restored
          BY <1>2, <1>10, <4>3 DEF Restored
      <4>8. Restored => Count >= b.calls
          BY DEF UsageInv, BaseInv, Restored, b
      <4> QED
          BY <1>7, <4>3, <4>5, <4>6, <4>7, <4>8
    <3> QED
        BY <1>8, <2>1, <3>6, <3>7, <3>8 DEF UsageInv
  <2> QED
      BY <1>12, <2>2, <2>3
<1> QED
    BY <1>1, <1>11, <1>12 DEF LoadAPIUsage, storeVars

\* Every step keeps the invariant.
LEMMA UsageStep ==
    TypeOK /\ PruneInv /\ SurviveInv /\ UsageInv /\ [Next]_vars => UsageInv'
<1> SUFFICES ASSUME TypeOK, PruneInv, SurviveInv, UsageInv, [Next]_vars PROVE UsageInv'
    OBVIOUS
<1>1. CASE Next
    BY <1>1, RecordCounts, SampleCounts, PruneCounts, PruneSnapshotsCounts, RestartCounts, ActivateCounts,
       CheckCounts, LoadCounts, RestoreCounts, PassCounts DEF Next
<1>2. CASE UNCHANGED vars
  <2>1. /\ snapshots' = snapshots /\ Marked' = Marked /\ now' = now
        /\ baseline' = baseline /\ billed' = billed /\ billedAt' = billedAt
        /\ currentMinute' = currentMinute /\ inflated' = inflated
        /\ disturbed' = disturbed /\ unrestored' = unrestored
        /\ vehicle' = vehicle /\ activation' = activation /\ tracker' = tracker
      BY <1>2 DEF vars, procVars, storeVars, teslaVars, histVars, Marked
  <2> QED
      BY <2>1, QuietCounts
<1> QED
    BY <1>1, <1>2

LEMMA UsageInit == Init => UsageInv
<1> SUFFICES ASSUME Init PROVE UsageInv
    OBVIOUS
<1>1. Minute \in Nat \ {0} /\ now = Minute
    BY UsageAssumption DEF Init
<1>2. Minute % Minute = 0
    BY <1>1
<1>3. Truncate(now) = now /\ Truncate(now) > 0
    BY <1>1, <1>2 DEF Truncate
<1>4. /\ Count = 0 /\ billed \in Nat /\ \A r \in Readings : billedAt[r] = billed
      /\ ~Pending /\ ~Restored /\ ~InForce(baseline)
    BY InitTyped, UsageAssumption
       DEF TypeOK, Init, Count, resetIfNewMonth, NewTracker, Pending, Idle, Restored,
           InForce, SameMonth, NoBaseline
<1>5. /\ \A s \in snapshots : s.at = 0
      /\ Marks = {} /\ Fresh \subseteq snapshots /\ Current \subseteq snapshots
      /\ ~inflated => snapshots = {}
      /\ activation.step = "none" /\ baseline = NoBaseline /\ Marked = {}
      /\ currentMinute = Never
  <2>1. inflated <=> snapshots # {}
      BY Zenon DEF Init
  <2> QED
      BY <2>1 DEF Init, Marks, Marked, Fresh, Current, Idle
<1>6. BillInv
    BY <1>4, <1>5 DEF BillInv, Figures
<1>7. OrderInv
    BY <1>1, <1>3, <1>5 DEF OrderInv, Never
<1>8. RowsInv
  <2>1. \A s, p \in snapshots : s = p
      BY DEF Init
  <2>2. \A s \in snapshots : s.calls \in Nat
      BY InitTyped, UsageAssumption DEF TypeOK, Counts
  <2>3. \A r \in Figures, s \in Fresh : ~(r < s.at)
      BY <1>5, UsageAssumption DEF Figures
  <2> QED
      BY <1>4, <1>5, <2>1, <2>2, <2>3 DEF RowsInv
<1>9. CountInv
    BY <1>4 DEF CountInv
<1> QED
    BY <1>4, <1>6, <1>7, <1>8, <1>9 DEF UsageInv, PendInv, BaseInv

\* Whatever restarts, activations, corrections, refused writes and pruning do,
\* the counter never shows more calls than Tesla billed, but for the named
\* exceptions.
THEOREM NeverOvercounted == Spec => []NeverOvercounts
<1>1. UsageInv => NeverOvercounts
    BY DEF UsageInv, CountInv, Right, NeverOvercounts
<1> QED
    BY <1>1, UsageInit, UsageStep, PruneInit, PruneStep,
       SurviveInit, SurviveStep, UsageTyped, PTL DEF Spec

----------------------------------------------------------------------------
(* The history of the counts                                                *)

\* The history takes the first and the last row, which exist.
LEMMA LeastOf ==
    ASSUME NEW S \in SUBSET Nat, S # {}
    PROVE  \E m \in S : \A u \in S : m <= u
<1>1. PICK m \in S : \A u \in S : ~(<<u, m>> \in OpToRel(<, Nat))
    BY NatLessThanWellFounded, WFMin
<1>2. ASSUME NEW u \in S PROVE m <= u
  <2>1. <<u, m>> \in Nat \X Nat
      OBVIOUS
  <2>2. ~(u < m)
      BY <1>1, <2>1 DEF OpToRel
  <2> QED
      BY <2>2
<1> QED
    BY <1>2

LEMMA GreatestOf ==
    ASSUME NEW n \in Nat, NEW S \in SUBSET (0 .. n), S # {}
    PROVE  \E m \in S : \A u \in S : u <= m
<1> DEFINE R == {n - u : u \in S}
<1>1. R \in SUBSET Nat /\ R # {}
  <2>1. \A u \in S : n - u \in Nat
      OBVIOUS
  <2>2. PICK u \in S : TRUE
      OBVIOUS
  <2>3. n - u \in R
      OBVIOUS
  <2> QED
      BY <2>1, <2>3
<1>2. PICK r \in R : \A v \in R : r <= v
    BY <1>1, LeastOf
<1>3. PICK m \in S : r = n - m
    OBVIOUS
<1>4. ASSUME NEW u \in S PROVE u <= m
  <2>1. n - m <= n - u
      BY <1>2, <1>3
  <2> QED
      BY <2>1
<1> QED
    BY <1>4

\* An interval of length y is over before the bucket n begins.
LEMMA BucketsSuffice ==
    ASSUME NEW x \in Nat, NEW y \in Nat, NEW n \in Nat \ {0}, x <= y
    PROVE  x \div bucketSecs(y, n) \in 0 .. n - 1
<1> DEFINE k == y \div n
           d == k + 1
           q == x \div d
<1>1. k \in Nat /\ y < n * k + n
    OBVIOUS
<1>2. bucketSecs(y, n) = d
    BY DEF bucketSecs
<1> HIDE DEF k
<1>3. d \in Nat \ {0} /\ n * d = n * k + n
    BY <1>1
<1> HIDE DEF d
<1>4. q \in Nat /\ d * q <= x
    BY <1>3
<1> HIDE DEF q
<1>5. ASSUME q >= n PROVE FALSE
  <2>1. d * q >= d * n
      BY <1>3, <1>4, <1>5
  <2>2. d * n = n * d /\ d * q \in Int /\ n * d \in Int
      BY <1>3, <1>4
  <2> QED
      BY <1>1, <1>3, <1>4, <2>1, <2>2
<1>6. q \in 0 .. n - 1
    BY <1>4, <1>5
<1> QED
    BY <1>2, <1>6 DEF q

\* What the history keeps: of each bucket the last time, and so the very last.
LEMMA BucketsKept ==
    ASSUME NEW span \in SUBSET Times, NEW times \in SUBSET Times,
           NEW n \in Nat \ {0}, NEW first \in span, NEW last \in span,
           \A u \in span : first <= u /\ u <= last,
           NEW bucket \in [times -> Int],
           \A t \in times \intersect span :
              bucket[t] = (t - first) \div bucketSecs(last - first, n)
    PROVE  LET points == {t \in times : \A u \in times : bucket[u] = bucket[t] => u <= t}
           IN  Cardinality(points) <= n + Cardinality(times \ span)
<1> DEFINE points == {t \in times : \A u \in times : bucket[u] = bucket[t] => u <= t}
           old == points \intersect span
           new == points \ span
           f == [t \in old |-> bucket[t]]
<1>1. \A t \in times \union span : t \in Nat
    BY UsageAssumption DEF Times
<1>2. ASSUME NEW t \in times \intersect span PROVE bucket[t] \in 0 .. n - 1
  <2>1. t - first \in Nat /\ last - first \in Nat /\ t - first <= last - first
      BY <1>1
  <2> QED
      BY <2>1, BucketsSuffice
<1>3. f \in [old -> 0 .. n - 1]
    BY <1>2
<1>4. ASSUME NEW t \in old, NEW u \in old, f[t] = f[u] PROVE t = u
  <2>1. t <= u /\ u <= t
      BY <1>4
  <2> QED
      BY <1>1, <2>1
<1>5. f \in Injection(old, 0 .. n - 1)
  <2> HIDE DEF f, old
  <2> QED
      BY <1>3, <1>4 DEF Injection, IsInjective
<1>6. /\ IsFiniteSet(0 .. n - 1) /\ Cardinality(0 .. n - 1) = n
      /\ IsFiniteSet(0 .. MaxTime)
  <2>1. n - 1 \in Int /\ 0 \in Int /\ MaxTime \in Int /\ n - 1 - 0 + 1 = n /\ 0 <= n - 1
      BY UsageAssumption
  <2>2. IsFiniteSet(0 .. n - 1)
      BY <2>1, FS_Interval
  <2>3. Cardinality(0 .. n - 1) = n
    <3>1. Cardinality(0 .. n - 1) = IF 0 > n - 1 THEN 0 ELSE (n - 1) - 0 + 1
        BY <2>1, FS_Interval
    <3> QED
        BY <2>1, <3>1
  <2>4. IsFiniteSet(0 .. MaxTime)
      BY <2>1, FS_Interval
  <2> QED
      BY <2>2, <2>3, <2>4
<1>7. IsFiniteSet(old) /\ Cardinality(old) <= n
  <2> HIDE DEF f, old
  <2> QED
      BY <1>5, <1>6, FS_Injection
<1>8. IsFiniteSet(times \ span)
  <2>1. times \ span \in SUBSET (0 .. MaxTime)
      BY DEF Times
  <2> QED
      BY <1>6, <2>1, FS_Subset
<1>9. new \in SUBSET (times \ span)
    OBVIOUS
<1>10. IsFiniteSet(new) /\ Cardinality(new) <= Cardinality(times \ span)
    BY <1>8, <1>9, FS_Subset
<1>11. points = old \union new
    OBVIOUS
<1> HIDE DEF points, old, new
<1>12. Cardinality(points) =
         Cardinality(old) + Cardinality(new) - Cardinality(old \intersect new)
    BY <1>7, <1>10, <1>11, FS_Union
<1>13. /\ Cardinality(old) \in Nat /\ Cardinality(new) \in Nat
       /\ Cardinality(times \ span) \in Nat /\ Cardinality(old \intersect new) \in Nat
  <2>1. IsFiniteSet(old \intersect new)
      BY <1>7, <1>10, FS_Intersection
  <2> QED
      BY <1>7, <1>8, <1>10, <2>1, FS_CardinalityType
<1>14. Cardinality(points) <= n + Cardinality(times \ span)
    BY <1>7, <1>10, <1>12, <1>13
<1> QED
    BY <1>14 DEF points

\* The history of any rows, whatever the second query finds, and of any size.
LEMMA HistoryOf ==
    ASSUME NEW span \in SUBSET Times, NEW times \in SUBSET Times, NEW n \in Nat \ {0}
    PROVE  LET points == SampleAPIUsage(span, times, n)
           IN  /\ Cardinality(points) <= n + Cardinality(times \ span)
               /\ span # {} => \A t \in times : \E u \in points : t <= u
<1> DEFINE first == CHOOSE t \in span : \A u \in span : t <= u
           last == CHOOSE t \in span : \A u \in span : u <= t
           secs == bucketSecs(last - first, n)
           bucket == [t \in times |-> IF t < first THEN -((first - t) \div secs)
                                      ELSE (t - first) \div secs]
           points == {t \in times : \A u \in times : bucket[u] = bucket[t] => u <= t}
<1>1. MaxTime \in Nat /\ Times = 0 .. MaxTime /\ Times \subseteq Nat
    BY UsageAssumption DEF Times
<1>2. CASE span = {}
  <2>1. SampleAPIUsage(span, times, n) = {}
      BY <1>2 DEF SampleAPIUsage
  <2>2. IsFiniteSet(times \ span)
    <3>1. IsFiniteSet(0 .. MaxTime) /\ times \ span \in SUBSET (0 .. MaxTime)
        BY <1>1, FS_Interval
    <3> QED
        BY <3>1, FS_Subset
  <2>3. Cardinality(times \ span) \in Nat /\ Cardinality({}) = 0
      BY <2>2, FS_CardinalityType, FS_EmptySet
  <2> QED
      BY <1>2, <2>1, <2>3
<1>3. CASE span # {}
  <2>1. SampleAPIUsage(span, times, n) = points
    <3>1. SampleAPIUsage(span, times, n) =
            {t \in times : \A u \in times :
                (IF u < first THEN -((first - u) \div secs) ELSE (u - first) \div secs)
                = (IF t < first THEN -((first - t) \div secs) ELSE (t - first) \div secs)
                => u <= t}
        BY <1>3, Zenon DEF SampleAPIUsage
    <3>2. \A t \in times : bucket[t] = IF t < first THEN -((first - t) \div secs)
                                       ELSE (t - first) \div secs
        OBVIOUS
    <3> HIDE DEF first, last, secs, bucket
    <3> QED
        BY <3>1, <3>2
  <2>2. first \in span /\ \A u \in span : first <= u
      BY <1>1, <1>3, LeastOf
  <2>3. last \in span /\ \A u \in span : u <= last
      BY <1>1, <1>3, GreatestOf
  <2> HIDE DEF first, last
  <2>4. first \in Nat /\ last \in Nat /\ last - first \in Nat
      BY <1>1, <2>2, <2>3
  <2>5. secs \in Nat \ {0}
      BY <2>4 DEF bucketSecs
  <2> HIDE DEF secs
  <2>6. bucket \in [times -> Int]
    <3>1. ASSUME NEW t \in times
          PROVE  (IF t < first THEN -((first - t) \div secs)
                  ELSE (t - first) \div secs) \in Int
      <4>1. t \in Nat /\ first - t \in Int /\ t - first \in Int
          BY <1>1, <2>4
      <4> QED
          BY <2>5, <4>1
    <3> QED
        BY <3>1
  <2>7. \A t \in times \intersect span :
           bucket[t] = (t - first) \div bucketSecs(last - first, n)
    <3>1. \A t \in times \intersect span : ~(t < first)
        BY <1>1, <2>2, <2>4
    <3> QED
        BY <3>1 DEF secs
  <2> HIDE DEF bucket
  <2>8. Cardinality(points) <= n + Cardinality(times \ span)
      BY <2>2, <2>3, <2>6, <2>7, BucketsKept
  <2>9. ASSUME NEW t \in times PROVE \E u \in points : t <= u
    <3>1. PICK g \in times : \A u \in times : u <= g
        BY <1>1, GreatestOf
    <3>2. g \in points
        BY <3>1
    <3> QED
        BY <3>1, <3>2
  <2> QED
      BY <2>1, <2>8, <2>9
<1> QED
    BY <1>2, <1>3

\* Whatever is in the table and whatever happens between the queries, the
\* history has at most as many points as asked for and rows were inserted, and
\* never lacks the last.
THEOREM HistoryAlwaysFits == Spec => []HistoryFits
<1>1. TypeOK => HistoryFits
  <2> SUFFICES ASSUME TypeOK, NEW n \in 1 .. 2,
                      NEW inserted \in SUBSET {currentMinute, now}
               PROVE  LET span == {s.at : s \in QueryAPIUsage(0)}
                          times == {t \in span \union inserted : 0 <= t /\ cutoff <= t}
                          points == SampleAPIUsage(span, times, n)
                      IN  /\ Cardinality(points) <= n + Cardinality(times \ span)
                          /\ span # {} => \A t \in times : \E u \in points : t <= u
      BY DEF HistoryFits
  <2> DEFINE span == {s.at : s \in QueryAPIUsage(0)}
             times == {t \in span \union inserted : 0 <= t /\ cutoff <= t}
  <2>1. n \in Nat \ {0}
      OBVIOUS
  <2>2. span \in SUBSET Times
      BY DEF QueryAPIUsage, TypeOK
  <2>3. \A t \in inserted : 0 <= t => t \in Times
      BY DEF TypeOK, Never
  <2>4. times \in SUBSET Times
      BY <2>2, <2>3
  <2> HIDE DEF span, times
  <2>5. LET points == SampleAPIUsage(span, times, n)
        IN  /\ Cardinality(points) <= n + Cardinality(times \ span)
            /\ span # {} => \A t \in times : \E u \in points : t <= u
      BY <2>1, <2>2, <2>4, HistoryOf
  <2> QED
      BY <2>5 DEF span, times
<1> QED
    BY <1>1, UsageTyped, PTL
=============================================================================
