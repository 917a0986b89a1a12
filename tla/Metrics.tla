------------------------------ MODULE Metrics -------------------------------
(***************************************************************************)
(* The summary of a run (src/src/metrics/metrics.c), as far as it is       *)
(* computed in integers: per-process times, percentiles, medians, and the  *)
(* numerators and denominators of utilization and switch overhead.  Means, *)
(* slowdowns and fairness are sums and quotients of these in doubles.      *)
(***************************************************************************)
EXTENDS Schedules

\* metrics_for
Response(p) == outcome[p].start - w.arrival[p]
Turnaround(p) == outcome[p].completion - w.arrival[p]
Waiting(p) == Turnaround(p) - TotalCpu(p) - TotalIo(p)

Makespan == Max({outcome[p].completion : p \in Procs} \cup {0})
Span == Makespan - Min({w.arrival[p] : p \in Procs})
Capacity == NumCores * Span
Cpu == MapThenSumSet(TotalCpu, Procs)

\* ceil(pct * n / 100), from 1
\* mutant: rounds down
RankDown(pct, n) == (pct * n) \div 100
Rank(pct, n) == (pct * n + 99) \div 100
Percentile(sorted, pct) ==
    sorted[IF Rank(pct, Len(sorted)) = 0 THEN 1 ELSE Rank(pct, Len(sorted))]
\* twice the median
TwiceMedian(sorted) ==
    LET n == Len(sorted) IN
    IF n % 2 = 1 THEN 2 * sorted[n \div 2 + 1] ELSE sorted[n \div 2] + sorted[n \div 2 + 1]

\* distribution() sorts the values of all processes
Sorted(value) == SortSeq(SetToSeq({<<value[p], p>> : p \in Procs}), LAMBDA a, b : a[1] < b[1])
Values(value) == [i \in 1..Cardinality(Procs) |-> Sorted(value)[i][1]]

-----------------------------------------------------------------------------

AtMost(value, v) == Cardinality({p \in Procs : value[p] <= v})
AtLeast(value, v) == Cardinality({p \in Procs : value[p] >= v})

\* "the smallest value with at least pct% of values <= it" (metrics.c:53)
IsNearestRank(value, pct, v) ==
    /\ 100 * AtMost(value, v) >= pct * Cardinality(Procs)
    /\ \A p \in Procs :
        value[p] < v => 100 * AtMost(value, value[p]) < pct * Cardinality(Procs)

(* What the summary says of a run is what its timelines show: a process    *)
(* waits in the ticks of its stay in which it neither runs nor does I/O    *)
(* (being switched in is waiting), and the capacity of the machine between *)
(* the first arrival and the last completion is spent on CPU bursts,       *)
(* switches and idling, nothing else.  Percentiles are by nearest rank for *)
(* every number of processes.                                              *)
SummaryMatchesTimelines ==
    Finished =>
        LET turnaround == [p \in Procs |-> Turnaround(p)]
            sorted == Values(turnaround)
        IN
        /\ \A p \in Procs :
            /\ Waiting(p) = Cardinality(Resident(p) \ (IoTicks(p) \cup TicksOf(p, "run")))
            /\ Response(p) = Cardinality({t \in Resident(p) : \A u \in TicksOf(p, "run") : t < u})
        /\ Capacity = Cpu + csTime
             + MapThenSumSet(LAMBDA x : x[2].end - x[2].start, SegmentsOf(None, "idle"))
        /\ \A pct \in {95, 99} : IsNearestRank(turnaround, pct, Percentile(sorted, pct))
        /\ \A v \in {TwiceMedian(sorted)} :
            /\ 2 * AtMost([p \in Procs |-> 2 * turnaround[p]], v) >= Cardinality(Procs)
            /\ 2 * AtLeast([p \in Procs |-> 2 * turnaround[p]], v) >= Cardinality(Procs)
        /\ \A n \in 1..200, pct \in {95, 99} :
            100 * Rank(pct, n) >= pct * n /\ 100 * (Rank(pct, n) - 1) < pct * n
=============================================================================
