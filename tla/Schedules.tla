----------------------------- MODULE Schedules ------------------------------
(***************************************************************************)
(* What a finished schedule must look like, whatever the policy: the       *)
(* result of sim_run (timelines and outcomes) judged on its own, tick by   *)
(* tick, without the engine state that produced it.                        *)
(***************************************************************************)
EXTENDS AnyPolicy

Finished == status = "ok"

CpuOf(p, k) == w.phases[p][2 * k - 1]   \* the k-th CPU burst
IoOf(p, k) == w.phases[p][2 * k]        \* the I/O that follows it
NumBursts(p) == (Len(w.phases[p]) + 1) \div 2
Bursts(p) == [k \in 1..NumBursts(p) |-> CpuOf(p, k)]
CpuUpTo(p, k) == SumFunctionOnSet(Bursts(p), 1..k)
TotalCpu(p) == CpuUpTo(p, NumBursts(p))
TotalIo(p) == MapThenSumSet(LAMBDA j : IoOf(p, j), 1..(NumBursts(p) - 1))

\* how many ticks p has run by the end of tick t
RunBy(p, t) == Cardinality({u \in TicksOf(p, "run") : u <= t})
BurstEnd(p, k) == 1 + CHOOSE t \in TicksOf(p, "run") : RunBy(p, t) = CpuUpTo(p, k)
IoTicks(p) ==
    UNION {BurstEnd(p, k) .. (BurstEnd(p, k) + IoOf(p, k) - 1) : k \in 1..(NumBursts(p) - 1)}
Resident(p) == w.arrival[p] .. (outcome[p].completion - 1)

(* A process gets exactly the CPU time of its bursts, not before it        *)
(* arrives, never on two cores in the same tick, and neither runs nor is   *)
(* switched in during its own I/O; start and completion are its first and  *)
(* last CPU tick (tests/properties.py:59-98).                              *)
ServedExactly ==
    Finished => \A p \in Procs :
        LET segs == SegmentsOf(p, "run") \cup SegmentsOf(p, "cs")
            run == TicksOf(p, "run") IN
        /\ Cardinality(run) = TotalCpu(p)
        /\ \A x, y \in segs : x # y => x[2].end <= y[2].start \/ y[2].end <= x[2].start
        /\ run \cup TicksOf(p, "cs") \subseteq Resident(p) \ IoTicks(p)
        /\ outcome[p].start \in run /\ \A t \in run : outcome[p].start <= t
        /\ outcome[p].completion - 1 \in run

(* No core is idle in a tick in which some process is ready: arrived, not  *)
(* completed, not in I/O and on no core (tests/properties.py:100-114).     *)
NoIdleWhileReady ==
    Finished /\ WorkConserving => \A p \in Procs :
        LET waiting == Resident(p) \ (IoTicks(p) \cup TicksOf(p, "run") \cup TicksOf(p, "cs"))
        IN  waiting \cap TicksOf(None, "idle") = {}

\* the run segments of a timeline before which the core ran another process
Changes(t) ==
    {j \in DOMAIN t : \E i \in 1..(j - 1) :
        /\ t[i].kind = "run" /\ t[j].kind = "run" /\ t[i].proc # t[j].proc
        /\ \A k \in (i + 1)..(j - 1) : t[k].kind # "run"}
ChangesOf(l) == UNION {{<<c, j>> : j \in Changes(l.timelines[c])} : c \in Cores}

(* Each change of process on a core is one switch; if switches take time   *)
(* it is paid for by one "cs" segment of CsCost ticks for the process that *)
(* runs next, and there are no other "cs" segments: the totals agree with  *)
(* the timelines.                                                          *)
SwitchesAccounted ==
    Finished =>
        /\ switches = Cardinality(ChangesOf(log)) /\ csTime = CsCost * switches
        /\ \A c \in Cores : LET t == log.timelines[c] IN
             /\ CsCost > 0 => \A j \in Changes(t) : t[j - 1].kind = "cs"
             /\ \A j \in DOMAIN t : t[j].kind = "cs" =>
                  /\ t[j].end - t[j].start = CsCost
                  /\ j + 1 \in Changes(t) /\ t[j + 1].proc = t[j].proc

(* The total number of segments is what max_segments limits, and a run     *)
(* never keeps more than that.                                             *)
SegmentsLimited ==
    /\ log.segments <= MaxSegments
    /\ ~Emptied => log.segments = SumFunction([c \in Cores |-> Len(log.timelines[c])])

(* "Each switch adds a segment, so max_segments bounds the switch          *)
(* overhead" (engine.c:338): for the workloads and switch costs that       *)
(* check_options accepts, simulated time cannot overflow.                  *)
OverflowUnreachable ==
    log.fail # "overflow" /\ csTime <= MaxTime
=============================================================================
