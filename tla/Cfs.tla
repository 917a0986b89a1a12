-------------------------------- MODULE Cfs ---------------------------------
(***************************************************************************)
(* CFS-lite (src/src/policies/cfs.c): the ready process with the smallest  *)
(* vruntime runs, for a share of the latency that its weight decides.  The *)
(* heap of ready processes is a set.  PreemptOnReady is FALSE.             *)
(***************************************************************************)
EXTENDS Engine

CONSTANTS
    Latency, MinGran,   \* PolicyParams.cfs_latency, cfs_min_gran
    NiceToWeight,       \* NICE_TO_WEIGHT, from nice values to weights
    Unit,               \* vruntime units of a tick at weight 1: 2^26, scaled down
    NiceUnit,           \* vruntime units of a tick at nice 0: 2^16, scaled down
    MaxCpu, MaxLatency  \* CFS_MAX_CPU and the bound on --cfs-latency

VARIABLES
    ready,          \* Cfs.ready
    vruntime, minVruntime,
    runnableWeight  \* of all processes ready or running

cfsVars == <<ready, vruntime, minVruntime, runnableWeight>>
vars == <<engineVars, cfsVars>>

Weight(p) == NiceToWeight[w.nice[p]]

\* vruntime_delta: computed in two parts, against overflow
VruntimeDelta(ran, wt) == (ran \div wt) * Unit + ((ran % wt) * Unit) \div wt

\* cfs_less
Less(p, q) == vruntime[p] < vruntime[q] \/ (vruntime[p] = vruntime[q] /\ p < q)
Least == CHOOSE p \in ready : \A q \in ready \ {p} : Less(p, q)

\* update_min_vruntime, for a heap that holds S with vruntimes v
Advanced(S, v) == Max({minVruntime} \cup {Min({v[p] : p \in S}) : q \in S})

Init ==
    /\ EngineInit /\ ready = {} /\ vruntime = [p \in Procs |-> 0]
    /\ minVruntime = 0 /\ runnableWeight = 0

\* cfs_create refuses what could overflow
CpuOf(p) == SumFunctionOnSet(w.phases[p], {k \in DOMAIN w.phases[p] : IsOdd(k)})
Fits == SumFunctionOnSet([p \in Procs |-> CpuOf(p)], Procs) <= MaxCpu /\ Latency <= MaxLatency
Refuse ==
    /\ stage = "create" /\ OptionsAccepted /\ ~Fits
    /\ stage' = "done" /\ status' = "usage"
    /\ UNCHANGED <<w, now, pending, blocked, procVars, core, picks, cause, outcome, log,
                   switches, csTime, closed, cfsVars>>

\* put p in the heap with vruntime v
Enqueue(p, v) ==
    /\ ready' = ready \cup {p}
    /\ vruntime' = [vruntime EXCEPT ![p] = v]
    /\ minVruntime' = Advanced(ready', vruntime')

StartOfNew == minVruntime
Arrive(p) ==
    /\ Admit(p) /\ Enqueue(p, StartOfNew)
    /\ runnableWeight' = runnableWeight + Weight(p)

\* the sleeper credit: at most half the latency behind
SleeperFloor == minVruntime - (Latency * NiceUnit) \div 2
BecomeReady(p) ==
    /\ WakeUp(p)
    /\ Enqueue(p, IF vruntime[p] < SleeperFloor THEN SleeperFloor ELSE vruntime[p])
    /\ runnableWeight' = runnableWeight + Weight(p)

Charged(c) == vruntime[core[c].proc] + VruntimeDelta(Ran(c), Weight(core[c].proc))
SlicePreempted(c) ==
    Preempt(c) /\ Enqueue(core[c].proc, Charged(c)) /\ UNCHANGED runnableWeight

\* mutant: a process that blocks stays in the weight
LeavingIfComplete(c) == IF LastPhase(core[c].proc) THEN Weight(core[c].proc) ELSE 0
Leaving(c) == Weight(core[c].proc)
SliceEndsBurst(c) ==
    /\ Complete(c) \/ Block(c)
    /\ vruntime' = [vruntime EXCEPT ![core[c].proc] = Charged(c)]
    /\ runnableWeight' = runnableWeight - Leaving(c)
    /\ UNCHANGED <<ready, minVruntime>>

Share(p) == (Latency * Weight(p)) \div runnableWeight
NextSlice ==
    /\ ready # {}
    /\ Pick(Slice(Least, Max({Share(Least), MinGran}), NoDeadline))
    /\ ready' = ready \ {Least} /\ minVruntime' = Advanced(ready', vruntime)
    /\ UNCHANGED <<vruntime, runnableWeight>>
StopPicking == PicksDone /\ (WantsPick => ready = {}) /\ UNCHANGED cfsVars

Next ==
    \/ Refuse
    \/ \E p \in Procs : Arrive(p) \/ BecomeReady(p)
    \/ \E c \in Cores : SliceEndsBurst(c) \/ SlicePreempted(c)
    \/ NextSlice \/ StopPicking
    \/ (stage = "create" /\ OptionsAccepted => Fits) /\ EngineStep /\ UNCHANGED cfsVars

-----------------------------------------------------------------------------

(* runnable_weight is the total weight of the processes that are ready or  *)
(* running, at every decision and on any number of cores: the latency is   *)
(* shared by exactly those, and the division is never by zero              *)
(* (cfs.c:8-9, 132).                                                       *)
RunnableWeightExact ==
    ~Emptied => runnableWeight = SumFunctionOnSet([p \in Procs |-> Weight(p)],
                                                  ready \cup Picked \cup OnCore)

(* vruntime stays within what the CPU time used so far accounts for, so    *)
(* CFS_MAX_CPU "keeps vruntime within int64" (cfs.c:25) although a process *)
(* inherits the vruntime of others when it arrives or wakes up.            *)
LeastWeight == Min({Weight(q) : q \in Procs})
VruntimeBounded ==
    /\ \A p \in Procs : vruntime[p] * LeastWeight <= Unit * MaxCpu
    /\ log.fail = "ok" => \A p \in Procs :
            vruntime[p] * LeastWeight
                <= Unit * SumFunctionOnSet([q \in Procs |-> Cardinality(TicksOf(q, "run"))], Procs)

\* p and q have been ready or running ever since both had arrived
Compete(p, q) == {p, q} \subseteq ready /\ phase[p] = 1 /\ phase[q] = 1
Since(p, q) == IF w.arrival[p] < w.arrival[q] THEN w.arrival[q] ELSE w.arrival[p]
RunSince(p, t) == Cardinality({u \in TicksOf(p, "run") : u >= t})
\* the longest slice any process can get
LongestSlice == Max({Latency, MinGran})

(* The fairness CFS is about, on one core: the weighted CPU times of two   *)
(* processes that compete for the CPU differ by no more than one slice of  *)
(* each, counted from the moment the later one joins.                      *)
WeightedShare ==
    NumCores = 1 => \A p, q \in Procs :
        p # q /\ Compete(p, q) =>
            VruntimeDelta(RunSince(p, Since(p, q)), Weight(p))
            - VruntimeDelta(RunSince(q, Since(p, q)), Weight(q))
                <= VruntimeDelta(LongestSlice, Weight(p)) + VruntimeDelta(LongestSlice, Weight(q))
=============================================================================
