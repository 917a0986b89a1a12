------------------------------- MODULE Engine -------------------------------
(***************************************************************************)
(* The simulation engine of src/src/engine/engine.c: the clock, the cores, *)
(* the timelines, I/O and the per-process accounting.  The ready set       *)
(* belongs to the scheduling policy, so this module has no variable for    *)
(* it: every action below is the engine's half of a step, and a policy     *)
(* module conjoins what its hook does (see AnyPolicy, RoundRobin, ...).    *)
(*                                                                         *)
(* sim_run is sequential code.  `stage' is its program counter: the loops  *)
(* of process_instant and dispatch become one step per loop iteration, in  *)
(* the order the C loops take.  Process indices are identified with pids.  *)
(***************************************************************************)
EXTENDS Integers, Sequences, FiniteSets, FiniteSetsExt, SequencesExt

CONSTANTS
    Procs,          \* the pids of the workload
    NumCores,       \* SimOptions.cores
    CsCost,         \* SimOptions.cs_cost
    MaxSegments,    \* SimOptions.max_segments
    MaxTime,        \* INT64_MAX, scaled down for model checking
    InitialCap,     \* first capacity of a timeline (16 in the code)
    MayRunOutOfMemory,  \* whether allocations may fail
    None,           \* SCHED_NONE / SCHED_IDLE
    Workloads,      \* the workloads a run may start from
    PreemptOnReady, \* Policy.preempt_on_ready
    Ewma,           \* PREDICT_EWMA (TRUE) or PREDICT_ORACLE (FALSE)
    AlphaNum, AlphaDen, \* SimOptions.alpha as a fraction
    Tau0            \* SimOptions.tau0, in units of the predictions

Cores == 1..NumCores
NoDeadline == MaxTime
IsOdd(n) == n % 2 = 1
HasCpuPhases(wl) == \A p \in Procs : IsOdd(Len(wl.phases[p]))

ASSUME EngineAssumption ==
    /\ Procs \subseteq Nat /\ IsFiniteSet(Procs) /\ Procs # {}
    /\ NumCores \in Nat \ {0} /\ CsCost \in Nat
    /\ MaxSegments \in Nat \ {0} /\ InitialCap \in Nat \ {0}
    /\ MaxTime \in Nat \ {0}
    /\ MayRunOutOfMemory \in BOOLEAN /\ PreemptOnReady \in BOOLEAN
    /\ Ewma \in BOOLEAN
    /\ AlphaDen \in Nat \ {0} /\ AlphaNum \in 0..AlphaDen /\ Tau0 \in Nat
    /\ None \notin Procs

\* workload_horizon: the latest arrival plus the sum of all bursts
HorizonOf(wl) ==
    Max({wl.arrival[p] : p \in Procs})
    + SumFunction([p \in Procs |-> SumFunction(wl.phases[p])])

(* What workload_validate lets through: an odd number of positive phases   *)
(* cpu:io:...:cpu for every process, and a horizon that fits the clock, so *)
(* that every arrival lies below INT64_MAX.                                *)
ASSUME WorkloadAssumption ==
    \A wl \in Workloads :
        /\ wl.arrival \in [Procs -> 0..(MaxTime - 1)]
        /\ wl.phases \in [Procs -> Seq(1..MaxTime)]
        /\ HasCpuPhases(wl)
        /\ HorizonOf(wl) <= MaxTime

VARIABLES
    w,          \* the workload (never changes)
    stage,      \* where sim_run is
    now,        \* view.now
    pending,    \* processes not yet admitted: order[next..]
    blocked,    \* the heap of processes doing I/O
    remaining, phase, wake, predicted,  \* per process
    core,       \* the Core structs
    picks,      \* slices chosen by dispatch and not yet placed
    cause,      \* ready || requeued || cut of the current instant
    outcome,    \* ProcOutcome of every process
    log,        \* timelines, total number of segments, EngineFail
    switches, csTime,
    closed,     \* loop counter of the final idle segments
    status      \* "running", or what sim_run returned

procVars == <<remaining, phase, wake, predicted>>
resultVars == <<outcome, log, switches, csTime, closed, status>>
engineVars == <<w, stage, now, pending, blocked, procVars, core, picks, cause,
                resultVars>>

-----------------------------------------------------------------------------
(* Derived state *)

BurstLen(p) == w.phases[p][phase[p]]
Free(c) == core[c].proc = None
Busy == {c \in Cores : ~Free(c)}
\* mutant: a core that is switching in counts as free
FreeCoresOrSwitching == {c \in Cores : Free(c) \/ core[c].inCs}
FreeCores == {c \in Cores : Free(c)}
Running == {c \in Busy : ~core[c].inCs}
Completed == {p \in Procs : outcome[p].completion >= 0}
Picked == {picks[i].proc : i \in DOMAIN picks}
OnCore == {core[c].proc : c \in Busy}
Emptied == stage = "done" /\ status # "ok"
Redecide == PreemptOnReady /\ cause

\* p is the first of S by (key, pid): the order of order[] and of `blocked'
IsFirst(p, S, key) ==
    p \in S /\ \A q \in S : key[p] < key[q] \/ (key[p] = key[q] /\ p <= q)

\* c is the lowest core of S: the `for (c = 0; c < ncores; c++)' loops
IsLowest(c, S) == c \in S /\ \A d \in S : c <= d

Lesser(a, b) == IF a < b THEN a ELSE b

AddTime(a, b) == IF a + b > MaxTime THEN MaxTime ELSE a + b
NoteOverflow(l, a, b) == IF a + b > MaxTime THEN [l EXCEPT !.fail = "overflow"] ELSE l

-----------------------------------------------------------------------------
(* Timelines *)

Segment(s, e, p, k) == [start |-> s, end |-> e, proc |-> p, kind |-> k]

\* a timeline of n segments is full: its array is empty or must be doubled
IsFull(n) == n = 0 \/ \E k \in 0..n : n = InitialCap * 2^k

\* mutant: compares where the segments start
MergesWrongEnd(t, g) ==
    /\ t # <<>>
    /\ t[Len(t)].kind = g.kind /\ t[Len(t)].proc = g.proc /\ t[Len(t)].start = g.start
Merges(t, g) ==
    /\ t # <<>>
    /\ t[Len(t)].kind = g.kind /\ t[Len(t)].proc = g.proc /\ t[Len(t)].end = g.start

\* mutant: off by one
AtLimitLate(l) == l.segments > MaxSegments
AtLimit(l) == l.segments >= MaxSegments

(* append(): the logs it may leave when g is added to core c of log l.     *)
AppendSegment(l, c, g) ==
    LET t == l.timelines[c] IN
    CASE g.start >= g.end \/ l.fail # "ok" -> {l}
      [] g.start < g.end /\ l.fail = "ok" /\ Merges(t, g) ->
            {[l EXCEPT !.timelines[c] = [t EXCEPT ![Len(t)].end = g.end]]}
      [] g.start < g.end /\ l.fail = "ok" /\ ~Merges(t, g) /\ AtLimit(l) ->
            {[l EXCEPT !.fail = "limit"]}
      [] OTHER ->
            {[l EXCEPT !.timelines[c] = Append(t, g), !.segments = @ + 1]}
            \cup {m \in {[l EXCEPT !.fail = "nomem"]} :
                    MayRunOutOfMemory /\ IsFull(Len(t))}

-----------------------------------------------------------------------------
(* sim_run up to the first instant *)

FreshCore(t) ==
    [proc |-> None, inCs |-> FALSE, recheck |-> FALSE, busyUntil |-> 0, runStart |-> 0,
     runEnd |-> 0, length |-> 0, deadline |-> 0, context |-> None, freeSince |-> t]

EngineInit ==
    /\ w \in Workloads
    /\ stage = "create"
    /\ now \in {w.arrival[p] : p \in Procs} /\ \A p \in Procs : now <= w.arrival[p]
    /\ pending = Procs /\ blocked = {}
    /\ phase = [p \in Procs |-> 1]
    /\ remaining = [p \in Procs |-> w.phases[p][1]]
    /\ wake = [p \in Procs |-> 0]
    /\ predicted = [p \in Procs |-> Tau0]
    /\ core = [c \in Cores |-> FreshCore(now)]
    /\ picks = <<>> /\ cause = FALSE
    /\ outcome = [p \in Procs |-> [start |-> -1, completion |-> -1]]
    /\ log = [timelines |-> [c \in Cores |-> <<>>], segments |-> 0, fail |-> "ok"]
    /\ switches = 0 /\ csTime = 0 /\ closed = 0
    /\ status = "running"

(* check_options: a switch cost that could overflow the clock is refused,  *)
(* max_segments being a bound on the number of switches.                   *)
\* mutant: leaves room for one switch only
OptionsAcceptedOnce == HorizonOf(w) + CsCost <= MaxTime
OptionsAccepted == HorizonOf(w) + CsCost * MaxSegments <= MaxTime

\* the options are refused, or an array or the policy's state is not allocated
Reject ==
    /\ stage = "create" /\ stage' = "done"
    /\ \/ ~OptionsAccepted /\ status' = "usage"
       \/ OptionsAccepted /\ MayRunOutOfMemory /\ status' \in {"nomem", "usage"}
    /\ UNCHANGED <<w, now, pending, blocked, procVars, core, picks, cause, outcome, log,
                   switches, csTime, closed>>

\* policy->create succeeds and the first process_instant starts
Create ==
    /\ stage = "create" /\ OptionsAccepted /\ stage' = "arrivals"
    /\ UNCHANGED <<w, now, pending, blocked, procVars, core, picks, cause, resultVars>>

-----------------------------------------------------------------------------
(* process_instant, steps 1 and 2: admit_arrivals and wake_blocked *)

Arrived == {p \in pending : w.arrival[p] <= now}
\* mutant: wakes one tick early
WokenEarly == {p \in blocked : wake[p] <= now + 1}
Woken == {p \in blocked : wake[p] <= now}

\* the policy's on_arrival(p)
Admit(p) ==
    /\ stage = "arrivals" /\ IsFirst(p, pending, w.arrival) /\ p \in Arrived
    /\ pending' = pending \ {p} /\ cause' = TRUE
    /\ UNCHANGED <<w, stage, now, blocked, procVars, core, picks, resultVars>>

ArrivalsDone ==
    /\ stage = "arrivals" /\ Arrived = {} /\ stage' = "wakeups"
    /\ UNCHANGED <<w, now, pending, blocked, procVars, core, picks, cause, resultVars>>

\* the policy's on_ready(p), or on_arrival(p) when it has no on_ready
WakeUp(p) ==
    /\ stage = "wakeups" /\ IsFirst(p, blocked, wake) /\ p \in Woken
    /\ blocked' = blocked \ {p} /\ cause' = TRUE
    /\ UNCHANGED <<w, stage, now, pending, procVars, core, picks, resultVars>>

WakeupsDone ==
    /\ stage = "wakeups" /\ Woken = {} /\ stage' = "ends"
    /\ UNCHANGED <<w, now, pending, blocked, procVars, core, picks, cause, resultVars>>

-----------------------------------------------------------------------------
(* process_instant, steps 3 to 5: slice outcomes and switch-ins *)

FullLength == {c \in Running : core[c].runEnd = now}
SwitchedIn == {c \in Busy : core[c].inCs /\ core[c].busyUntil = now}
\* mutant: a slice that has just begun is interrupted too
InterruptedAtOnce == {c \in Running : Redecide \/ core[c].busyUntil = now}
Interrupted == {c \in Running : core[c].runStart # now
                                /\ (Redecide \/ core[c].busyUntil = now)}

\* core c is the next one whose slice ends in the current loop
SliceEnds(c) ==
    \/ stage = "ends" /\ IsLowest(c, FullLength)
    \/ stage = "interrupts" /\ IsLowest(c, Interrupted)

Ran(c) == now - core[c].runStart

\* the part of end_run every outcome shares
EndRun(c) ==
    /\ SliceEnds(c)
    /\ core' = [core EXCEPT ![c] = [@ EXCEPT !.proc = None, !.freeSince = now]]
    /\ UNCHANGED <<w, stage, now, pending, picks, switches, csTime, closed, status>>

LogRun(c) == AppendSegment(log, c, Segment(core[c].runStart, now, core[c].proc, "run"))

BurstOver(c) == remaining[core[c].proc] = Ran(c)
LastPhase(p) == phase[p] = Len(w.phases[p])

\* AlphaNum/AlphaDen * burst_len + (1 - AlphaNum/AlphaDen) * predicted
NewPrediction(p) ==
    IF Ewma THEN (AlphaNum * BurstLen(p) + (AlphaDen - AlphaNum) * predicted[p]) \div AlphaDen
    ELSE predicted[p]

\* end_run and burst_done of a last CPU burst: the policy's on_complete
Complete(c) ==
    LET p == core[c].proc IN
    /\ EndRun(c) /\ BurstOver(c) /\ LastPhase(p)
    /\ log' \in LogRun(c)
    /\ remaining' = [remaining EXCEPT ![p] = 0]
    /\ predicted' = [predicted EXCEPT ![p] = NewPrediction(p)]
    /\ outcome' = [outcome EXCEPT ![p] = [@ EXCEPT !.completion = now]]
    /\ UNCHANGED <<blocked, phase, wake, cause>>

\* end_run and burst_done of any other CPU burst: the policy's on_block
Block(c) ==
    LET p == core[c].proc
        io == w.phases[p][phase[p] + 1] IN
    /\ EndRun(c) /\ BurstOver(c) /\ ~LastPhase(p)
    /\ \E l \in LogRun(c) : log' = NoteOverflow(l, now, io)
    /\ predicted' = [predicted EXCEPT ![p] = NewPrediction(p)]
    /\ wake' = [wake EXCEPT ![p] = AddTime(now, io)]
    /\ phase' = [phase EXCEPT ![p] = @ + 2]
    /\ remaining' = [remaining EXCEPT ![p] = w.phases[p][phase[p] + 2]]
    /\ blocked' = blocked \cup {p}
    /\ UNCHANGED <<outcome, cause>>

\* end_run of a slice that leaves CPU work: the policy's on_preempt
Preempt(c) ==
    LET p == core[c].proc IN
    /\ EndRun(c) /\ ~BurstOver(c)
    /\ log' \in LogRun(c)
    /\ remaining' = [remaining EXCEPT ![p] = @ - Ran(c)]
    /\ cause' = (cause \/ stage = "ends")
    /\ UNCHANGED <<blocked, phase, wake, predicted, outcome>>

\* no slice left to end; cores still switching in are marked for a recheck
EndsDone ==
    /\ stage = "ends" /\ FullLength = {} /\ stage' = "switchins"
    /\ core' = [c \in Cores |-> IF c \in Busy /\ core[c].inCs /\ Redecide
                                 THEN [core[c] EXCEPT !.recheck = TRUE] ELSE core[c]]
    /\ UNCHANGED <<w, now, pending, blocked, procVars, picks, cause, resultVars>>

\* begin_run: core c, whose struct is k, starts to run k.proc
\* mutant: the request is not clamped to the burst
RunLengthUnclamped(k) == k.length
\* mutant: off by one
RunLengthShort(k) == Lesser(k.length, remaining[k.proc]) - 1
RunLength(k) == Lesser(k.length, remaining[k.proc])
Begun(k) ==
    [k EXCEPT !.inCs = FALSE, !.runStart = now, !.runEnd = AddTime(now, RunLength(k)),
              !.busyUntil = Lesser(k.deadline, AddTime(now, RunLength(k)))]
BegunLog(l, k) == NoteOverflow(l, now, RunLength(k))
BegunOutcome(p) ==
    IF outcome[p].start < 0
    THEN [outcome EXCEPT ![p] = [@ EXCEPT !.start = now]] ELSE outcome

\* a reason to decide again arose during the switch: the slice lasts one tick
\* mutant: the switched-in process gets no tick of its own
OneTickNever(c) == FALSE
OneTick(c) == core[c].recheck \/ core[c].deadline <= now

SwitchIn(c) ==
    LET k == IF OneTick(c) THEN [core[c] EXCEPT !.deadline = AddTime(now, 1)] ELSE core[c]
    IN  /\ stage = "switchins" /\ IsLowest(c, SwitchedIn)
        /\ core' = [core EXCEPT ![c] = Begun(k)]
        /\ log' = BegunLog(IF OneTick(c) THEN NoteOverflow(log, now, 1) ELSE log, k)
        /\ outcome' = BegunOutcome(k.proc)
        /\ UNCHANGED <<w, stage, now, pending, blocked, procVars, picks, cause,
                       switches, csTime, closed, status>>

SwitchInsDone ==
    /\ stage = "switchins" /\ SwitchedIn = {} /\ stage' = "interrupts"
    /\ UNCHANGED <<w, now, pending, blocked, procVars, core, picks, cause, resultVars>>

\* the instant is over: the `while' test of sim_run
InstantDone ==
    /\ stage = "interrupts" /\ Interrupted = {}
    /\ stage' = IF Completed # Procs /\ log.fail = "ok" THEN "picks" ELSE "finish"
    /\ UNCHANGED <<w, now, pending, blocked, procVars, core, picks, cause, resultVars>>

-----------------------------------------------------------------------------
(* dispatch *)

Slice(p, len, dl) == [proc |-> p, length |-> len, deadline |-> dl]
\* mutant: only one core is offered
WantsOnePick == stage = "picks" /\ Len(picks) < Lesser(1, Cardinality(FreeCores))
WantsPick == stage = "picks" /\ Len(picks) < Cardinality(FreeCores)

\* next_slice returned true with slice s
Pick(s) ==
    /\ WantsPick /\ picks' = Append(picks, s)
    /\ UNCHANGED <<w, stage, now, pending, blocked, procVars, core, cause, resultVars>>

\* every free core has a slice, or next_slice returned false
PicksDone ==
    /\ stage = "picks" /\ stage' = "place"
    /\ UNCHANGED <<w, now, pending, blocked, procVars, core, picks, cause, resultVars>>

\* pick i last ran on free core c: the affinity pass
Affine(i, c) == NumCores > 1 /\ Free(c) /\ core[c].context = picks[i].proc
AffinePicks == {i \in DOMAIN picks : \E c \in Cores : Affine(i, c)}

\* the core dispatch gives to pick i, which must be the next one to place
PlacesOn(i, c) ==
    \/ IsLowest(i, AffinePicks) /\ IsLowest(c, {d \in Cores : Affine(i, d)})
    \/ AffinePicks = {} /\ i = 1 /\ IsLowest(c, FreeCores)

\* mutant: the first dispatch on a core is charged too
IsSwitchAlways(k, p) == k.context # p
IsSwitch(k, p) == k.context # None /\ k.context # p

\* dispatch_one(c, picks[i])
Place(i, c) ==
    LET s == picks[i]
        switching == IsSwitch(core[c], s.proc)
        taken == [core[c] EXCEPT !.proc = s.proc, !.length = s.length, !.context = s.proc,
                                 !.deadline = s.deadline, !.recheck = FALSE]
        until == AddTime(now, CsCost)
    IN
    /\ stage = "place" /\ PlacesOn(i, c)
    /\ picks' = RemoveAt(picks, i)
    /\ switches' = IF switching THEN switches + 1 ELSE switches
    /\ \E l \in AppendSegment(log, c, Segment(core[c].freeSince, now, None, "idle")) :
        \/ /\ switching /\ CsCost > 0
           /\ core' = [core EXCEPT ![c] = [taken EXCEPT !.inCs = TRUE, !.busyUntil = until]]
           /\ log' \in AppendSegment(NoteOverflow(l, now, CsCost), c,
                                     Segment(now, until, s.proc, "cs"))
           /\ csTime' = csTime + CsCost
           /\ UNCHANGED outcome
        \/ /\ ~(switching /\ CsCost > 0)
           /\ core' = [core EXCEPT ![c] = Begun(taken)]
           /\ log' = BegunLog(l, taken)
           /\ outcome' = BegunOutcome(s.proc)
           /\ UNCHANGED csTime
    /\ UNCHANGED <<w, stage, now, pending, blocked, procVars, cause, closed, status>>

PlacesDone ==
    /\ stage = "place" /\ picks = <<>> /\ stage' = "advance"
    /\ UNCHANGED <<w, now, pending, blocked, procVars, core, picks, cause, resultVars>>

-----------------------------------------------------------------------------
(* next_event, and the end of sim_run *)

\* mutant: the end of an I/O is no event
EventTimesNoWake ==
    {w.arrival[p] : p \in pending} \cup {core[c].busyUntil : c \in Busy}
    \cup {core[c].deadline : c \in {d \in Busy : core[d].deadline > now}}
EventTimes ==
    {w.arrival[p] : p \in pending} \cup {wake[p] : p \in blocked}
    \cup {core[c].busyUntil : c \in Busy}
    \cup {core[c].deadline : c \in {d \in Busy : core[d].deadline > now}}

\* a deadline of a busy core falls due at t
CutAt(t) == \E c \in Busy : core[c].deadline = t

Advance ==
    /\ stage = "advance" /\ stage' = "arrivals"
    /\ \E t \in EventTimes :
        /\ t # MaxTime /\ \A u \in EventTimes : t <= u
        /\ now' = t /\ cause' = CutAt(t)
    /\ UNCHANGED <<w, pending, blocked, procVars, core, picks, resultVars>>

\* the trailing idle segment of the next core
CloseTimeline ==
    /\ stage = "finish" /\ closed < NumCores
    /\ closed' = closed + 1
    /\ log' \in AppendSegment(log, closed + 1,
                    Segment(core[closed + 1].freeSince, now, None, "idle"))
    /\ UNCHANGED <<w, stage, now, pending, blocked, procVars, core, picks, cause,
                   outcome, switches, csTime, status>>

StatusOf(fail) ==
    CASE fail = "ok" -> "ok" [] fail = "nomem" -> "nomem" [] OTHER -> "input"

\* on failure the result is emptied (sim_result_free)
Return ==
    /\ stage = "finish" /\ closed = NumCores /\ stage' = "done"
    /\ status' = StatusOf(log.fail)
    /\ IF log.fail = "ok" THEN UNCHANGED <<outcome, log, switches, csTime>>
       ELSE /\ outcome' = [p \in Procs |-> [start |-> -1, completion |-> -1]]
            /\ log' = [log EXCEPT !.timelines = [c \in Cores |-> <<>>]]
            /\ switches' = 0 /\ csTime' = 0
    /\ UNCHANGED <<w, now, pending, blocked, procVars, core, picks, cause, closed>>

Terminated == stage = "done" /\ UNCHANGED engineVars

\* the steps that call no hook of the policy
EngineStep ==
    \/ Create \/ Reject \/ ArrivalsDone \/ WakeupsDone \/ EndsDone
    \/ \E c \in Cores : SwitchIn(c)
    \/ SwitchInsDone \/ InstantDone
    \/ \E c \in Cores, i \in DOMAIN picks : Place(i, c)
    \/ PlacesDone \/ Advance \/ CloseTimeline \/ Return \/ Terminated

-----------------------------------------------------------------------------
(* Reading the timelines: the ticks a process ran or was switched in *)

\* the segments of p of one kind, as <<core, segment>> pairs
SegmentsOf(p, kind) ==
    UNION {{<<c, g>> : g \in {h \in ToSet(log.timelines[c]) : h.proc = p /\ h.kind = kind}}
           : c \in Cores}
TicksOf(p, kind) ==
    UNION {x[2].start .. (x[2].end - 1) : x \in SegmentsOf(p, kind)}

\* the ticks of the slice that p is running and has not logged yet
UnloggedTicks(p) ==
    UNION {core[c].runStart .. (now - 1) : c \in {d \in Running : core[d].proc = p}}

\* every tick p has run so far
RunTicks(p) == TicksOf(p, "run") \cup UnloggedTicks(p)
=============================================================================
