----------------------------- MODULE AnyPolicy ------------------------------
(***************************************************************************)
(* The engine composed with the policy interface of                        *)
(* src/include/sched/policy.h: the ready set and the protocol that every   *)
(* scheduling policy follows, with the choice of the next process and of   *)
(* its slice left open.  It is the abstract specification that the modules *)
(* of the concrete policies implement; what holds here holds for all.      *)
(***************************************************************************)
EXTENDS Engine

CONSTANTS
    Preemptive,      \* Policy.on_preempt # NULL
    WorkConserving,  \* Policy.work_conserving
    SliceLengths,    \* the slice lengths a preemptive policy may ask for
    DeadlineGaps     \* how far ahead of now its deadlines may lie

ASSUME PolicyAssumption ==
    /\ Preemptive \in BOOLEAN /\ WorkConserving \in BOOLEAN
    /\ SliceLengths \subseteq Nat \ {0} /\ DeadlineGaps \subseteq Nat \ {0}
    /\ PreemptOnReady => Preemptive

VARIABLE ready   \* admitted processes waiting for a core

vars == <<engineVars, ready>>

Init == EngineInit /\ ready = {}

(* The slices next_slice may return for p.  A policy without on_preempt    *)
(* lets a burst run to its end, with no deadline.                          *)
SlicesFor(p) ==
    IF Preemptive
    THEN {Slice(p, len, dl) : len \in SliceLengths,
            dl \in {NoDeadline} \cup {now + g : g \in {h \in DeadlineGaps : now + h < MaxTime}}}
    ELSE {Slice(p, remaining[p], NoDeadline)}

(* next_slice may return false with processes ready only if the policy is  *)
(* not work-conserving, and then only to wait for an arrival.              *)
MayDecline == ready = {} \/ (~WorkConserving /\ pending # {})

Arrive(p) == Admit(p) /\ ready' = ready \cup {p}
BecomeReady(p) == WakeUp(p) /\ ready' = ready \cup {p}
SliceCompletes(c) == Complete(c) /\ UNCHANGED ready
SliceBlocks(c) == Block(c) /\ UNCHANGED ready
SlicePreempted(c) == Preempt(c) /\ ready' = ready \cup {core[c].proc}
NextSlice(s) == Pick(s) /\ ready' = ready \ {s.proc}
StopPicking == PicksDone /\ (WantsPick => MayDecline) /\ UNCHANGED ready

Next ==
    \/ \E p \in Procs : Arrive(p) \/ BecomeReady(p)
    \/ \E c \in Cores : SliceCompletes(c) \/ SliceBlocks(c) \/ SlicePreempted(c)
    \/ \E p \in ready : \E s \in SlicesFor(p) : NextSlice(s)
    \/ StopPicking
    \/ EngineStep /\ UNCHANGED ready

Spec == Init /\ [][Next]_vars

\* sim_run is one thread that never waits: it keeps taking steps
FairSpec == Spec /\ WF_vars(Next)

-----------------------------------------------------------------------------
(* Types *)

Times == 0..MaxTime
Stages == {"create", "arrivals", "wakeups", "ends", "switchins", "interrupts", "picks",
           "place", "advance", "finish", "done"}
CoreStructs ==
    [proc : Procs \cup {None}, inCs : BOOLEAN, recheck : BOOLEAN, busyUntil : Times,
     runStart : Times, runEnd : Times, length : Nat, deadline : Times,
     context : Procs \cup {None}, freeSince : Times]
Slices == [proc : Procs, length : Nat, deadline : Times]
Segments ==
    [start : Times, end : Times, proc : Procs \cup {None}, kind : {"run", "idle", "cs"}]
Logs ==
    [timelines : [Cores -> Seq(Segments)], segments : Nat,
     fail : {"ok", "nomem", "limit", "overflow"}]

(* Every variable stays within the C type that holds it: in particular     *)
(* remaining[] (an int64_t) never goes below zero and no time leaves       *)
(* 0..INT64_MAX (engine.c:32-69).                                          *)
TypeOK ==
    /\ w \in Workloads /\ stage \in Stages /\ now \in Times
    /\ pending \subseteq Procs /\ blocked \subseteq Procs /\ ready \subseteq Procs
    /\ remaining \in [Procs -> Times] /\ wake \in [Procs -> Times]
    /\ phase \in [Procs -> Nat \ {0}]
    /\ \A p \in Procs : IsOdd(phase[p]) /\ phase[p] <= Len(w.phases[p])
    /\ predicted \in [Procs -> Nat]
    /\ core \in [Cores -> CoreStructs]
    /\ picks \in Seq(Slices)
    /\ cause \in BOOLEAN
    /\ outcome \in [Procs -> [start : Times \cup {-1}, completion : Times \cup {-1}]]
    /\ log \in Logs
    /\ switches \in Nat /\ csTime \in Nat /\ closed \in 0..NumCores
    /\ status \in {"running", "ok", "nomem", "usage", "input"}

-----------------------------------------------------------------------------
(* Safety *)

(* A process is in exactly one place: not yet arrived, in the ready set,   *)
(* chosen by dispatch, on one core, doing I/O, or completed.  So no policy *)
(* ever receives a process twice ("a process is never in the ready set     *)
(* twice"), and no process is lost between two hooks.                      *)
OnePlace ==
    /\ ~Emptied =>
         Procs = pending \cup ready \cup Picked \cup OnCore \cup blocked \cup Completed
    /\ pending \cap (ready \cup Picked \cup OnCore \cup blocked \cup Completed) = {}
    /\ ready \cap (Picked \cup OnCore \cup blocked \cup Completed) = {}
    /\ Picked \cap (OnCore \cup blocked \cup Completed) = {}
    /\ OnCore \cap (blocked \cup Completed) = {}
    /\ blocked \cap Completed = {}
    /\ \A i, j \in DOMAIN picks : i # j => picks[i].proc # picks[j].proc
    /\ \A c, d \in Busy : c # d => core[c].proc # core[d].proc

(* No two cores remember the same last process, so the affinity pass of    *)
(* dispatch (engine.c:229-238) has at most one core to choose, and a       *)
(* process that is re-chosen at the instant of its interruption finds its  *)
(* own core: no switch is charged for it.                                  *)
ContextsDistinct ==
    \A c, d \in Cores :
        c # d /\ core[c].context # None => core[c].context # core[d].context

(* The three assert()s of engine.c (180, 200, 414): a run-to-completion    *)
(* policy is never preempted, a slice to place has work, length and a      *)
(* deadline ahead, and while processes are unfinished an event is due.     *)
AssertionsHold ==
    /\ ~Preemptive => \A c \in Cores : SliceEnds(c) => BurstOver(c)
    /\ stage = "place" =>
         \A i \in DOMAIN picks : /\ remaining[picks[i].proc] > 0
                                 /\ picks[i].length > 0 /\ picks[i].deadline > now
    /\ stage = "advance" => \E t \in EventTimes : t # MaxTime

(* What the hooks are told: a slice that ends ran at least one tick, no    *)
(* more than the slice asked for, and no more than the burst had left,     *)
(* even when it began with a switch-in whose deadline had passed.          *)
RanWithinSlice ==
    \A c \in Cores : SliceEnds(c) =>
        1 <= Ran(c) /\ Ran(c) <= core[c].length /\ Ran(c) <= remaining[core[c].proc]

(* Simulated time never stands still or goes back from one instant to the  *)
(* next: the simulation cannot loop within one tick.                       *)
TimeAdvances == [][stage = "advance" /\ stage' # "advance" => now' > now]_vars

FirstArrival(t) == (\E p \in Procs : w.arrival[p] = t) /\ \A p \in Procs : t <= w.arrival[p]
SameLabel(g, h) == g.kind = h.kind /\ g.proc = h.proc

(* engine.h:26: a timeline is a sequence of non-empty segments that touch, *)
(* begins at the first arrival, never holds two adjacent segments that     *)
(* should have been merged, and reaches the makespan on every core.        *)
TimelinesContiguous ==
    \A c \in Cores :
        LET t == log.timelines[c] IN
        /\ \A i \in DOMAIN t : t[i].start < t[i].end
        /\ \A i \in 1..(Len(t) - 1) :
             t[i].end = t[i + 1].start /\ ~SameLabel(t[i], t[i + 1])
        /\ t # <<>> => FirstArrival(t[1].start)
        /\ status = "ok" => t # <<>> /\ t[Len(t)].end = now

(* The schedule is computed: every fair run of sim_run returns.            *)
Returns == <>(stage = "done")
=============================================================================
