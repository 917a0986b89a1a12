-------------------------- MODULE RedecidedPolicies --------------------------
(***************************************************************************)
(* The policies with preempt_on_ready, whose running set is re-chosen at   *)
(* every arrival and wake-up: srtf, mlfq and prio-p of the registry        *)
(* (src/src/policies/registry.c).  A run of the simulator picks one by     *)
(* name; all of them must implement the policy interface.                  *)
(***************************************************************************)
EXTENDS Engine

CONSTANTS
    WorkloadsOf,   \* per policy name, the workloads to run it on
    NumLevels, Quanta, Allotments, Boost,
    Aging, PriorityLimit

VARIABLES
    policy,                          \* the name given on the command line
    ready,                           \* of srtf or prio-p
    waited, readySince, base, r,     \* of prio-p
    epoch, queues, job               \* of mlfq

agingVars == <<waited, readySince, base, r>>
mlfqVars == <<epoch, queues, job>>
vars == <<engineVars, policy, ready, agingVars, mlfqVars>>

SRTF == INSTANCE ShortestFirst WITH Workloads <- WorkloadsOf["srtf"]
MLFQ == INSTANCE Mlfq WITH Workloads <- WorkloadsOf["mlfq"]
PrioP == INSTANCE Priority WITH Workloads <- WorkloadsOf["prio-p"]

ASSUME RedecidedAssumption ==
    /\ PreemptOnReady /\ Aging \in Nat /\ PriorityLimit \in Nat
    /\ NumLevels \in Nat \ {0} /\ Boost \in Nat
    /\ Quanta \in [1..NumLevels -> 1..MaxTime] /\ Allotments \in [1..NumLevels -> 1..MaxTime]
    /\ DOMAIN WorkloadsOf \subseteq {"srtf", "mlfq", "prio-p"}
    /\ \A name \in DOMAIN WorkloadsOf : WorkloadsOf[name] \subseteq Workloads
    /\ "prio-p" \in DOMAIN WorkloadsOf =>
         \A wl \in WorkloadsOf["prio-p"] : wl.priority \in [Procs -> Int]

\* the state of the policies that are not running
NoAging == [p \in Procs |-> 0]
Unused ==
    /\ policy # "mlfq" => epoch = 0 /\ queues = <<>> /\ job = <<>>
    /\ policy # "prio-p" =>
         waited = NoAging /\ readySince = NoAging /\ base = NoAging /\ r = NoAging
    /\ policy = "mlfq" => ready = {}

Init ==
    /\ policy \in DOMAIN WorkloadsOf
    /\ \/ policy = "srtf" /\ SRTF!Init
       \/ policy = "mlfq" /\ MLFQ!Init
       \/ policy = "prio-p" /\ PrioP!Init
    /\ Unused

Next ==
    /\ UNCHANGED policy
    /\ \/ policy = "srtf" /\ SRTF!Next /\ UNCHANGED <<agingVars, mlfqVars>>
       \/ policy = "mlfq" /\ MLFQ!Next /\ UNCHANGED <<ready, agingVars>>
       \/ policy = "prio-p" /\ PrioP!Next /\ UNCHANGED mlfqVars

Spec == Init /\ [][Next]_vars
FairSpec == Spec /\ WF_vars(Next)

-----------------------------------------------------------------------------

Ready == IF policy = "mlfq" THEN MLFQ!Queued ELSE ready

Abstract == INSTANCE AnyPolicy WITH
    Preemptive <- TRUE, WorkConserving <- TRUE,
    SliceLengths <- 1..MaxTime, DeadlineGaps <- 1..Max({Boost, Aging}),
    ready <- Ready

(* Each of the three keeps the policy protocol.  MLFQ loses no job and     *)
(* queues none twice when a boost splices its queues; an SRTF slice covers *)
(* the true rest of a burst that has outlived its prediction; boosts and   *)
(* aging give deadlines that lie ahead.                                    *)
Implements == Abstract!FairSpec

(* srtf, prio-p: with free switches the running processes are at all times *)
(* the best of all (docs/model.md, "Multiple cores").                      *)
BestAreRunning ==
    /\ policy = "srtf" => SRTF!BestAreRunning
    /\ policy = "prio-p" => PrioP!BestAreRunning

(* "every heap key is constant while it sits there" (srtf.c:6): the order  *)
(* of the heap cannot rot while processes wait, though remaining[],        *)
(* burst_len[] and predicted[] are shared with the engine.                 *)
KeysConstant == [][policy = "srtf" => SRTF!KeysKept]_vars

(* mlfq: a job sits, once, in the queue of the level that sync() will give *)
(* it, so lazy resets are invisible (mlfq.c:149-158), and ahead of fresh   *)
(* ones if it was interrupted in mid-slice (mlfq.c:16-18).                 *)
QueuesMatchJobs == policy = "mlfq" => MLFQ!TypeOK /\ MLFQ!InterruptedKeepTurn

(* mlfq: the level is a function of the CPU time since the last boost      *)
(* alone (mlfq.c:7-13).                                                    *)
LevelMatchesService == policy = "mlfq" => MLFQ!LevelMatchesService

(* mlfq: no job runs while one of a higher level waits (mlfq.c:3-4).      *)
HigherLevelsRun == policy = "mlfq" => MLFQ!HigherLevelsRun

(* mlfq: "Once a job has used its level's time allotment ... it moves down *)
(* one level" (mlfq.c:8-9), as the documentation has it.                   *)
MovesDownAfterAllotment == policy = "mlfq" => MLFQ!MovesDownAfterAllotment
=============================================================================
