----------------------- MODULE RunToCompletionPolicies -----------------------
(***************************************************************************)
(* The policies without an on_preempt hook that keep every core busy:      *)
(* fcfs, sjf, prio and hrrn of the registry (src/src/policies/registry.c). *)
(* A run of the simulator picks one by name; all of them must implement    *)
(* the policy interface.                                                   *)
(***************************************************************************)
EXTENDS Engine

CONSTANTS
    WorkloadsOf,   \* per policy name, the workloads to run it on
    Aging, PriorityLimit,
    Home           \* the hash function of hrrn

VARIABLES
    policy,                          \* the name given on the command line
    queue,                           \* of fcfs
    ready,                           \* of sjf or prio
    readySince,                      \* of prio or hrrn
    waited, base, r,                 \* of prio
    table, queues, active            \* of hrrn

agingVars == <<waited, base, r>>
groupVars == <<table, queues, active>>
vars == <<engineVars, policy, queue, ready, readySince, agingVars, groupVars>>

FCFS == INSTANCE Fcfs WITH Workloads <- WorkloadsOf["fcfs"]
SJF == INSTANCE ShortestFirst WITH Workloads <- WorkloadsOf["sjf"]
Prio == INSTANCE Priority WITH Workloads <- WorkloadsOf["prio"]
HRRN == INSTANCE Hrrn WITH Workloads <- WorkloadsOf["hrrn"]

ASSUME RunToCompletionAssumption ==
    /\ ~PreemptOnReady /\ Aging \in Nat /\ PriorityLimit \in Nat
    /\ DOMAIN WorkloadsOf \subseteq {"fcfs", "sjf", "prio", "hrrn"}
    /\ \A name \in DOMAIN WorkloadsOf : WorkloadsOf[name] \subseteq Workloads
    /\ "prio" \in DOMAIN WorkloadsOf =>
         \A wl \in WorkloadsOf["prio"] : wl.priority \in [Procs -> Int]

\* the state of the policies that are not running
Zeros == [p \in Procs |-> 0]
Unused ==
    /\ policy # "fcfs" => queue = <<>>
    /\ policy \notin {"sjf", "prio"} => ready = {}
    /\ policy \notin {"prio", "hrrn"} => readySince = Zeros
    /\ policy # "prio" => waited = Zeros /\ base = Zeros /\ r = Zeros
    /\ policy # "hrrn" => table = <<>> /\ queues = <<>> /\ active = <<>>

Init ==
    /\ policy \in DOMAIN WorkloadsOf
    /\ \/ policy = "fcfs" /\ FCFS!Init
       \/ policy = "sjf" /\ SJF!Init
       \/ policy = "prio" /\ Prio!Init
       \/ policy = "hrrn" /\ HRRN!Init
    /\ Unused

Next ==
    /\ UNCHANGED policy
    /\ \/ policy = "fcfs" /\ FCFS!Next /\ UNCHANGED <<ready, readySince, agingVars, groupVars>>
       \/ policy = "sjf" /\ SJF!Next /\ UNCHANGED <<queue, readySince, agingVars, groupVars>>
       \/ policy = "prio" /\ Prio!Next /\ UNCHANGED <<queue, groupVars>>
       \/ policy = "hrrn" /\ HRRN!Next /\ UNCHANGED <<queue, ready, agingVars>>

Spec == Init /\ [][Next]_vars
FairSpec == Spec /\ WF_vars(Next)

-----------------------------------------------------------------------------

Ready ==
    CASE policy = "fcfs" -> ToSet(queue) [] policy = "hrrn" -> HRRN!Ready [] OTHER -> ready

Abstract == INSTANCE AnyPolicy WITH
    Preemptive <- FALSE, WorkConserving <- TRUE, SliceLengths <- {}, DeadlineGaps <- {},
    ready <- Ready

(* Each of them keeps the policy protocol.  In particular it asks for *)
(* the whole burst, so the engine never reports a preemption to it and the *)
(* missing hook is never called.                                           *)
Implements == Abstract!FairSpec

(* fcfs: turns go by the time of becoming ready, then arrivals before      *)
(* wake-ups, then pid (fcfs.c:1-3).                                        *)
InOrderOfReadiness == policy = "fcfs" => FCFS!InOrderOfReadiness

(* prio: the process chosen has the lowest effective priority of all that  *)
(* are ready (priority.c:3-10).                                            *)
LowestEffectiveRuns == policy = "prio" => Prio!LowestEffectiveRuns

(* hrrn: the process chosen has the highest response ratio of all that are *)
(* ready, though only the heads of the groups are compared (hrrn.c:1-19).  *)
HighestRatioRuns == policy = "hrrn" => HRRN!HighestRatioRuns

(* hrrn: the hash table finds the group of every ready process, whatever   *)
(* was removed from the cluster around it, and loses no id                 *)
(* (hrrn.c:151-181).                                                       *)
GroupsReachable == policy = "hrrn" => HRRN!GroupsReachable
=============================================================================
