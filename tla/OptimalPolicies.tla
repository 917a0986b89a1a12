--------------------------- MODULE OptimalPolicies ---------------------------
(***************************************************************************)
(* The policies that are optimal in a setting of their own: srtf, sjf and  *)
(* opt-np of the registry (src/src/policies/registry.c), judged against    *)
(* exhaustive search on one core with free switches and CPU-only processes *)
(* (docs/model.md, "Optimality").                                          *)
(***************************************************************************)
EXTENDS Engine

CONSTANTS
    WorkloadsOf,        \* per policy name, the workloads to run it on
    MaxJobs, MaxNodes   \* of opt-np

VARIABLES
    policy,               \* the name given on the command line
    ready,                \* the heap of srtf or sjf
    order, pos, arrived   \* of opt-np

optVars == <<order, pos, arrived>>
vars == <<engineVars, policy, ready, optVars>>

SRTF == INSTANCE ShortestFirst WITH
    PreemptOnReady <- TRUE, Workloads <- WorkloadsOf["srtf"]
SJF == INSTANCE ShortestFirst WITH
    PreemptOnReady <- FALSE, Workloads <- WorkloadsOf["sjf"]
OPT == INSTANCE OptNp WITH
    PreemptOnReady <- FALSE, Workloads <- WorkloadsOf["opt-np"]

ASSUME OptimalAssumption ==
    /\ MaxJobs \in Nat /\ MaxNodes \in Nat
    /\ DOMAIN WorkloadsOf \subseteq {"srtf", "sjf", "opt-np"}
    /\ \A name \in DOMAIN WorkloadsOf : WorkloadsOf[name] \subseteq Workloads

\* the state of the policies that are not running
Unused ==
    /\ policy = "opt-np" => ready = {}
    /\ policy # "opt-np" => order = <<>> /\ pos = 0 /\ arrived = {}

Init ==
    /\ policy \in DOMAIN WorkloadsOf
    /\ \/ policy = "srtf" /\ SRTF!Init
       \/ policy = "sjf" /\ SJF!Init
       \/ policy = "opt-np" /\ OPT!Init
    /\ Unused

Next ==
    /\ UNCHANGED policy
    /\ \/ policy = "srtf" /\ SRTF!Next /\ UNCHANGED optVars
       \/ policy = "sjf" /\ SJF!Next /\ UNCHANGED optVars
       \/ policy = "opt-np" /\ OPT!Next /\ UNCHANGED ready

Spec == Init /\ [][Next]_vars
FairSpec == Spec /\ WF_vars(Next)

-----------------------------------------------------------------------------

(* srtf minimises mean turnaround over all preemptive schedules            *)
(* (docs/model.md, "Optimality").                                          *)
SrtfOptimal == policy = "srtf" => SRTF!SrtfOptimal

(* sjf minimises mean turnaround over all orders of bursts that arrive     *)
(* together (docs/model.md, "Optimality").                                 *)
SjfOptimal == policy = "sjf" => SJF!SjfOptimal

(* opt-np has the least total turnaround of all non-preemptive schedules,  *)
(* those that idle on purpose included, in spite of its pruning            *)
(* (optnp.c:1-22).                                                         *)
OptNpOptimal == policy = "opt-np" => OPT!OptNpOptimal

(* opt-np keeps the protocol of a policy that may leave the core idle: it  *)
(* declines only while an arrival is still to come, so the simulation      *)
(* never stalls (policy.h:20-26).                                          *)
OptNpImplements ==
    /\ policy = "opt-np" => OPT!Abstract!Init
    /\ [][policy = "opt-np" => OPT!Abstract!Next]_(OPT!Abstract!vars)
    /\ policy = "opt-np" ~> stage = "done"
=============================================================================
