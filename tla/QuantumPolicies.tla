-------------------------- MODULE QuantumPolicies ---------------------------
(***************************************************************************)
(* The preemptive policies whose running set is not re-chosen when         *)
(* something becomes ready: rr, lottery, stride and cfs of the registry    *)
(* (src/src/policies/registry.c).  A run of the simulator picks one by     *)
(* name; all of them must implement the policy interface.                  *)
(***************************************************************************)
EXTENDS Engine

CONSTANTS
    WorkloadsOf,   \* per policy name, the workloads to run it on
    Quantum, Word, Stride1,
    Latency, MinGran, NiceToWeight, Unit, NiceUnit, MaxCpu, MaxLatency

VARIABLES
    policy,                                   \* the name given on the command line
    queue,                                    \* of rr
    tree, total,                              \* of lottery
    pass, vtime,                              \* of stride
    vruntime, minVruntime, runnableWeight,    \* of cfs
    ready                                     \* of stride or cfs

rrVars == queue
lotteryVars == <<tree, total>>
strideVars == <<pass, vtime>>
cfsVars == <<vruntime, minVruntime, runnableWeight>>
vars == <<engineVars, policy, rrVars, lotteryVars, strideVars, cfsVars, ready>>

RR == INSTANCE RoundRobin WITH Workloads <- WorkloadsOf["rr"]
Lot == INSTANCE Lottery WITH Workloads <- WorkloadsOf["lottery"]
Str == INSTANCE Stride WITH Workloads <- WorkloadsOf["stride"]
CFS == INSTANCE Cfs WITH Workloads <- WorkloadsOf["cfs"]

ASSUME QuantumAssumption ==
    /\ ~PreemptOnReady /\ Quantum \in 1..MaxTime /\ MinGran \in 1..MaxTime
    /\ Latency \in 0..MaxTime /\ Stride1 \in Nat \ {0} /\ Unit \in Nat /\ NiceUnit \in Nat
    /\ MaxCpu \in Nat
    /\ DOMAIN WorkloadsOf = {"rr", "lottery", "stride", "cfs"}
    /\ \A name \in DOMAIN WorkloadsOf : WorkloadsOf[name] \subseteq Workloads
    /\ \A wl \in WorkloadsOf["stride"] : \A p \in Procs : wl.tickets[p] \in Nat \ {0}
    /\ \A wl \in WorkloadsOf["cfs"] : \A p \in Procs : NiceToWeight[wl.nice[p]] \in Nat \ {0}

\* the state of the policies that are not running
Unused ==
    /\ policy # "rr" => queue = <<>>
    /\ policy # "lottery" => tree = <<>> /\ total = 0
    /\ policy # "stride" => pass = <<>> /\ vtime = 0
    /\ policy # "cfs" => vruntime = <<>> /\ minVruntime = 0 /\ runnableWeight = 0
    /\ policy \notin {"stride", "cfs"} => ready = {}

Init ==
    /\ policy \in DOMAIN WorkloadsOf
    /\ \/ policy = "rr" /\ RR!Init
       \/ policy = "lottery" /\ Lot!Init
       \/ policy = "stride" /\ Str!Init
       \/ policy = "cfs" /\ CFS!Init
    /\ Unused

Next ==
    /\ UNCHANGED policy
    /\ \/ policy = "rr" /\ RR!Next /\ UNCHANGED <<lotteryVars, strideVars, cfsVars, ready>>
       \/ policy = "lottery" /\ Lot!Next /\ UNCHANGED <<rrVars, strideVars, cfsVars, ready>>
       \/ policy = "stride" /\ Str!Next /\ UNCHANGED <<rrVars, lotteryVars, cfsVars>>
       \/ policy = "cfs" /\ CFS!Next /\ UNCHANGED <<rrVars, lotteryVars, strideVars>>

Spec == Init /\ [][Next]_vars
FairSpec == Spec /\ WF_vars(Next)

-----------------------------------------------------------------------------

Ready ==
    CASE policy = "rr" -> ToSet(queue) [] policy = "lottery" -> Lot!Ready [] OTHER -> ready

\* creating a policy may fail: stride and cfs refuse long workloads
Abstract == INSTANCE AnyPolicy WITH
    Preemptive <- TRUE, WorkConserving <- TRUE, SliceLengths <- 1..MaxTime,
    DeadlineGaps <- {}, ready <- Ready, MayRunOutOfMemory <- TRUE

(* Each of the four keeps the policy protocol, so that whatever AnyPolicy  *)
(* guarantees holds of it, and its schedule is computed.                   *)
Implements == Abstract!Spec /\ Abstract!Returns

(* rr: while a process waits for its first turn, no other gets more than   *)
(* one quantum (rr.c:1-4).                                                 *)
BoundedBypass == policy = "rr" => RR!BoundedBypass

(* lottery: each ready process wins exactly its tickets' share of the      *)
(* generator's outputs (lottery.c:3-13).                                   *)
FairDraw == policy = "lottery" => Lot!FairDraw

(* stride, cfs: pass and vruntime are covered by the CPU time used so far, *)
(* which create has bounded, so they cannot overflow (stride.c:37,         *)
(* cfs.c:25).                                                              *)
VirtualTimeBounded ==
    /\ policy = "stride" => Str!PassBounded
    /\ policy = "cfs" => CFS!VruntimeBounded

(* cfs: the weight that shares the latency is that of the processes ready  *)
(* or running (cfs.c:8-9).                                                 *)
RunnableWeightExact == policy = "cfs" => CFS!RunnableWeightExact

(* CPU time is shared as asked for: under stride, competing processes get  *)
(* it in proportion to their tickets, within a quantum of each             *)
(* (stride.c:8-10); under cfs, their weighted CPU times differ by at most  *)
(* a slice of each (cfs.c:1-9).                                            *)
FairShares ==
    /\ policy = "stride" => Str!ProportionalShare
    /\ policy = "cfs" => CFS!WeightedShare
=============================================================================
