-------------------------- MODULE WorkloadContainer --------------------------
(***************************************************************************)
(* The workload of src/src/engine/workload.c: processes, and one pool that *)
(* holds the phases of all of them.  A function that can fail is given by  *)
(* the set of statuses it may return.                                      *)
(***************************************************************************)
EXTENDS Integers, Sequences, FiniteSets, FiniteSetsExt, SequencesExt

CONSTANTS
    MaxInt,             \* INT64_MAX, scaled down
    MaxTickets,         \* SCHED_MAX_TICKETS
    MinNice, MaxNice,   \* SCHED_MIN_NICE, SCHED_MAX_NICE
    Defaults,           \* priority, tickets and nice of a process without them
    FirstCapacity,      \* 16 in grow
    MayRunOutOfMemory

ASSUME ContainerAssumption ==
    /\ MaxInt \in Nat \ {0} /\ MaxTickets \in 1..MaxInt /\ FirstCapacity \in Nat \ {0}
    /\ MinNice \in Int /\ MaxNice \in Int /\ MinNice <= MaxNice
    /\ Defaults.tickets \in 1..MaxTickets /\ Defaults.nice \in MinNice..MaxNice
    /\ MayRunOutOfMemory \in BOOLEAN

IsOdd(n) == n % 2 = 1
Total(ints) == FoldSeq(+, 0, ints)
CpuPart(phases) == Total([k \in 1..((Len(phases) + 1) \div 2) |-> phases[2 * k - 1]])
IoPart(phases) == Total([k \in 1..(Len(phases) \div 2) |-> phases[2 * k]])
PhasesOf(wl, i) ==
    SubSeq(wl.phases, wl.items[i].start + 1, wl.items[i].start + wl.items[i].count)

process_make ==
    [pid |-> 0, arrival |-> 0, burst |-> 0, io |-> 0, priority |-> Defaults.priority,
     tickets |-> Defaults.tickets, nice |-> Defaults.nice, start |-> 0, count |-> 0]
workload_init == [items |-> <<>>, phases |-> <<>>]

\* grow allocates: the capacity, a power of two times FirstCapacity, is used up
Grows(len, need) ==
    len = 0 \/ \E k \in 0..len : len <= FirstCapacity * 2^k /\ FirstCapacity * 2^k < need
                                 /\ (k > 0 => FirstCapacity * 2^(k - 1) < len)

\* ck_add_i64 sums terms > 0: no partial sum overflows unless the last does
PhasesAccepted(phases) ==
    /\ IsOdd(Len(phases)) /\ \A k \in DOMAIN phases : phases[k] > 0
    /\ CpuPart(phases) <= MaxInt /\ IoPart(phases) <= MaxInt

\* workload_push_phases
PushStatuses(wl, phases) ==
    IF ~PhasesAccepted(phases) THEN {"input"}
    ELSE {"ok"} \cup {s \in {"nomem"} :
            MayRunOutOfMemory /\ (Grows(Len(wl.phases), Len(wl.phases) + Len(phases))
                                  \/ Grows(Len(wl.items), Len(wl.items) + 1))}
\* mutant: the range starts at the number of processes, not of phases
PushedAtItem(wl, p, phases) ==
    [items |-> Append(wl.items, [p EXCEPT !.burst = CpuPart(phases), !.io = IoPart(phases),
                                          !.start = Len(wl.items), !.count = Len(phases)]),
     phases |-> wl.phases \o phases]
Pushed(wl, p, phases) ==
    [items |-> Append(wl.items, [p EXCEPT !.burst = CpuPart(phases), !.io = IoPart(phases),
                                          !.start = Len(wl.phases), !.count = Len(phases)]),
     phases |-> wl.phases \o phases]

\* process_validate
ProcessAccepted(p) ==
    /\ p.pid >= 0 /\ p.arrival >= 0 /\ p.burst > 0
    /\ p.tickets \in 1..MaxTickets /\ p.nice \in MinNice..MaxNice

ItemAccepted(wl, i) ==
    LET p == wl.items[i]
        phases == PhasesOf(wl, i) IN
    /\ ProcessAccepted(p) /\ PhasesAccepted(phases)
    /\ p.burst = CpuPart(phases) /\ p.io = IoPart(phases)

workload_horizon(wl) ==
    Max({wl.items[i].arrival : i \in DOMAIN wl.items})
    + Total([i \in DOMAIN wl.items |-> wl.items[i].burst + wl.items[i].io])

\* workload_validate
ValidateStatuses(wl) ==
    IF wl.items = <<>> \/ (\E i \in DOMAIN wl.items : ~ItemAccepted(wl, i))
       \/ workload_horizon(wl) > MaxInt
    THEN {"input"}
    ELSE {s \in {"nomem"} : MayRunOutOfMemory}
         \cup (IF \E i, j \in DOMAIN wl.items : i < j /\ wl.items[i].pid = wl.items[j].pid
               THEN {"input"} ELSE {"ok"})
=============================================================================
