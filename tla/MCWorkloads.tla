----------------------------- MODULE MCWorkloads -----------------------------
(* The workloads of the small instances that TLC checks. *)
EXTENDS Integers, Sequences

Workload(a, ph) == [arrival |-> a, phases |-> ph]

\* three processes, some with an I/O phase: simultaneous arrivals and wake-ups,
\* arrivals during a switch, and an idle gap before the last one
IoWorkloads ==
    {Workload(<<0, 0, 1>>, <<<<2>>, <<1, 4, 1>>, <<1>>>>),
     Workload(<<1, 1, 1>>, <<<<1>>, <<2>>, <<1>>>>),
     Workload(<<0, 3, 0>>, <<<<1, 3, 2>>, <<1>>, <<1>>>>)}

\* the first is accepted with nothing to spare, the second is refused: its
\* switches would overflow the clock
LimitWorkloads ==
    {Workload(<<0, 0>>, <<<<3>>, <<2, 1, 1>>>>), Workload(<<0, 0>>, <<<<11>>, <<10>>>>)}

\* the burst ends at the last time the clock has
EdgeWorkloads == {Workload(<<0>>, <<<<5>>>>)}

\* every workload of n processes with these arrivals and phases, the first at 0
AllWorkloadsOf(n, arrivals, phases) ==
    {wl \in [arrival : [1..n -> arrivals], phases : [1..n -> phases]] :
        \E p \in 1..n : wl.arrival[p] = 0}
AllWorkloads(arrivals, phases) == AllWorkloadsOf(3, arrivals, phases)

ShortWorkloads == AllWorkloads({0, 1, 3}, {<<1>>, <<5>>, <<2, 1, 1>>})
MixedWorkloads == AllWorkloads({0, 4}, {<<9>>, <<1, 1, 1, 1, 4>>, <<5, 2, 3>>})

\* workloads with tickets, nice values or priorities
Ticketed(wls, tickets) ==
    {[arrival |-> wl.arrival, phases |-> wl.phases, tickets |-> t] :
        wl \in wls, t \in tickets}
Niced(wls, nices) ==
    {[arrival |-> wl.arrival, phases |-> wl.phases, nice |-> n] :
        wl \in wls, n \in nices}
Prioritised(wls, prios) ==
    {[arrival |-> wl.arrival, phases |-> wl.phases, priority |-> prio] :
        wl \in wls, prio \in prios}
=============================================================================
