-------------------------------- MODULE Hrrn --------------------------------
(***************************************************************************)
(* Highest Response Ratio Next (src/src/policies/hrrn.c).  Ready processes *)
(* are grouped by the length S of their burst; a hash table with linear    *)
(* probing finds the group of a length, and each group is a queue whose    *)
(* head has waited longest.  A decision compares the heads only.           *)
(* Group ids are 1..n, so that 0 can mark an empty slot as in the code.    *)
(***************************************************************************)
EXTENDS Engine

CONSTANT Home   \* the slot of each length, hash(key) & mask: any spread will do

VARIABLES
    readySince,  \* per process
    table,       \* slots, mask, slot_of, key and the stack free_ids
    queues,      \* per group, its processes from head to tail
    active       \* the list of non-empty groups

hrrnVars == <<readySince, table, queues, active>>
vars == <<engineVars, hrrnVars>>

N == Cardinality(Procs)
Groups == 1..N
\* a power of two, at least 2 and at least 2n
NumSlots == Min({k \in {2^i : i \in 1..(N + 1)} : k >= 2 * N})

EmptyTable ==
    [slots |-> [i \in 0..(NumSlots - 1) |-> 0], mask |-> NumSlots - 1,
     slotOf |-> [g \in Groups |-> 0],
     key |-> [g \in Groups |-> 0], free |-> [i \in Groups |-> N + 1 - i]]

HrrnInit ==
    /\ readySince = [p \in Procs |-> 0] /\ table = EmptyTable
    /\ queues = [g \in Groups |-> <<>>] /\ active = <<>>
Init == EngineInit /\ HrrnInit

-----------------------------------------------------------------------------
(* Comparing response ratios *)

\* S, the length to wait in proportion to; also the key of the group
Expected(p) == IF Ewma THEN predicted[p] ELSE BurstLen(p)

\* cmp_fraction: the sign of a/b - c/d
CmpFraction[a \in Nat, b \in Nat, c \in Nat, d \in Nat] ==
    IF a \div b # c \div d THEN IF a \div b < c \div d THEN -1 ELSE 1
    ELSE IF a % b = 0 \/ c % d = 0
         THEN (IF a % b = 0 THEN 0 ELSE 1) - (IF c % d = 0 THEN 0 ELSE 1)
         ELSE -CmpFraction[b, a % b, d, c % d]

\* the doubles of predicted lengths are compared exactly here
CmpRatio(p, q) ==
    CmpFraction[now - readySince[p], Expected(p), now - readySince[q], Expected(q)]

EarlierArrival(p, q) ==
    w.arrival[p] < w.arrival[q] \/ (w.arrival[p] = w.arrival[q] /\ p < q)
Better(p, q) == CmpRatio(p, q) > 0 \/ (CmpRatio(p, q) = 0 /\ EarlierArrival(p, q))

\* the order of a group, `since' being ready_since
\* mutant: first in, first out, also among processes that become ready together
QueuedBeforeFifo(p, q, since) == since[p] < since[q]
QueuedBefore(p, q, since) ==
    since[p] < since[q] \/ (since[p] = since[q] /\ EarlierArrival(p, q))

-----------------------------------------------------------------------------
(* The table of groups *)

Following(i) == (i + 1) % (table.mask + 1)

\* the slot where the probing for key k from slot i on ends: its group's or an
\* empty one
Probe[k \in Nat, i \in Nat] ==
    IF table.slots[i] = 0 \/ table.key[table.slots[i]] = k THEN i ELSE Probe[k, Following(i)]
SlotFor(k) == Probe[k, Home[k]]

\* group_for: the group for k, and the table with it
GroupFor(k) ==
    IF table.slots[SlotFor(k)] # 0 THEN table.slots[SlotFor(k)] ELSE Last(table.free)
WithGroup(k) ==
    LET i == SlotFor(k)
        g == GroupFor(k) IN
    IF table.slots[i] # 0 THEN table
    ELSE [table EXCEPT !.slots[i] = g, !.slotOf[g] = i, !.key[g] = k, !.free = Front(@)]

\* slot h lies in (i, j], going round the end of the array
\* mutant: the end of the array is forgotten
BetweenUnwrapped(h, i, j) == i < h /\ h <= j
Between(h, i, j) == IF i <= j THEN i < h /\ h <= j ELSE h > i \/ h <= j

Tables ==
    [slots : [0..(NumSlots - 1) -> Nat], mask : Nat, slotOf : [Groups -> Nat],
     key : [Groups -> Nat], free : Seq(Groups)]

\* the backward shift of table t from slot j on, with a hole at slot i: a group
\* moves into the hole unless its home lies behind the hole
Shifted[t \in Tables, i \in Nat, j \in Nat] ==
    LET g == t.slots[j] IN
    CASE g = 0 -> [t EXCEPT !.slots[i] = 0]
      [] g # 0 /\ Between(Home[t.key[g]], i, j) -> Shifted[t, i, Following(j)]
      [] OTHER -> Shifted[[t EXCEPT !.slots[i] = g, !.slotOf[g] = i], j, Following(j)]

\* release_group: g leaves the table and its id is free again
Released(g) ==
    [Shifted[table, table.slotOf[g], Following(table.slotOf[g])]
        EXCEPT !.free = Append(@, g)]

-----------------------------------------------------------------------------
(* The hooks *)

\* hrrn_enqueue: on_arrival, and on_ready, which the policy leaves out
Enqueue(p) ==
    LET g == GroupFor(Expected(p))
        q == queues[g]
        since == [readySince EXCEPT ![p] = now]
        after == Max({0} \cup {i \in DOMAIN q : ~QueuedBefore(p, q[i], since)}) IN
    /\ readySince' = since /\ table' = WithGroup(Expected(p))
    /\ active' = IF q = <<>> THEN <<g>> \o active ELSE active
    /\ queues' = [queues EXCEPT ![g] = InsertAt(q, after + 1, p)]

Arrive(p) == Admit(p) /\ Enqueue(p)
BecomeReady(p) == WakeUp(p) /\ Enqueue(p)
SliceCompletes(c) == Complete(c) /\ UNCHANGED hrrnVars
SliceBlocks(c) == Block(c) /\ UNCHANGED hrrnVars

\* the best of the heads of the non-empty groups, in the order of the list
BestGroup ==
    FoldLeft(LAMBDA b, g : IF Better(Head(queues[g]), Head(queues[b])) THEN g ELSE b,
             Head(active), Tail(active))

NextSlice ==
    /\ active # <<>>
    /\ LET g == BestGroup
           p == Head(queues[g])
           empty == Tail(queues[g]) = <<>> IN
        /\ Pick(Slice(p, remaining[p], NoDeadline))
        /\ queues' = [queues EXCEPT ![g] = Tail(@)]
        /\ active' = IF empty THEN SelectSeq(active, LAMBDA h : h # g) ELSE active
        /\ table' = IF empty THEN Released(g) ELSE table
        /\ UNCHANGED readySince
StopPicking == PicksDone /\ (WantsPick => active = <<>>) /\ UNCHANGED hrrnVars

Next ==
    \/ \E p \in Procs : Arrive(p) \/ BecomeReady(p)
    \/ \E c \in Cores : SliceCompletes(c) \/ SliceBlocks(c)
    \/ NextSlice \/ StopPicking
    \/ EngineStep /\ UNCHANGED hrrnVars

-----------------------------------------------------------------------------

Ready == UNION {ToSet(queues[g]) : g \in Groups}

\* how long p has waited for its current burst
Waited(p) == now - (IF phase[p] = 1 THEN w.arrival[p] ELSE wake[p])
HigherRatio(p, q) ==
    \/ Waited(p) * Expected(q) > Waited(q) * Expected(p)
    \/ Waited(p) * Expected(q) = Waited(q) * Expected(p) /\ EarlierArrival(p, q)

(* A process chosen to run has the highest response ratio of ALL ready     *)
(* processes, ties to the earlier (arrival, pid), though only the heads of *)
(* the groups are compared (hrrn.c:1-19).                                  *)
HighestRatioRuns ==
    /\ \A p \in Picked, q \in Ready : HigherRatio(p, q)
    /\ \A i, j \in DOMAIN picks : i < j => HigherRatio(picks[i].proc, picks[j].proc)

(* The table holds exactly the lengths of ready processes, each once, and  *)
(* probing from a length's own slot reaches its group, whatever was        *)
(* removed from the cluster around it.  No id is lost: those that are not  *)
(* in the table are free (hrrn.c:14-18, 151-181).                          *)
GroupsReachable ==
    /\ ToSet(active) = {g \in Groups : queues[g] # <<>>}
    /\ \A g \in ToSet(active) :
        /\ table.slots[SlotFor(table.key[g])] = g /\ table.slots[table.slotOf[g]] = g
        /\ \A p \in ToSet(queues[g]) : table.key[g] = Expected(p)
    /\ Cardinality({i \in 0..table.mask : table.slots[i] # 0}) = Len(active)
    /\ ToSet(table.free) = Groups \ ToSet(active)
    /\ Len(table.free) + Len(active) = N
=============================================================================
