# A verification project for the CPU scheduling simulator

TLA+ modules of the simulator in `src/` (the C program `sched`), the TLC
instances that check them, and proofs checked by TLAPS. Paths such as
`engine.c:248` are relative to `src/src/<directory>/`; `PROJECT.json` maps each
definition to the lines it models.

## 1. What the program is

`sched` reads a workload, and for each policy named on the command line runs a
discrete-event simulation of `N` cores and prints timelines and metrics. A run
of `sim_run` is a deterministic, sequential computation. What makes it hard is
not threads but simulated concurrency: several cores, arrivals, I/O
completions, context switches and deadlines fall on the same instant, and the
order in which the engine reports them to the policy decides every schedule.

### Components

| Component | State | Operations | Correct when |
|---|---|---|---|
| engine (`engine.c`) | clock, cores, blocked heap, remaining/phase/prediction per process, timelines, failure flag | `admit_arrivals`, `wake_blocked`, `end_run`, `begin_run`, `dispatch`, `next_event`, final closing | each process is in one place; it is served exactly its bursts; timelines are contiguous; time advances; no overflow within the accepted options |
| policy interface (`policy.h`) | the ready set, owned by the policy | `on_arrival`, `on_ready`, `on_preempt`, `on_block`, `on_complete`, `next_slice` | the policy returns exactly what it was given, with slices that have work and a deadline ahead |
| rr, fcfs (`rr.c`, `fcfs.c`) | a ring buffer | the hooks | turns follow the order of admission; nobody is bypassed by more than a quantum |
| sjf, srtf (`sjf.c`, `srtf.c`) | a heap by expected (remaining) time | the hooks | keys do not change in the heap; the best N run; optimal in the classical setting |
| prio, prio-p (`priority.c`) | a treap by residue of the waiting time | the hooks, aging deadlines | order by residues equals order by `priority - floor(W/K)` at every tick |
| mlfq (`mlfq.c`) | linked queues per level, lazily reset jobs, epoch | the hooks, boosts | the level depends on the CPU time since the last boost only |
| lottery (`lottery.c`) | Fenwick tree of tickets, generator | the hooks, `draw_below` | every draw is exactly fair |
| stride (`stride.c`) | heap by pass, virtual time | the hooks, refusal of long workloads | shares in proportion to tickets, no overflow |
| cfs (`cfs.c`) | heap by vruntime, `min_vruntime`, runnable weight | the hooks, refusal | weighted shares, exact runnable weight, no overflow |
| hrrn (`hrrn.c`) | groups by burst length in a linear-probing hash table | the hooks | highest response ratio runs; every key stays reachable |
| opt-np (`optnp.c`) | a precomputed order | branch and bound, intentional idling | the order found is optimal |
| registry (`registry.c`) | constant table | lookup by name | - |
| heap, queue (`heap.c`, `queue.h`) | arrays | push, pop, sifting | pop returns the least / the oldest, however the array was shifted or wrapped |
| workload (`workload.c`) | arrays of processes and one pool of phases | push, grow, validate, horizon | phases of a process stay its own; invalid workloads are refused |
| input (`input.c`) | header columns, position in the file | the CSV reader, the interactive reader | a workload is accepted exactly when the text describes one |
| metrics (`metrics.c`) | results | times, distributions, indices | the summary follows from the schedule |
| output (`output.c`) | text | Gantt charts, per-tick lines, CSV rows, JSON | nothing of the schedule is lost or repeated |
| command line (`main.c`) | options, results, files | parsing, reconciling the MLFQ lists, `run` | the last option of a kind counts; the exit status tells what was written |
| web front end, reference simulator, experiments, tests | - | - | not modelled, see section 7 |

### How they interact

`sim_run` calls the policy through a table of function pointers. The policy
reads the engine's arrays through `SchedView` (clock, remaining times, burst
lengths, predictions), so the two share state: the engine overwrites
`remaining[]`, `burst_len[]` and `predicted[]` while policies keep processes in
heaps ordered by them. Within one instant the order is: arrivals, wake-ups,
slices that reached their full length, switch-ins, interruptions, dispatch.

The hard behaviours, each listed under `hazards` in `PROJECT.json`: events of
several cores at one instant; deadlines and reasons to re-decide that fall into
a context switch; lazily applied boosts and aging; failures (segment limit,
memory) in the middle of an instant; a policy that idles on purpose; the limits
of 64-bit arithmetic; trees, rings and linked lists under long sequences of
calls; a reader that fails in the middle of a file; outputs written one after
the other, any of which may fail.

Around the engine the program is a pipeline: `main.c` parses the options, loads
and validates a workload, runs one simulation per selected policy, completes the
results (optimality gap, prediction regret, summaries), writes the files and
then standard output, and exits with a status.

## 2. Modules

| Module | Models | Role |
|---|---|---|
| `Engine` | `engine.c`, in full | variables of `sim_run`, one action per loop iteration; no ready set; how the timelines are read |
| `AnyPolicy` | `policy.h` | engine composed with the most liberal policy the interface allows: the abstract specification of every policy; type invariant and engine invariants |
| `Schedules` | the result in `engine.h` | what a finished schedule must satisfy, judged without the engine's state |
| `RoundRobin`, `Fcfs`, `ShortestFirst` (sjf and srtf), `Priority` (prio and prio-p), `Mlfq`, `Lottery`, `Stride`, `Cfs`, `Hrrn` | one `policies/*.c` each | the policy's variables, and its actions conjoined with the engine's |
| `OptNp` | `policies/optnp.c` | the branch-and-bound search as recursive functions, and the run that follows the order it finds; refines `AnyPolicy` without work conservation |
| `QuantumPolicies`, `RunToCompletionPolicies`, `RedecidedPolicies`, `OptimalPolicies` | `registry.c` | a run picks one policy by name; refinement of `AnyPolicy`; the policies' properties |
| `Metrics`, `Reports` | `metrics.c`, `output.c` | the integers of a run's summary; the entries of the Gantt charts, the per-tick timeline, the CSV rows and the JSON list, read back against the schedule |
| `WaitingLines`, `LeastFirst` | what policies ask of a queue, of a heap | abstract specifications; these sequences and sets are what the policy modules use |
| `RingQueue`, `BinaryHeap`, `LinkedQueues`, `Treap` | `util/queue.h`, `util/heap.c`, the lists of `mlfq.c`, the tree of `priority.c` | the structures, with their arrays and links |
| `Containers` | - | each structure as its callers use it; the first three refine the abstract specifications |
| `WorkloadContainer`, `WorkloadInput`, `CommandLine` | `workload.c`, `input.c`, `main.c` | the program around the simulations, each extending the one before |
| `Program` | - | what the program promises over a whole command line and a whole input |
| `AnyPolicyProofs` | - | theorems about `AnyPolicy`: types, places, slices, the clock |
| `CollectionProofs` | - | lemmas about least elements, sums over sets, queues and concatenations |
| `TimelineProofs`, `ServiceProofs` | - | theorems about the timelines, overflow and the `assert`s, then about what each process is served; the second extends the first |
| `RunToCompletionProofs`, `RedecidedProofs`, `QuantumProofs` | - | the policies implement `AnyPolicy`, and theorems about single policies |
| `PriorityProofs` | - | who runs under prio-p; extends `RedecidedProofs` |
| `MC*` | - | constants and workloads for TLC |

### State and actions

`stage` is the program counter of `sim_run`:
`create -> arrivals -> wakeups -> ends -> switchins -> interrupts -> picks ->
place -> advance -> arrivals -> ... -> finish -> done`.
The C loops over processes or cores take one step per iteration, lowest index
first, exactly in the order of the code. The actions are `Create`/`Reject`
(options and allocation), `Admit`, `WakeUp`, `Complete`/`Block`/`Preempt` (the
three outcomes of `end_run`), `SwitchIn`, `Pick`/`Place` (dispatch with its
affinity pass), `Advance` (`next_event`), `CloseTimeline`, `Return`. `log`
holds the timelines, the number of segments and the error flag; `append` can
merge, extend, hit the segment limit or fail to allocate.

A policy module contributes the hook's half of the step: `Arrive(p) == Admit(p)
/\ queue' = ...`. So a hook runs in the same step as the engine's part, as in
the code, and everything the engine does around it is shared by all policies.

### Abstractions

- Process indices are pids. In the engine and the policies the blocked heap,
  the heaps and the treap are sets whose least element is popped; ring buffers
  and linked queues are sequences. `Containers` justifies this for the real
  structures.
- In `Treap` the heap priorities `mix(0), mix(1), ...` are a fixed permutation,
  in `BinaryHeap` the keys that `less` compares are small integers that a
  process gets anew at each push.
- In `CommandLine` a simulation is known by the status it returns, any of those
  `sim_run` can return; the value of an option, a field or a token is given by
  what its text means (`Bad` if nothing), so the number parser and the
  splitting into fields are not modelled character by character. Opening,
  writing and closing files and standard output may fail at any of their calls.
- `Metrics` keeps what the code computes in integers (and twice the medians);
  means, slowdowns, fairness indices and prediction errors are doubles and left
  out.
- In `Hrrn` the hash function is the constant `Home`: the properties must hold
  however the keys spread, and the instance uses a spread whose clusters go
  round the end of the table. `cmp_fraction` is modelled as the code computes
  it; the ratios of predicted lengths (doubles) are compared exactly.
- The memo of `opt-np` that stops growing when it is full or memory runs out is
  a memo of at most `MaxNodes` nodes, six in the instance.
- Predictions are integers in units of the model, rounded down, where the code
  uses doubles; ranks by predictions can differ in ties, no property depends
  on a particular value.
- `INT64_MAX` is `MaxTime`, `2^64` is `Word`, `STRIDE1`, the vruntime units and
  the nice weights are scaled down, keeping their relations.
- The generator of `lottery` may yield any output: the draws are
  nondeterministic.
- Allocation failures are a nondeterministic branch (`MayRunOutOfMemory`).

## 3. What the runs check

| Run | Instance | What it shows |
|---|---|---|
| `any_policy` | 3 processes with I/O, 2 cores, switch cost 2, slices of 1 or 2, deadlines | every behaviour any re-deciding policy could cause: one place, the `assert`s of `engine.c`, slice lengths, contiguous timelines, exact service, no idling, switch accounting, advancing time, termination; and of every finished run the summary and the reports agree with its timelines |
| `limits` | 1 core, horizon and segment limit with nothing to spare, allocation failures | the segment limit is never passed, `check_options` makes overflow impossible |
| `quantum` | rr, lottery, stride, cfs; 2 cores | they implement `AnyPolicy`; turns, fair draws, bounded virtual times, exact runnable weight |
| `shares` | the same on 1 core, switch cost 1 | stride and cfs give ready processes CPU time in proportion to their tickets and weights (`FairShares`) |
| `run_to_completion` | fcfs, sjf, prio (aging), hrrn; 4 processes, 2 cores, switch cost 2 | they implement `AnyPolicy` without `on_preempt`; order of turns; hrrn's choice among the heads of groups is the best of all ready processes, and its hash table loses no group |
| `edge` | a workload whose horizon is `MaxTime` | a violation, see section 6 |
| `redecided` | srtf (EWMA), mlfq (3 levels, boosts), prio-p (aging); 4 processes, 2 cores | they implement `AnyPolicy`; the best N run, of prio-p at every tick up to the next event; keys constant in the heap; MLFQ's rules |
| `optimal` | srtf, sjf; 1 core, all workloads of 3 CPU bursts up to 4 ticks; and opt-np; 4 jobs, arrivals 0, 1, 3, bursts 1, 2, 4, and some with I/O, which are refused | the total completion time of srtf and sjf equals the minimum by exhaustive search; opt-np implements the `AnyPolicy` that is not work-conserving, and no order of the jobs has a smaller total turnaround than its own |
| `containers` | ring of 5 processes, heap of 6 with 2 keys, linked queues of 4 on 3 levels, treap of 4 with 4 pairs of keys; every sequence of calls | the three structures implement the abstract specifications; the treap answers every query as the set of its processes determines |
| `program` | 20105 command lines and inputs: CSV files up to 5 lines after a header, interactive input of up to 2 triples, up to 3 options; failing simulations, allocations, reads, files and standard output | a workload is accepted exactly when the input describes one; the last option of a kind counts; the exit status, the files and standard output agree, and every simulation is freed |
| `mlfq_boost`, `prio_extreme` | violations | see section 6 |

Bounds. Three (or four) processes are the fewest for which somebody waits while
two cores are busy and a third event arrives; arrivals are chosen so that
instants coincide with slice ends, wake-ups and switch-ins. Bursts exceed the
quanta, allotments and aging periods used, so several rounds, demotions and
boosts happen. `MaxTime` and `MaxSegments` are larger than any run reaches,
except in `limits`, where they are exact. `stride` and `cfs` get workloads on
both sides of their refusal bound. `limits` has one core, the only number on which
a workload small enough for TLC could overflow if `check_options` let it; that
the limit also holds when other cores still have events at the instant at which
it is reached is shown by `SegmentsLimitedHolds` for every number of cores.

In `redecided` two of four processes wait while two run, so that somebody still
waits after a process has completed or blocked and a core was filled without
deciding again about the other: a running set that has become stale is seen.
Moreover `BestAreRunning` does not look at prio-p only when the clock stops.
It speaks of every tick before the next event, with the ready time that those
who wait will have by then, so an aging deadline that is missing or falls due
a tick late violates it, whatever happens at the instants around. Its mutant
sets the deadline a whole aging period ahead. Every mutant in `PROJECT.json` is a plausible
slip in one C function that the named property detects under the same bounds.

In `containers` five slots let the ring wrap at every offset, six items make a
heap of three levels whose sift-down meets nodes with one and two children, and
four nodes make every shape of treap that the fixed priorities allow after any
order of insertion and erasure. Those four graphs are finite and explored to the
end. In `program` the integers stop at `MaxInt` = 30, so that a horizon one above
it is among the inputs; `FirstCapacity` = 2 makes the third process and the third
phase grow the arrays; four MLFQ levels leave room for a longer list that a
shorter one replaces; three options are enough for one that is overridden by a
second and reconciled with a third.

Preconditions. `OutputsMatchStatus` says nothing of the files when `--csv` and
`--summary-csv` name the same one, which `main.c` does not refuse (see section
6). No property of the reports depends on the wording or layout of the output.

Fairness. `sim_run` is one thread that never blocks: it keeps taking steps, so
weak fairness on `Next` is what the code gives. No fairness is assumed of the
policy's choices or of the generator.

## 4. What is proved

Everything below holds for every number of processes and cores, every workload,
switch cost and limit, and every setting of the policies, under the named
assumptions of the modules: `EngineAssumption` and `WorkloadAssumption` (what
`check_options` and `workload_validate` establish), `PolicyAssumption` (the
contract of the interface) and, for the policies, `RunToCompletionAssumption`,
`RedecidedAssumption` and `QuantumAssumption` (the ranges that `main.c` and the
`create` functions enforce for quanta, levels, tickets, weights and periods).
TLC evaluates all of them in the runs.

### The engine under any policy

| Theorem | Says |
|---|---|
| `TypeCorrect` | every variable stays in its range, all times in `0..MaxTime` |
| `OnePlaceHolds` | a process is in exactly one place |
| `RanWithinSliceHolds` | a slice ran at least one tick, at most what was asked for and at most what the burst had left |
| `TimeAdvancesHolds` | time strictly increases between instants |
| `ContextsDistinctHolds` | no two cores remember the same last process |
| `TimelinesContiguousHolds` | a timeline has no gaps, no overlaps, no empty segments and no missed merges, begins at the first arrival and ends at the makespan |
| `SegmentsLimitedHolds` | the segment limit is never passed; the counter is the number of segments |
| `OverflowUnreachableHolds` | what `check_options` accepts cannot overflow the clock |
| `AssertionsHoldBelowLimit` | the `assert`s of `engine.c` hold whenever the horizon and all switch costs stay below `INT64_MAX` |
| `ServedExactlyHolds` | a finished schedule gives each process exactly its bursts, on one core at a time, never before it arrives or during its I/O |
| `NoIdleWhileReadyHolds` | under a work-conserving policy no core is idle in a tick in which a process waits |
| `SwitchesAccountedHolds` | the switches reported are the changes of process in the timelines, `csTime` is their cost, and each `cs` segment is followed by the change it pays for |

*Types and places.* `TypeOK` is not inductive: that `remaining` stays
non-negative needs that a slice never runs longer than the burst, which needs
that no instant at which it should have ended was missed. The inductive
invariant is

    Inv == TypeOK /\ OnePlace /\ (stage # "done" => HasWork /\ SlicesFit /\ NothingMissed)

`HasWork`: unfinished processes have CPU work left, and chosen slices have a
length and a deadline ahead. `SlicesFit`: a running slice ends at `busyUntil <=
runEnd`, and `runEnd` exceeds its start by no more than the request and the rest
of the burst. `NothingMissed`: no arrival, wake-up or end of a slice lies before
`now`, and which of them may still lie *at* `now` depends on `stage`; this is
what makes `Advance` strictly increase the time. The proof has one lemma per
action. `ContextsDistinct` has its own strengthening, `ContextInv`: a busy
core's context is its process.

*Timelines.* Between two calls of `append` a timeline does not reach the clock:
it ends where the core's current idle time, switch or slice began. `Frontier(c)`
is that instant, and `TimelineInv` says that the timeline of each core is well
made and reaches its frontier, that the idle time, the switch and the run that
are still to be appended lie between the frontier and the clock (`Spans`), and
that a failed log is not looked at again. That no segment should have been
merged with the one before needs the labels of what is still to come.

*Overflow.* `check_options` leaves room for one switch cost per *segment*; the
clock pays one per *switch*. `SwitchBudget` shows that each switch that costs
time has its segment, or is about to append it, so switches never exceed
segments (when the cost is 0 they may, and cost nothing). `ClockInv` then
bounds the clock: `Left[p]` is the CPU and I/O time that process `p` still
needs, less what has already passed, and

    Later(now, LastArrival) + SumFunction(Left) <= HorizonOf(w) + CsCost * switches

is kept by every step: either the clock stands still, or some process is
working, or a switch is under way that was counted, or it waits for an arrival.

*Assertions.* `RunToEnd`: without `on_preempt`, a slice asked for is the whole
burst, without a deadline and never to be re-decided, so it ends with the burst
(the first `assert`). `DispatchInv`: while processes are unfinished, some core
is busy or an arrival or a wake-up is due (the last one). Without the room that
the theorem asks for it is false: section 6.

*Service.* `ServedExactly` judges a finished schedule by its timelines alone, so
its invariant has to say what the timelines of an unfinished one mean. `Resumes(p)`
is the instant from which `p` continues (the end of its I/O, the start of its
running slice, the end of its switch-in, its completion, or now), and
`Stands(p, ...)` in `ServiceInv` says of the log: the ticks of `p` lie between
its arrival and that instant and are on one core at a time; as many are run
ticks as the bursts up to the current one need, less `remaining`; and for each
earlier burst some run tick ends it (so many run ticks come up to it, and no
tick of `p` lies in the I/O after it). `Stands` is a statement about a log, not
about a state, so the lemmas about `append` are independent of the engine's
actions: `BeginStands`, `RunStands`, `SwitchStands`, `BlockStands`,
`CompleteStands` and `LaterStands` are the six things that happen to a process.
In a finished schedule `ServedOne` turns them into the words of `ServedExactly`: the
tick that ends burst `k` is the only one of its rank, which is what
`BurstEnd` picks.

*Idle cores.* `IdleInv` extends this account to the idle ticks. Only `Advance`
lets a core stand idle for a tick, and `Offered` says that dispatch before it
left no core free or the ready set empty (it needs that the policy declines only
when it has nothing: `WorkConserving`). So in each tick that a core has been
idle, whether the segment is in the log yet or not, every process had not
arrived, had completed, was on a core or in its I/O. That this stays so when the
tick is read from the finished timelines needs to know what is still to be
logged of a switch under way (`CsLogged`) and where the I/O of a blocked process
began (`IoKnown`).

*Switches.* `SwitchInv`: the switches counted are the changes of process in the
log and those under way on busy cores, counted together as pairs of a core and a
position; the context of a core is the process of its last run segment; and a
`cs` segment is followed by its change, or is the last of its core and the
change is under way. It holds as long as the log is complete, which a schedule
that succeeds shows it was.

### The policies

| Theorem | Says |
|---|---|
| `ImplementsAnyPolicy` in `RunToCompletionProofs` | fcfs, sjf and prio implement the `AnyPolicy` that has no `on_preempt` |
| `ImplementsAnyPolicy` in `RedecidedProofs` | srtf, mlfq and prio-p implement `AnyPolicy` |
| `ImplementsAnyPolicy` in `QuantumProofs` | rr, stride and cfs implement `AnyPolicy` |
| `EngineGuarantees`, in each of the three | so they have one place per process, slices within what was granted, contiguous timelines, no overflow, exact service, no idling while a process waits, and exact switch accounts |
| `InOrderOfReadinessHolds` | turns of fcfs go by the time of becoming ready, with the tie-break |
| `LowestEffectiveRunsHolds` | while no key can saturate, prio runs the process with the lowest effective priority |
| `KeysConstantHolds` | the keys in the heap of srtf stand still, although they are computed from arrays the engine writes |
| `QueuesMatchJobsHolds` | the lists of mlfq hold each ready job once, at the level of its record |
| `BestAreRunningHolds` | with free switches srtf runs the processes of least expected remaining time, and prio-p, while no key can saturate, those of lowest effective priority at every tick up to the next event |
| `HigherLevelsRunHolds` | with free switches no job of mlfq runs while one of a higher level waits |
| `RunnableWeightExactHolds` | the runnable weight of cfs is the sum over the processes that want the CPU |
| `BoundedBypassHolds` | under rr no process gets more than one quantum while another waits for its first turn |
| `VirtualTimeBoundedHolds` | no pass and no vruntime exceeds what the CPU time in the log accounts for, nor the range of its integer |

`BestAreRunningHolds` is in `PriorityProofs`; each of the three other modules
instantiates `ServiceProofs`, with all the theorems above, under the refinement
mapping: `Proofs!Inv` is `Inv` of the abstract specification, read in the variables of the policy. The refinement is proved
with the invariant `IInv == Proofs!Inv /\ ...` of both: the abstract half says,
for instance, that a process being preempted is not ready, so the concrete step
puts it into its queue once; the concrete half says that the process the policy
pops is in the ready set, which is what the abstract step needs. Once the step
is known to be one of `AnyPolicy`, `Proofs!NextInv` gives the abstract half of
`IInv'`. In each a lemma first shows that the engine's actions are the same
definitions on both sides.

- *fcfs* (`OrderInv`): the order of the queue is inductive only with what is
  still to join it: which arrivals and wake-ups of this instant come before
  which, depending on the stage.
- *mlfq* (`MlfqInv`): the queues agree with the records as they will be once the
  boosts the queues have seen are applied (`Settled`); no job has used up the
  allotment of its level; a running job has exactly the slice left that the
  engine was asked for, so the time it ran is never more than that.
- *prio, prio-p* (`PrioInv`, `PrioPInv`): the integers of the keys; the next
  aging instant is ahead of the clock, by the arithmetic of `div` and `mod`.
- *prio* (`AgedInv`): the keys of a process that is ready, or chosen and about to
  be placed, are those computed at the instant since which it waits (`KeyOf`), and
  the log shows no tick of it at or after that instant. `WaitedSince` turns the second
  half into the time it has waited, which is what the effective priority of the
  definition counts in the timelines; `QuotientOfSum` (the quotient of a sum is
  the sum of the quotients, plus one when the remainders carry) turns
  `base - (r >= limit ? 1 : 0)` into `priority - floor(W / K)`, less the same
  `floor(now / K)` for everybody, for every clock and every K. The order of the
  keys, fixed when a process joins, is therefore the order by effective priority at
  every later instant. The theorem speaks of states with `Room`: no priority
  below `-PriorityLimit`, and none that comes above `PriorityLimit` by adding
  the time so far. Every state of run `run_to_completion` has it; without it keys
  saturate, and run `prio_extreme` shows what happens then (section 6).
  `WaitingInvariant` of `ServiceProofs` says what this needs of the engine: who
  joins the ready set joins at its arrival or its wake-up, and whoever is picked
  is placed at the same instant.
- *who runs* under srtf and mlfq (`RankInv`). `FreeInv` says of every policy what
  free switches mean: no core is ever switching in, every busy core's deadline
  lies ahead, and a slice is cut before its end only when something happened that
  causes a new decision. `Facing` is the set of pairs of a running and a waiting
  process, empty while everything is about to be re-decided. `FacingStep` shows
  that a pair is either an old one or new because dispatch picked one side of it
  with the other at hand, so what the policies have to keep is that a pick is not
  worse than what is left (`SrtfRank`, `MlfqRank`) and that old pairs stay in
  order while keys of running processes shrink (srtf), levels of running jobs
  drop at the end of a slice, and boosts reset both sides (mlfq).
- *prio-p* (`AgeInv`, `PrioRank`): a process may wait several times in one burst, so
  its ready time is the clock less `Spent`, the instant at which the burst became
  ready plus the ticks of it already run. `AgeInv` says that `waited[]` is that
  ready time wherever the code uses it: when the process last joined the treap,
  when it was chosen, when its slice began; and that the keys are those of
  `0 - Spent`, which is why they need not be computed again while it waits.
  `NoGain` shows that no process of the treap gains a level before the deadline
  `prio_next_slice` computes from the largest residue, so `PrioRank` can say that
  who was chosen is better than all that wait not only now but at every instant
  before its deadline; and `FreeInv` says that no slice is found running at its
  deadline once dispatch is over, so that the deadline is one of the events `Advance`
  chooses from and every tick before the next event is a tick before it.
  `BurstsLogged` of `ServiceProofs` counts the ticks of
  the current burst in the log, and with it `WaitedRead` and `RunningRead` find in
  the timelines the ready time of a process that waits and of one that runs. The
  theorem, too, speaks of states with `Room`, as every state of run `redecided` is.
- *cfs* (`CfsInv`): the processes that want the CPU are all but those to come,
  in I/O or completed (`Competing`), and the engine's actions add to or remove
  from that set exactly when the hooks add or subtract a weight. `PartOfWhole`:
  the chosen process's part of the latency is at most the latency, since its
  weight is one of the sum.
- *rr* (`TurnInv`): while `q` waits for its first turn, whoever stands before it in
  the queue or has just been chosen has not run at all since `q` arrived, and
  everybody else has had at most a quantum since then. The point is the instant
  of the arrival itself: whoever is preempted at it joins behind `q`, because
  arrivals come first, and whoever was already running has a slice that began
  before. `SliceInv` supplies what this needs of any policy: only a process that
  has run blocks, no slice outlives its length, and the ticks in the log lie
  before the clock.
- *stride, cfs* (`StrideBound`, `CfsBound`): `TotalUsed` is the CPU time of the
  slices that have ended, `Used(p)` being what the bursts of `p` up to the current
  one need less what remains. A charge is at most `Stride1` per tick it charges
  for, and at most `Unit` divided by the weight (`DeltaBound`, with the rounding
  of the division); a process that joins takes over a virtual time that is
  already bounded, or the minimum of those that are. So every pass is at most
  `Stride1 * TotalUsed` and every vruntime, times the least weight, at most
  `Unit * TotalUsed`. `UsedAtMost` bounds `TotalUsed` by the CPU time of the
  workload, which `create` has compared with the range of the integer, and
  `UsedLogged` reads it from the timelines of a log that is complete: what is
  charged is exactly what the log shows, also after preemptions.

Induction over data is replaced by the smallest counterexample: a statement
about `SumFunctionOnSet`, a least element or a concatenation that fails for some
set fails for a smallest one (`SmallestSubset` in `CollectionProofs`), from
which one removes an element.

## 5. What is only model-checked

- The refinement of `AnyPolicy` by hrrn, whose table is searched by recursive
  probing; by lottery, whose draw descends a tree of partial sums; by opt-np,
  whose order comes from a recursive search. What these compute for every input
  needs induction over data.
- Of single policies: `FairShares`, `FairDraw`,
  `LevelMatchesService`, `HighestRatioRuns`, `GroupsReachable`, and the optimality of srtf, sjf and
  opt-np (exhaustive searches).
- Liveness (`Returns`), which is out of the prover's reach.
- The containers, the summary and the reports, and the program around the
  simulations. `Treap` and the modules that use it declare recursive operators,
  because the tree is a recursive structure, and tlapm has no SMT backend there.

## 6. Findings

- **A horizon of exactly `INT64_MAX`** (run `edge`). `workload_validate` accepts
  a workload whose latest arrival plus total burst time is `INT64_MAX`
  (`workload.c:160`; `test_workload.c:124` calls that fine), but `next_event`
  returns `INT64_MAX` for "no event": the end of the last slice is taken for
  none, and the `assert` of `engine.c:414` aborts a build with assertions.
  `AssertionsHoldBelowLimit` proves that one tick of room is enough.
- **MLFQ allotment after a boost during a switch-in** (run `mlfq_boost`).
  `mlfq.c:8-9` says that a job moves down once it has used its allotment,
  however many times it gave up the CPU. A job that is being switched in across
  a boost still has the old epoch when its first tick ends; `mlfq_preempt` and
  `mlfq_block` then skip `charge`, and that tick is not counted.
- **Saturated priorities** (run `prio_extreme`). `priority.c:3-7` says the
  lowest effective priority runs. Keys near `INT64_MAX` saturate and tie, and
  the tie-break (arrival, then pid) runs a process although another has a lower
  effective priority.
- Without a run: `--csv F --summary-csv F` writes the per-process file and then
  the summary over it (`main.c:448` opens the second with the same path) and
  exits with 0, though the help describes both files as written; and `--help` exits with 0 whatever
  became of standard output.
- Without a run: the comment at `policy.h:16` allows `ran` to be 0 for a slice
  that only switched in; `RanWithinSliceHolds` shows that it never is.

## 7. Not modelled, and the plan

Not modelled: the web front end draws the JSON of a WebAssembly build and holds
no scheduling state; the Python reference simulator, the workload generators and
the tests are independent oracles of the same demands that `Schedules` states;
the experiments are batch runs and plots. Of the modelled components, these
parts are left out: everything computed in doubles (means, slowdowns, fairness
indices, prediction errors, and the rounding of predictions), the characters of
input and output, the wall times of `--timing`, and the pseudo-random sequence
of `lottery`, which is any sequence.

Order of the work, the most important behaviour first:

1. (done) `Engine`, `AnyPolicy`, `Schedules`; the first theorems.
2. (done) the policies of the registry as refinements of `AnyPolicy`.
3. (done) the data structures as modules of their own that implement the
   abstractions the policies use.
4. (done) the workload, its readers and its validation; the summary and the
   reports; the command line.
5. (done) the theorems of section 4.
6. Not proved, and within reach: `RingQueue` implements `WaitingLines` for every
   number of processes.
