------------------------------- MODULE Program -------------------------------
(***************************************************************************)
(* What the program promises its user, stated over the whole command line  *)
(* and the whole input at once, while CommandLine and WorkloadInput go     *)
(* through them one argument, line or process at a time.                   *)
(***************************************************************************)
EXTENDS CommandLine

(* The processes that the input describes, each one a record or Bad *)

Entry(pid, arrival, priority, tickets, nice, phases) ==
    [pid |-> pid, arrival |-> arrival, priority |-> priority, tickets |-> tickets,
     nice |-> nice, phases |-> phases]

\* a row of a CSV file under a header; a column that is absent counts as empty
RowEntry(head, fields) ==
    LET names == {f.name : f \in Range(head)}
        column == [n \in ColumnNames |->
            IF n \notin names THEN <<>>
            ELSE fields[CHOOSE i \in DOMAIN head : head[i].name = n].ints]
        number(n) == column[n] # Bad /\ Len(column[n]) <= 1
        value(n, default) == IF column[n] = <<>> THEN default ELSE column[n][1]
    IN
    IF /\ Len(fields) = Len(head) /\ column["bursts"] # Bad
       /\ \A n \in ColumnNames \ {"bursts"} : number(n)
       /\ column["pid"] # <<>> /\ column["arrival"] # <<>>
    THEN Entry(column["pid"][1], column["arrival"][1], value("priority", Defaults.priority),
               value("tickets", Defaults.tickets), value("nice", Defaults.nice),
               IF column["bursts"] # <<>> THEN column["bursts"] ELSE column["burst"])
    ELSE Bad

Content == SelectSeq(source.lines, LAMBDA l : l.kind # "skip")
HeaderMakesSense(head) ==
    LET Columns(n) == {i \in DOMAIN head : head[i].name = n} IN
    /\ \A i \in DOMAIN head : head[i].name \in ColumnNames
    /\ \A n \in ColumnNames : Cardinality(Columns(n)) <= 1
    /\ Columns("pid") # {} /\ Columns("arrival") # {} /\ Columns("burst") \cup Columns("bursts") # {}
CsvEntries ==
    IF /\ Content # <<>> /\ \A i \in DOMAIN Content : Content[i].kind = "fields"
       /\ HeaderMakesSense(Content[1].fields)
    THEN [i \in 1..(Len(Content) - 1) |-> RowEntry(Content[1].fields, Content[i + 1].fields)]
    ELSE <<Bad>>

TokenEntries ==
    LET t == source.tokens IN
    IF t = <<>> \/ Bad \in Range(SubSeq(t, 1, 1)) \/ t[1] <= 0 \/ Len(t) < 3 * t[1] + 1
    THEN <<Bad>>
    ELSE [i \in 1..t[1] |->
            IF Bad \in {t[3 * i - 1], t[3 * i], t[3 * i + 1]} THEN Bad
            ELSE Entry(t[3 * i - 1], t[3 * i], Defaults.priority, Defaults.tickets,
                       Defaults.nice, <<t[3 * i + 1]>>)]

Entries == IF options.settings.input = None THEN TokenEntries ELSE CsvEntries

Valid(e) ==
    /\ e # Bad
    /\ e.pid >= 0 /\ e.arrival >= 0 /\ e.tickets \in 1..MaxTickets /\ e.nice \in MinNice..MaxNice
    /\ Len(e.phases) % 2 = 1 /\ \A k \in DOMAIN e.phases : e.phases[k] > 0

WellFormed(entries) ==
    /\ entries # <<>> /\ \A i \in DOMAIN entries : Valid(entries[i])
    /\ \A i, j \in DOMAIN entries : i # j => entries[i].pid # entries[j].pid
    /\ Max({entries[i].arrival : i \in DOMAIN entries})
         + Total([i \in DOMAIN entries |-> Total(entries[i].phases)]) <= MaxInt

Agrees(i, e) ==
    LET p == workload.items[i]
        ticks(parity) == MapThenSumSet(LAMBDA k : e.phases[k],
                                       {k \in DOMAIN e.phases : k % 2 = parity})
    IN
    /\ p.pid = e.pid /\ p.arrival = e.arrival
    /\ p.priority = e.priority /\ p.tickets = e.tickets /\ p.nice = e.nice
    /\ PhasesOf(workload, i) = e.phases /\ p.burst = ticks(1) /\ p.io = ticks(0)

(* A workload is accepted if and only if the input describes one that the  *)
(* engine can run (odd numbers of positive phases, distinct pids, a        *)
(* horizon that fits: core.h:94-98), memory and reads permitting; then     *)
(* each process is what its row says, defaults filled in, `bursts' winning *)
(* over `burst', its phases its own part of the pool (io.h:17-23).         *)
LoadExact ==
    stage = "read" /\ reader = "done" =>
        CASE loaded = "ok" ->
                /\ WellFormed(Entries) /\ Len(workload.items) = Len(Entries)
                /\ options.settings.input # None => source.end = "eof"
                /\ \A i \in DOMAIN Entries : Agrees(i, Entries[i])
          [] loaded = "io" -> source.end = "error"
          [] loaded = "nomem" -> MayRunOutOfMemory
          [] loaded = "input" -> ~WellFormed(Entries)

-----------------------------------------------------------------------------

Given(flag) == {i \in DOMAIN argv : argv[i].flag = flag}
LastOf(flag, default) == IF Given(flag) = {} THEN default ELSE argv[Max(Given(flag))].v

WantedQuanta == LastOf("quanta", DefaultQuanta)
WantedAllotments == LastOf("allot", WantedQuanta)
WantedLevels == IF Given("quanta") # {} THEN Len(WantedQuanta) ELSE LastOf("levels", 3)
LevelsAgree ==
    /\ LastOf("levels", WantedLevels) = WantedLevels
    /\ Given("allot") # {} => Len(WantedAllotments) = WantedLevels

(* The order of options never matters but for the last of each kind, which *)
(* counts; what is left of an earlier, longer list is never used: every    *)
(* MLFQ level has the slice and the allotment of the last list, or the     *)
(* slice as its allotment when none was given, and a command line is       *)
(* refused only if an argument means nothing or the lists disagree on the  *)
(* number of levels (main.c:56-58, 276-308).                               *)
OptionsMeanLast ==
    /\ stage = "load" =>
        /\ \A f \in Positive \cup NonNegative \cup DOMAIN Words
                    \cup {"cores", "alpha", "input", "summary"} :
            options.settings[f] = LastOf(f, DefaultSettings[f])
        /\ options.selected = UNION {Named(n) : n \in Range(LastOf("algo", <<"classic">>))}
        /\ options.csvPath = LastOf("csv", DefaultOptions.csvPath)
        /\ LevelsAgree /\ options.settings.levels = WantedLevels
        /\ \A l \in 1..WantedLevels :
            options.quanta[l] = WantedQuanta[l] /\ options.allot[l] = WantedAllotments[l]
    /\ stage = "exited" /\ status = "usage" /\ reader = "idle" =>
        (\E i \in DOMAIN argv : ~ArgAccepted(argv[i])) \/ ~LevelsAgree

-----------------------------------------------------------------------------

\* the last of --csv and --no-csv decides; without them the format does
WantsCsvFile ==
    LET last == Max(Given("csv") \cup Given("noCsv") \cup {0}) IN
    IF last = 0 THEN options.settings.format = "text" ELSE argv[last].flag = "csv"

\* the output reports every selected policy, in the order of the registry,
\* with every number that was asked for computed
Complete(items) ==
    /\ {items[i].policy : i \in DOMAIN items} = options.selected
    /\ \A i, j \in DOMAIN items : i < j =>
        \E k, l \in DOMAIN Registry :
            k < l /\ Registry[k] = items[i].policy /\ Registry[l] = items[j].policy
    /\ \A i \in DOMAIN items :
        /\ items[i].summary = "known"
        /\ items[i].gap = IF options.settings.gap THEN "known" ELSE "none"
        /\ items[i].regret = IF options.settings.predict = "ewma"
                                /\ items[i].policy \in UsesEstimates THEN "known" ELSE "none"

Holds(path, kind) ==
    path \in DOMAIN files /\ files[path].kind = kind /\ Complete(files[path].items)

SamePath == WantsCsvFile /\ options.csvPath = options.settings.summary
Ran == stage = "exited" /\ ~options.settings.help

(* The exit status tells what became of the output: 0 means that every     *)
(* file asked for, and no other, was written and standard output got its   *)
(* report, all of them complete; with 1, 2 or 4 neither the files nor      *)
(* standard output hold any result, only prompts, and those in text format *)
(* only.  Every simulation is freed, on every path (main.c:86-87, 398-457). *)
OutputsMatchStatus ==
    /\ stdout.prompts > 0 => options.settings.format = "text" /\ Given("input") = {}
    /\ Ran /\ status = "ok" /\ ~SamePath =>
        /\ DOMAIN files = {options.csvPath : x \in {y \in {1} : WantsCsvFile}}
                          \cup ({options.settings.summary} \ {None})
        /\ WantsCsvFile => Holds(options.csvPath, "processes")
        /\ options.settings.summary # None => Holds(options.settings.summary, "summary")
        /\ options.settings.format # "none" =>
            /\ ~stdout.broken /\ stdout.report.format = options.settings.format
            /\ Complete(stdout.report.items)
            /\ stdout.report.written # None => Holds(stdout.report.written, "processes")
    /\ Ran /\ status \in {"input", "usage", "nomem"} => files = <<>> /\ stdout.report = None
    /\ stage = "exited" => live = {} /\ workload.items = <<>>
=============================================================================
