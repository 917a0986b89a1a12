------------------------------ MODULE Reports -------------------------------
(***************************************************************************)
(* What src/src/io/output.c writes of one finished run: the Gantt chart    *)
(* and the per-tick timeline of the text format, the rows of the CSV       *)
(* format, and the "gantt" and "processes" lists of the JSON format.       *)
(* Wording and layout are left out; what stays is which entries appear, in *)
(* which order, and the separators that some readers cannot do without.    *)
(***************************************************************************)
EXTENDS Metrics

Concat(lists) == FoldSeq(\o, <<>>, lists)

\* write_gantt: the cells of core c, and whether a bar follows each of them
GanttRow(c) ==
    LET t == log.timelines[c] IN
    [i \in DOMAIN t |-> [cell |-> t[i], bar |-> i < Len(t)]]

\* write_per_tick: one line for every tick of every segment of core c
TickLines(g) == [k \in 1..(g.end - g.start) |-> [tick |-> g.start + k - 1, proc |-> g.proc,
                                                 kind |-> g.kind]]
PerTick(c) == Concat([i \in DOMAIN log.timelines[c] |-> TickLines(log.timelines[c][i])])

\* write_csv_rows, and the members of "processes": one for every process
CsvRow(p) ==
    [pid |-> p, arrival |-> w.arrival[p], burst |-> TotalCpu(p), io |-> TotalIo(p),
     start |-> outcome[p].start, completion |-> outcome[p].completion,
     response |-> Response(p), waiting |-> Waiting(p), turnaround |-> Turnaround(p)]

\* json_result: "gantt" lists the segments of all cores; no comma after the last
\* mutant: no comma after the last segment of a core
IsLastOfCore(c, i) == i = Len(log.timelines[c])
IsLast(c, i) == c = NumCores /\ i = Len(log.timelines[c])
JsonEntry(c, i) ==
    LET g == log.timelines[c][i] IN
    [start |-> g.start, end |-> g.end, pid |-> g.proc, type |-> g.kind, core |-> c,
     comma |-> ~IsLast(c, i)]
JsonGantt ==
    Concat([c \in Cores |-> [i \in DOMAIN log.timelines[c] |-> JsonEntry(c, i)]])

-----------------------------------------------------------------------------

\* a reader of the JSON document, and one of the per-tick timelines: the
\* ticks that p runs, with the core
RunsInJson(json, p) ==
    UNION {{<<e.core, t>> : t \in e.start .. (e.end - 1)} :
           e \in {x \in ToSet(json) : x.type = "run" /\ x.pid = p}}
RunsInPerTick(p) ==
    UNION {{<<c, l.tick>> : l \in {x \in ToSet(PerTick(c)) : x.kind = "run" /\ x.proc = p}} :
           c \in Cores}

(* Whatever the timelines of the cores look like, the three formats can be *)
(* read back and tell the same story: "gantt" is a well-formed JSON list   *)
(* (a comma after every entry but the last, which needs that the last      *)
(* core's timeline is never empty), the per-tick timeline of every core    *)
(* has one line for each tick from the first arrival to the makespan, and  *)
(* the burst, waiting time, start and completion in a row of the CSV are   *)
(* what the ticks of both show (output.c:30-81, 153-166, 298-314).         *)
ReportsWellFormed ==
    Finished =>
        \A json \in {JsonGantt} :
        /\ json # <<>> /\ \A i \in DOMAIN json : json[i].comma <=> i < Len(json)
        /\ \A c \in Cores : \A lines \in {PerTick(c)} :
            /\ GanttRow(c) # <<>>
            /\ Len(lines) = Span
            /\ \A k \in DOMAIN lines : lines[k].tick = Makespan - Span + k - 1
        /\ \A p \in Procs : \A row \in {CsvRow(p)}, runs \in {RunsInPerTick(p)} :
            /\ RunsInJson(json, p) = runs
            /\ row.start = Min({r[2] : r \in runs}) /\ row.completion = Max({r[2] : r \in runs}) + 1
            /\ row.burst = Cardinality(runs)
            /\ row.waiting + row.burst + row.io = row.completion - row.arrival
=============================================================================
