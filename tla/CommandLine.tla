----------------------------- MODULE CommandLine -----------------------------
(***************************************************************************)
(* The program of src/src/cli/main.c: options, then the workload, then one *)
(* simulation per selected policy, then gap, regret and summaries, then    *)
(* the files and standard output, then the exit status.  The simulations   *)
(* are those of Engine, known here by the status they return; an option's  *)
(* value is given by what its text means, Bad if it means nothing.         *)
(***************************************************************************)
EXTENDS WorkloadInput

CONSTANTS
    Invocations,        \* command lines, each with what there is to read
    MaxLevels,          \* SCHED_MLFQ_MAX_LEVELS
    MaxCores,           \* SCHED_MAX_CORES
    SimFails,           \* the statuses sim_run may fail with
    MayFailIO,          \* whether files and standard output may fail
    None                \* NULL

ASSUME CommandLineAssumption ==
    /\ MaxLevels \in 3..MaxInt /\ MaxCores \in 1..MaxInt /\ MaxInt >= 24
    /\ SimFails \subseteq {"input", "usage", "nomem"} /\ MayFailIO \in BOOLEAN

VARIABLES
    argv, argAt,        \* the arguments, and how many are parsed
    options,            \* Options
    stage, status,      \* where main is, and st
    simAt,              \* loop counter of run: over the policies, then over the results
    results,            \* results[0..count) with items[]
    live,               \* the simulations whose memory is not freed
    files,              \* what the files hold that the program opened
    stdout              \* what standard output got, and its error flag

vars == <<source, inputVars, argv, argAt, options, stage, status, simAt, results, live,
          files, stdout>>

-----------------------------------------------------------------------------
(* The registry and the default parameters; alpha and tau0 in halves *)

Registry == <<"fcfs", "sjf", "srtf", "rr", "prio", "prio-p", "hrrn", "mlfq", "lottery",
              "stride", "cfs", "opt-np">>
Policies == Range(Registry)
Offline == {"opt-np"}
UsesEstimates == {"sjf", "srtf", "hrrn"}
Classic == {"fcfs", "sjf", "srtf", "rr"}

DefaultQuanta == [l \in 1..MaxLevels |-> 2^l]
DefaultSettings ==
    [quantum |-> 2, aging |-> 0, levels |-> 3, boost |-> 0, seed |-> 1, latency |-> 24,
     minGran |-> 3, cores |-> 1, csCost |-> 0, alpha |-> 1, tau0 |-> 10,
     predict |-> "oracle", format |-> "text", metrics |-> "basic", input |-> None,
     summary |-> None, timing |-> FALSE, gap |-> FALSE, gantt |-> TRUE, perTick |-> FALSE,
     help |-> FALSE]
DefaultOptions ==
    [selected |-> Classic, settings |-> DefaultSettings, quanta |-> DefaultQuanta,
     allot |-> DefaultQuanta, nQuanta |-> 0, nAllot |-> 0, levelsGiven |-> FALSE,
     csvMode |-> "default", csvPath |-> "schedule_metrics.csv"]

-----------------------------------------------------------------------------
(* parse_option *)

Positive == {"quantum", "latency", "minGran", "tau0"}
NonNegative == {"aging", "boost", "seed", "csCost"}
Switch == [timing |-> TRUE, gap |-> TRUE, perTick |-> TRUE, help |-> TRUE, gantt |-> FALSE]
Paths == {"input", "summary", "csv"}
Words == [predict |-> {"oracle", "ewma"}, format |-> {"text", "csv", "json", "none"},
          metrics |-> {"basic", "full"}]

\* parse_list
ListAccepted(v) == v # Bad /\ Len(v) \in 1..MaxLevels /\ \A l \in DOMAIN v : v[l] > 0
\* what parse_list leaves of the array: it overwrites the first entries
Overwritten(old, v) == v \o SubSeq(old, Len(v) + 1, MaxLevels)

\* the policies a name of --algo stands for: parse_algos
Named(name) ==
    CASE name = "all" -> Policies \ Offline [] name = "classic" -> Classic
      [] OTHER -> {name} \cap Policies

ArgAccepted(a) ==
    CASE a.flag \in Positive -> a.v \in 1..MaxInt
      [] a.flag \in NonNegative -> a.v \in 0..MaxInt
      [] a.flag = "levels" -> a.v \in 1..MaxLevels
      [] a.flag = "cores" -> a.v \in 1..MaxCores
      [] a.flag = "alpha" -> a.v \in 0..2
      [] a.flag \in DOMAIN Words -> a.v \in Words[a.flag]
      [] a.flag \in Paths -> a.v # ""
      [] a.flag \in {"quanta", "allot"} -> ListAccepted(a.v)
      [] a.flag = "algo" -> \A i \in DOMAIN a.v : Named(a.v[i]) # {}
      [] OTHER -> a.flag \in DOMAIN Switch \cup {"noCsv"}


Parsed(o, a) ==
    CASE a.flag = "algo" -> [o EXCEPT !.selected = UNION {Named(n) : n \in Range(a.v)}]
      [] a.flag = "quanta" ->
            [o EXCEPT !.quanta = Overwritten(@, a.v), !.nQuanta = Len(a.v)]
      [] a.flag = "allot" -> [o EXCEPT !.allot = Overwritten(@, a.v), !.nAllot = Len(a.v)]
      [] a.flag = "levels" -> [o EXCEPT !.settings["levels"] = a.v, !.levelsGiven = TRUE]
      [] a.flag = "csv" -> [o EXCEPT !.csvMode = "explicit", !.csvPath = a.v]
      [] a.flag = "noCsv" -> [o EXCEPT !.csvMode = "off"]
      [] a.flag \in DOMAIN Switch -> [o EXCEPT !.settings[a.flag] = Switch[a.flag]]
      [] OTHER -> [o EXCEPT !.settings[a.flag] = a.v]

\* finish_mlfq
Levels(o) == IF o.nQuanta > 0 THEN o.nQuanta ELSE o.settings.levels
MlfqAccepted(o) ==
    /\ o.nQuanta > 0 /\ o.levelsGiven => o.nQuanta = o.settings.levels
    /\ o.nAllot > 0 => o.nAllot = Levels(o)
\* mutant: the allotments keep their defaults
AllotmentsKept(o) == o.allot
Allotments(o) == IF o.nAllot > 0 THEN o.allot ELSE o.quanta
FinishMlfq(o) == [o EXCEPT !.settings["levels"] = Levels(o), !.allot = Allotments(o)]

-----------------------------------------------------------------------------

Init ==
    /\ \E i \in Invocations : argv = i.argv /\ source = i.source
    /\ InputInit
    /\ argAt = 0 /\ options = DefaultOptions /\ stage = "args" /\ status = "ok"
    /\ simAt = 0 /\ results = <<>> /\ live = {} /\ files = <<>>
    /\ stdout = [prompts |-> 0, report |-> None, broken |-> FALSE]

runVars == <<simAt, results, live, files>>

\* standard output may break whenever something is written, and stays broken
Breaks == {stdout.broken} \cup {b \in {TRUE} : MayFailIO}

GoOn(next) == stage' = next /\ UNCHANGED status
GiveUp(st) == stage' = "cleanup" /\ status' = st

Parse ==
    /\ stage = "args" /\ argAt < Len(argv) /\ argAt' = argAt + 1
    /\ IF ArgAccepted(argv[argAt + 1])
       THEN /\ options' = Parsed(options, argv[argAt + 1]) /\ UNCHANGED <<stage, status>>
       ELSE /\ stage' = "exited" /\ status' = "usage" /\ UNCHANGED options
    /\ UNCHANGED <<source, inputVars, argv, runVars, stdout>>

\* finish_mlfq, and main up to run
ParseDone ==
    /\ stage = "args" /\ argAt = Len(argv)
    /\ \/ /\ ~MlfqAccepted(options) /\ stage' = "exited" /\ status' = "usage"
          /\ UNCHANGED <<options, stdout>>
       \/ /\ MlfqAccepted(options) /\ options' = FinishMlfq(options)
          /\ GoOn(IF options.settings.help THEN "exited" ELSE "load")
          /\ \E b \in Breaks : stdout' = IF options.settings.help
                THEN [stdout EXCEPT !.report = "usage", !.broken = b] ELSE stdout
    /\ UNCHANGED <<source, inputVars, argv, argAt, runVars>>

-----------------------------------------------------------------------------
(* load_workload *)

Prompting == options.settings.input = None /\ options.settings.format = "text"
Prompt ==
    IF Prompting THEN \E b \in Breaks : stdout' = [stdout EXCEPT !.prompts = @ + 1, !.broken = b]
    ELSE UNCHANGED stdout

OpenInput ==
    /\ stage = "load"
    /\ \/ /\ options.settings.input # None /\ ~source.opens /\ GiveUp("io")
          /\ UNCHANGED <<reader, stdout>>
       \/ /\ options.settings.input # None /\ source.opens /\ reader' = "csv" /\ GoOn("read")
          /\ UNCHANGED stdout
       \/ /\ options.settings.input = None /\ reader' = "count" /\ GoOn("read") /\ Prompt
    /\ UNCHANGED <<source, at, header, expected, workload, loaded, argv, argAt, options, runVars>>

Read ==
    /\ stage = "read" /\ ReadStep
    /\ IF reader = "count" /\ reader' = "triples" THEN Prompt ELSE UNCHANGED stdout
    /\ UNCHANGED <<argv, argAt, options, stage, status, runVars>>

ReadDone ==
    /\ stage = "read" /\ reader = "done"
    /\ IF loaded = "ok" THEN GoOn("simulate") ELSE GiveUp(loaded)
    /\ UNCHANGED <<source, inputVars, argv, argAt, options, runVars, stdout>>

-----------------------------------------------------------------------------
(* run *)

\* the next policy, or result, the loop has work for
NextOf(S) == Min({i \in S : i > simAt})
Chosen == {i \in DOMAIN Registry : Registry[i] \in options.selected}
Estimating == {i \in DOMAIN results : results[i].policy \in UsesEstimates}
Left(S) == \E i \in S : i > simAt

unread == <<source, inputVars, argv, argAt, options>>

\* sim_run frees what it allocated when it fails
Simulate ==
    /\ stage = "simulate" /\ Left(Chosen) /\ simAt' = NextOf(Chosen)
    /\ \/ /\ results' = Append(results, [policy |-> Registry[simAt'], gap |-> "none",
                                         regret |-> "none", summary |-> "unset"])
          /\ live' = live \cup {Registry[simAt']} /\ UNCHANGED <<stage, status>>
       \/ /\ \E st \in SimFails : GiveUp(st)
          /\ UNCHANGED <<results, live>>
    /\ UNCHANGED <<unread, files, stdout>>

SimulateDone ==
    /\ stage = "simulate" /\ ~Left(Chosen) /\ simAt' = 0
    /\ GoOn(IF options.settings.gap THEN "gap" ELSE "regret")
    /\ UNCHANGED <<unread, results, live, files, stdout>>

\* opt-np runs once more, whether or not it is selected
RunOptimum ==
    /\ stage = "gap" /\ "best" \notin live
    /\ \/ live' = live \cup {"best"} /\ UNCHANGED <<stage, status>>
       \/ (\E st \in SimFails : GiveUp(st)) /\ UNCHANGED live
    /\ UNCHANGED <<unread, simAt, results, files, stdout>>
CompareToOptimum ==
    /\ stage = "gap" /\ "best" \in live /\ live' = live \ {"best"} /\ GoOn("regret")
    /\ results' = [i \in DOMAIN results |-> [results[i] EXCEPT !.gap = "known"]]
    /\ UNCHANGED <<unread, simAt, files, stdout>>

Regrets == IF options.settings.predict = "ewma" THEN Estimating ELSE {}

\* regret: the same policy with the oracle
RunBase ==
    /\ stage = "regret" /\ "base" \notin live /\ Left(Regrets)
    /\ results' = [results EXCEPT ![NextOf(Regrets)].regret = "unset"]
    /\ \/ live' = live \cup {"base"} /\ UNCHANGED <<stage, status>>
       \/ (\E st \in SimFails : GiveUp(st)) /\ UNCHANGED live
    /\ UNCHANGED <<unread, simAt, files, stdout>>
CompareToBase ==
    /\ stage = "regret" /\ "base" \in live /\ live' = live \ {"base"}
    /\ simAt' = NextOf(Regrets)
    /\ results' = [results EXCEPT ![simAt'].regret = "known"]
    /\ UNCHANGED <<unread, stage, status, files, stdout>>
RegretDone ==
    /\ stage = "regret" /\ "base" \notin live /\ ~Left(Regrets)
    /\ simAt' = 0 /\ GoOn("summaries")
    /\ UNCHANGED <<unread, results, live, files, stdout>>

Summarise ==
    /\ stage = "summaries" /\ Left(DOMAIN results) /\ simAt' = NextOf(DOMAIN results)
    /\ \/ results' = [results EXCEPT ![simAt'].summary = "known"] /\ UNCHANGED <<stage, status>>
       \/ MayRunOutOfMemory /\ GiveUp("nomem") /\ UNCHANGED results
    /\ UNCHANGED <<unread, live, files, stdout>>
SummariesDone ==
    /\ stage = "summaries" /\ ~Left(DOMAIN results) /\ GoOn("csvFile")
    /\ UNCHANGED <<unread, runVars, stdout>>

\* mutant: a default file is written in every format
CsvFileWantedAlways(o) == o.csvMode # "off"
CsvFileWanted(o) ==
    o.csvMode = "explicit" \/ (o.csvMode = "default" /\ o.settings.format = "text")

\* write_file: it cannot be opened, is cut short, or is written
Write(path, kind, next) ==
    \/ MayFailIO /\ GiveUp("io") /\ UNCHANGED files
    \/ MayFailIO /\ GiveUp("io") /\ files' = (path :> [kind |-> "torn", items |-> <<>>]) @@ files
    \/ GoOn(next) /\ files' = (path :> [kind |-> kind, items |-> results]) @@ files

WriteCsvFile ==
    /\ stage = "csvFile"
    /\ IF CsvFileWanted(options) THEN Write(options.csvPath, "processes", "summaryFile")
       ELSE GoOn("summaryFile") /\ UNCHANGED files
    /\ UNCHANGED <<unread, simAt, results, live, stdout>>

WriteSummaryFile ==
    /\ stage = "summaryFile"
    /\ IF options.settings.summary # None
       THEN Write(options.settings.summary, "summary", "stdout")
       ELSE GoOn("stdout") /\ UNCHANGED files
    /\ UNCHANGED <<unread, simAt, results, live, stdout>>

\* write_stdout: an error of any write since the first prompt counts
WriteStdout ==
    /\ stage = "stdout" /\ stage' = "cleanup"
    /\ IF options.settings.format = "none" THEN UNCHANGED stdout
       ELSE \E b \in Breaks :
            stdout' = [stdout EXCEPT !.broken = b, !.report =
                [format |-> options.settings.format, items |-> results,
                 written |-> IF options.settings.format = "text" /\ CsvFileWanted(options)
                             THEN options.csvPath ELSE None]]
    /\ status' = IF stdout'.broken THEN "io" ELSE "ok"
    /\ UNCHANGED <<unread, runVars>>

\* sim_result_free and workload_free
Cleanup ==
    /\ stage = "cleanup" /\ stage' = "exited"
    /\ live' = live \ {results[i].policy : i \in DOMAIN results}
    /\ workload' = workload_init
    /\ UNCHANGED <<source, reader, at, header, expected, loaded, argv, argAt, options, status,
                   simAt, results, files, stdout>>

Exited == stage = "exited" /\ UNCHANGED vars

Next ==
    \/ Parse \/ ParseDone \/ OpenInput \/ Read \/ ReadDone
    \/ Simulate \/ SimulateDone \/ RunOptimum \/ CompareToOptimum
    \/ RunBase \/ CompareToBase \/ RegretDone \/ Summarise \/ SummariesDone
    \/ WriteCsvFile \/ WriteSummaryFile \/ WriteStdout \/ Cleanup \/ Exited

Spec == Init /\ [][Next]_vars
=============================================================================
