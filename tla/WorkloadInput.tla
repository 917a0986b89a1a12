---------------------------- MODULE WorkloadInput ----------------------------
(***************************************************************************)
(* Reading a workload (src/src/io/input.c) from a CSV file, one step per   *)
(* line, or in the interactive format, one step per process, and checking  *)
(* it.  A field is given by what its text means: the column it names, and  *)
(* the integers it lists, separated by colons (none if it is empty, Bad if *)
(* it is not such a list).                                                 *)
(***************************************************************************)
EXTENDS WorkloadContainer

CONSTANTS Bad

VARIABLES
    source,     \* what is there to read: never changes
    reader,     \* where load_workload is
    at,         \* lines, or tokens, read so far
    header,     \* col_of_field: the columns named by the header
    expected,   \* n: processes announced in the interactive format
    workload,
    loaded      \* the status so far

inputVars == <<reader, at, header, expected, workload, loaded>>

ColumnNames == {"pid", "arrival", "burst", "bursts", "priority", "tickets", "nice"}
Required == {"pid", "arrival"}

InputInit ==
    /\ reader = "idle" /\ at = 0 /\ header = <<>> /\ expected = 0
    /\ workload = workload_init /\ loaded = "ok"

Fail(st) == loaded' = st /\ reader' = "done"

-----------------------------------------------------------------------------
(* read_workload_csv *)

Line == source.lines[at + 1]
AtLine == reader = "csv" /\ at < Len(source.lines)

\* parse_header
HeaderAccepted(fields) ==
    LET names == [i \in DOMAIN fields |-> fields[i].name] IN
    /\ Range(names) \subseteq ColumnNames /\ IsInjective(names)
    /\ Required \subseteq Range(names) /\ Range(names) \cap {"burst", "bursts"} # {}

\* the integers in the field of a column; none if the column is absent
IntsOf(fields, name) ==
    IF \E i \in DOMAIN header : header[i] = name
    THEN fields[CHOOSE i \in DOMAIN header : header[i] = name].ints ELSE <<>>
IntOf(fields, name, default) ==
    IF IntsOf(fields, name) = <<>> THEN default ELSE IntsOf(fields, name)[1]

\* the fields of a row can be parsed: parse_i64, parse_phases
FieldParses(name, ints) ==
    /\ ints # Bad
    /\ name # "bursts" => Len(ints) = 1 \/ (ints = <<>> /\ name \notin Required)
RowParses(fields) ==
    /\ Len(fields) = Len(header)
    /\ \A i \in DOMAIN header : FieldParses(header[i], fields[i].ints)

\* bursts wins over burst
RowPhases(fields) ==
    IF IntsOf(fields, "bursts") # <<>> THEN IntsOf(fields, "bursts") ELSE IntsOf(fields, "burst")
RowProcess(fields) ==
    [process_make EXCEPT
        !.pid = IntOf(fields, "pid", @), !.arrival = IntOf(fields, "arrival", @),
        !.burst = RowPhases(fields)[1],
        !.priority = IntOf(fields, "priority", @),
        !.tickets = IntOf(fields, "tickets", @), !.nice = IntOf(fields, "nice", @)]

RowStatuses(fields) ==
    IF /\ RowParses(fields) /\ RowPhases(fields) # <<>>
       /\ IsOdd(Len(RowPhases(fields))) /\ \A k \in DOMAIN RowPhases(fields) : RowPhases(fields)[k] > 0
       /\ ProcessAccepted(RowProcess(fields))
    THEN PushStatuses(workload, RowPhases(fields)) ELSE {"input"}

\* blank lines and comments
SkipLine ==
    /\ AtLine /\ Line.kind = "skip" /\ at' = at + 1
    /\ UNCHANGED <<source, reader, header, expected, workload, loaded>>

ReadHeader ==
    /\ AtLine /\ Line.kind = "fields" /\ header = <<>>
    /\ HeaderAccepted(Line.fields)
    /\ header' = [i \in DOMAIN Line.fields |-> Line.fields[i].name] /\ at' = at + 1
    /\ UNCHANGED <<source, reader, expected, workload, loaded>>

ReadRow ==
    /\ AtLine /\ Line.kind = "fields" /\ header # <<>>
    /\ "ok" \in RowStatuses(Line.fields) /\ at' = at + 1
    /\ workload' = Pushed(workload, RowProcess(Line.fields), RowPhases(Line.fields))
    /\ UNCHANGED <<source, reader, header, expected, loaded>>

\* a line that is too long, has too many fields or the wrong ones
RefuseLine ==
    /\ AtLine
    /\ \E st \in CASE Line.kind \in {"long", "wide"} -> {"input"}
                   [] Line.kind = "skip" -> {}
                   [] Line.kind = "fields" /\ header = <<>> ->
                        IF HeaderAccepted(Line.fields) THEN {} ELSE {"input"}
                   [] OTHER -> RowStatuses(Line.fields) \ {"ok"} : Fail(st)
    /\ at' = at + 1
    /\ UNCHANGED <<source, header, expected, workload>>

EndOfFile ==
    /\ reader = "csv" /\ at = Len(source.lines)
    /\ CASE source.end = "error" -> Fail("io")
         [] source.end = "eof" /\ workload.items = <<>> -> Fail("input")
         [] OTHER -> reader' = "validate" /\ UNCHANGED loaded
    /\ UNCHANGED <<source, at, header, expected, workload>>

-----------------------------------------------------------------------------
(* read_workload_interactive *)

\* read_int_token, k times: "ok" or the first failure
TokensStatus(k) ==
    LET given == SubSeq(source.tokens, at + 1, Min({at + k, Len(source.tokens)})) IN
    CASE Bad \in Range(given) -> "input"
      [] Bad \notin Range(given) /\ Len(given) < k -> IF source.end = "error" THEN "io" ELSE "input"
      [] OTHER -> "ok"

ReadCount ==
    /\ reader = "count" /\ at' = at + 1
    /\ IF TokensStatus(1) = "ok" /\ source.tokens[1] > 0
       THEN /\ expected' = source.tokens[1] /\ reader' = "triples" /\ UNCHANGED loaded
       ELSE /\ Fail(IF TokensStatus(1) = "ok" THEN "input" ELSE TokensStatus(1))
            /\ UNCHANGED expected
    /\ UNCHANGED <<source, header, workload>>

TripleProcess ==
    [process_make EXCEPT !.pid = source.tokens[at + 1], !.arrival = source.tokens[at + 2],
                         !.burst = source.tokens[at + 3]]

ReadTriple ==
    /\ reader = "triples" /\ Len(workload.items) < expected /\ at' = at + 3
    /\ IF TokensStatus(3) # "ok" \/ ~ProcessAccepted(TripleProcess)
       THEN /\ Fail(IF TokensStatus(3) = "ok" THEN "input" ELSE TokensStatus(3))
            /\ UNCHANGED workload
       ELSE \E st \in PushStatuses(workload, <<TripleProcess.burst>>) :
            IF st = "ok"
            THEN /\ workload' = Pushed(workload, TripleProcess, <<TripleProcess.burst>>)
                 /\ UNCHANGED <<reader, loaded>>
            ELSE Fail(st) /\ UNCHANGED workload
    /\ UNCHANGED <<source, header, expected>>

TriplesDone ==
    /\ reader = "triples" /\ Len(workload.items) = expected /\ reader' = "validate"
    /\ UNCHANGED <<source, at, header, expected, workload, loaded>>

-----------------------------------------------------------------------------

Validate ==
    /\ reader = "validate" /\ \E st \in ValidateStatuses(workload) : Fail(st)
    /\ UNCHANGED <<source, at, header, expected, workload>>

ReadStep ==
    \/ SkipLine \/ ReadHeader \/ ReadRow \/ RefuseLine \/ EndOfFile
    \/ ReadCount \/ ReadTriple \/ TriplesDone \/ Validate
=============================================================================
