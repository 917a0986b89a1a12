------------------------------ MODULE MCProgram ------------------------------
(* Command lines and inputs for a small instance of Program. *)
EXTENDS Program

MCDefaults == [priority |-> 0, tickets |-> 2, nice |-> 0]
MCMinNice == -1

Arg(flag, v) == [flag |-> flag, v |-> v]
Column(name) == [name |-> name, ints |-> Bad]
Value(ints) == [name |-> "other", ints |-> ints]
Fields(cells) == [kind |-> "fields", fields |-> cells]
Other(kind) == [kind |-> kind, fields |-> <<>>]
Header(names) == Fields([i \in DOMAIN names |-> Column(names[i])])
Row(values) == Fields([i \in DOMAIN values |-> Value(values[i])])

Source(opens, lines, tokens, end) ==
    [opens |-> opens, lines |-> lines, tokens |-> tokens, end |-> end]
GoodSource ==
    Source(TRUE, <<Header(<<"pid", "arrival", "burst">>), Row(<<<<1>>, <<0>>, <<3>>>>)>>,
           <<1, 1, 0, 3>>, "eof")

\* files: a header, then up to three lines
Headers ==
    {Header(h) : h \in {<<"pid", "arrival", "burst">>, <<"bursts", "pid", "arrival">>,
        <<"pid", "arrival", "burst", "bursts">>, <<"tickets", "pid", "arrival", "burst">>,
        <<"nice", "pid", "arrival", "burst">>, <<"pid", "arrival", "priority", "burst">>,
        <<"pid", "arrival">>, <<"pid", "pid", "arrival", "burst">>, <<"pid", "burst">>,
        <<"pid", "arrival", "burst", "other">>}}
    \cup {Row(<<<<1>>, <<0>>, <<3>>>>), Other("wide")}
Rows ==
    {Row(<<<<1>>, <<0>>, <<3>>>>), Row(<<<<2>>, <<20>>, <<7>>>>), Row(<<<<2>>, <<1>>, Bad>>),
     Row(<<<<2>>, <<0>>, <<>>>>), Row(<<<<1, 2, 1>>, <<3>>, <<0>>>>),
     Row(<<<<2, 9, 2, 9, 2>>, <<4>>, <<10>>>>), Row(<<<<1, 2>>, <<3>>, <<1>>>>),
     Row(<<<<1, 0, 1>>, <<5>>, <<1>>>>), Row(<<<<-1>>, <<0>>, <<1>>>>),
     Row(<<<<1>>, <<0>>, <<2>>, <<1, 1, 1>>>>), Row(<<<<2>>, <<1>>, <<-5>>, <<2>>>>),
     Row(<<<<4>>, <<1>>, <<>>, <<2>>>>), Row(<<<<3>>, <<1>>, <<>>, <<>>>>),
     Row(<<<<5>>, <<7>>, <<0>>, <<1>>>>), Row(<<<<1>>, <<8>>, <<2>>, <<2>>>>),
     Row(<<<<3>>, <<1>>, <<2>>, <<>>>>), Row(<<<<0>>, <<6>>, <<-1>>, <<2>>>>),
     Header(<<"pid", "arrival", "burst">>), Other("skip"), Other("long")}
SmallFiles == {<<h, a>> : h \in Headers, a \in Rows} \cup {<<h>> : h \in Headers} \cup {<<>>}
Files ==
    SmallFiles \cup {<<h, a, b>> : h \in Headers, a \in Rows, b \in Rows}
    \cup {<<Other("skip")>> \o f \o <<Row(<<<<8>>, <<0>>, <<1>>>>)>> : f \in SmallFiles}
    \cup {<<Header(<<"pid", "arrival", "burst">>)>>
          \o [i \in 1..n |-> Row(<<<<i>>, <<i>>, <<b>>>>)] : n \in 3..5, b \in {1, 5, 6}}
FileRuns ==
    {[argv |-> <<Arg("input", "file"), Arg("format", "none")>>,
      source |-> Source(TRUE, f, <<>>, end)] : f \in Files, end \in {"eof", "error"}}
    \cup {[argv |-> <<Arg("input", "file")>>, source |-> Source(FALSE, <<>>, <<>>, "eof")]}

\* the interactive format: a count and up to two triples
Triples == {<<1, 0, 3>>, <<2, 20, 7>>, <<1, 1, 1>>, <<3, -1, 2>>, <<4, 0, 0>>, <<5, Bad, 1>>,
            <<6, 0>>}
Tokens ==
    {<<>>, <<Bad>>, <<0>>} \cup {<<n>> \o t : n \in 1..3, t \in Triples}
    \cup {<<n>> \o t \o u : n \in 1..3, t \in Triples, u \in Triples}
TokenRuns ==
    {[argv |-> <<Arg("format", f)>>, source |-> Source(TRUE, <<>>, t, end)] :
        f \in {"text", "json"}, t \in Tokens, end \in {"eof", "error"}}

\* command lines
MlfqArgs ==
    {Arg("levels", 1), Arg("levels", 2), Arg("levels", 4), Arg("quanta", <<5>>),
     Arg("quanta", <<3, 1>>), Arg("quanta", <<6, 7, 8>>), Arg("allot", <<9>>),
     Arg("allot", <<4, 5>>), Arg("allot", <<1, 2, 3>>), Arg("allot", <<1, 2, 3, 4>>),
     Arg("quanta", <<1, 0>>), Arg("allot", Bad), Arg("levels", 5)}
OutputArgs ==
    {Arg("csv", "a"), Arg("csv", "b"), Arg("noCsv", 0), Arg("summary", "b"), Arg("csv", ""),
     Arg("summary", "c"), Arg("format", "csv"), Arg("format", "json"), Arg("format", "none"),
     Arg("format", "xml"), Arg("input", "file"), Arg("help", 0), Arg("gap", 0),
     Arg("predict", "ewma"), Arg("algo", <<"srtf", "fcfs">>), Arg("algo", <<"all">>),
     Arg("algo", <<"sjf", "sjx">>), Arg("algo", <<"opt-np", "classic">>)}
ScalarArgs ==
    {Arg("quantum", 3), Arg("quantum", 0), Arg("aging", 0), Arg("aging", -1), Arg("seed", 4),
     Arg("cores", 2), Arg("cores", 5), Arg("csCost", 2), Arg("alpha", 2), Arg("alpha", 3),
     Arg("tau0", 0), Arg("latency", Bad), Arg("minGran", 1), Arg("boost", 7),
     Arg("predict", "oracle"), Arg("metrics", "full"), Arg("perTick", 0), Arg("gantt", 0),
     Arg("timing", 0), Arg("bogus", 0)}
Short == Arg("algo", <<"mlfq">>)
OptionRuns ==
    {[argv |-> a, source |-> GoodSource] : a \in
        {<<Short, a, b, c>> : a \in MlfqArgs, b \in MlfqArgs, c \in MlfqArgs}
        \cup {<<a, b, c>> : a \in OutputArgs, b \in OutputArgs, c \in OutputArgs}
        \cup {<<a, b>> : a \in ScalarArgs, b \in ScalarArgs \cup OutputArgs} \cup {<<>>}}

MCInvocations == FileRuns \cup TokenRuns \cup OptionRuns
=============================================================================
