---------------------------- MODULE MCSharedFiles ----------------------------
(* The instance of SharedFiles for TLC: three processes, and one plan for  *)
(* each way in which programs meet, so that the states of the plans add up *)
(* instead of multiplying.                                                 *)
EXTENDS SharedFiles

ThreeProcs == {"p1", "p2", "p3"}

Run(first, second, third) ==
    [p \in ThreeProcs |-> IF p = "p1" THEN first ELSE IF p = "p2" THEN second ELSE third]

Nothing == [name |-> "done"]

-----------------------------------------------------------------------------
(* One analysis with every setting, and one with every reply.              *)

NoToml == [state |-> "absent", provider |-> None, key |-> None, model |-> FALSE]

\* A key is given for the provider that is named, and that is OpenAI by default;
\* the others have no use for one.
Tomls ==
    {NoToml, [NoToml EXCEPT !.state = "malformed"]} \cup
    {t \in [state : {"present"}, provider : {None, "openai", "anthropic", "local", "other"},
            key : {None, "openai", "anthropic"}, model : BOOLEAN] :
        t.provider \in {None, "openai", "anthropic"}
            => t.key \in {None, IF t.provider = None THEN "openai" ELSE t.provider}}

\* The environment hides the file, of which two are enough then.
SomeSettings ==
    {s \in [openai : BOOLEAN, anthropic : BOOLEAN, local : BOOLEAN, model : BOOLEAN, toml : Tomls] :
        IF s.openai \/ s.anthropic \/ s.local
        THEN s.toml = NoToml \/ (s.toml.provider \in {"openai", "anthropic"} /\ s.toml.key # None
                                  /\ ~s.toml.model)
        ELSE ~s.model}

NoSettings ==
    [openai |-> FALSE, anthropic |-> FALSE, local |-> FALSE, model |-> FALSE, toml |-> NoToml]

WithOpenAi == [NoSettings EXCEPT !.openai = TRUE]

Analyze(sandbox, deep, ai, settings) ==
    [name |-> "analyze", sandbox |-> sandbox, deep |-> deep, ai |-> ai,
     context |-> "malware", settings |-> settings]

Text(words, stops, signal, length) ==
    [words |-> words, stops |-> stops, signal |-> signal, length |-> length]

WordLists == {<<>>, <<"word">>, <<"cve">>, <<"fake">>, <<"word", "fake">>, <<"fake", "cve">>,
              <<"cve", "fake">>, <<"word", "fake", "cve">>}

SomeTexts ==
    {Text(words, 1, TRUE, 20) : words \in WordLists} \cup
    {Text(<<"word">>, 4, TRUE, 20), Text(<<"word">>, 1, FALSE, 20), Text(<<"word">>, 1, TRUE, 3)}

Json(object, fields) ==
    [json |-> TRUE, fence |-> "none", inner |-> FALSE, object |-> object, fields |-> fields]

AllFields(text) == [f \in Fields |-> text]

Good == Json(TRUE, AllFields(Text(<<"word", "cve">>, 2, TRUE, 30)))

NotJson(fence, inner) == [Good EXCEPT !.json = FALSE, !.fence = fence, !.inner = inner]

SomeContents ==
    {Json(TRUE, [Good.fields EXCEPT ![f] = text]) : f \in Fields, text \in SomeTexts} \cup
    {Json(FALSE, Good.fields), NotJson("none", FALSE), NotJson("open", TRUE),
     NotJson("closed", FALSE), NotJson("closed", TRUE)}

\* Of the other services, an answer of their own shape and one of another's.
SomeReplies ==
    {[shape |-> "openai", content |-> c] : c \in SomeContents} \cup
    {[shape |-> s, content |-> Good] : s \in {None, "anthropic", "local"}}

AnalysisPlans ==
    {Run(Analyze(FALSE, FALSE, TRUE, s), Nothing, Nothing) : s \in SomeSettings} \cup
    {Run(Analyze(TRUE, TRUE, ai, WithOpenAi), Nothing, Nothing) : ai \in BOOLEAN}

-----------------------------------------------------------------------------
(* Analyses that meet in the log, and analyses that meet trainings.        *)

Quick == Analyze(FALSE, FALSE, FALSE, NoSettings)

Train(data) == [name |-> "train", data |-> data]

LogPlans == {Run(Quick, Quick, Nothing)}

ModelPlans ==
    {Run(Train("rows"), Train("rows"), Quick), Run(Train("bad"), Train("empty"), Nothing)}

-----------------------------------------------------------------------------
(* Scans of files of one and of two units, and loads.                      *)

Threat(malicious, size, vt, rules) ==
    [name |-> "scan", malicious |-> malicious, size |-> size, vt |-> vt, rules |-> rules]

ScanPlans ==
    {Run(Threat(TRUE, 2, FALSE, TRUE), Threat(FALSE, 1, FALSE, TRUE), Threat(FALSE, 1, FALSE, TRUE)),
     Run(Threat(TRUE, 1, TRUE, TRUE), Threat(FALSE, 1, TRUE, FALSE), Nothing)}

TwoVersions == {<<"v1", "v1">>, <<"v2">>}

LoadPlans == {Run([name |-> "load"], [name |-> "load"], [name |-> "load"])}

-----------------------------------------------------------------------------
(* Exports of every short value of every character.                        *)

Symbols == {"x", "\\", "=", "|", "nl", "cr", " "}

Values == {<<>>} \cup {<<s>> : s \in Symbols} \cup {<<s, t>> : s, t \in Symbols}

Detected(type, algorithm, weakness, risk) ==
    [detected_type |-> type, algorithm |-> algorithm, weakness |-> weakness,
     weakness_cve |-> Absent, risk_level |-> risk]

\* One id, or two that were joined.
Ids == {<<"CVE">>, <<"CVE", ",", "CVE">>} \cup {<<"CVE", s>> : s \in Symbols}
       \cup {<<"CVE", s, t, "x">> : s \in {"\\", "=", "nl", " "}, t \in Symbols}

SomeResults ==
    {Detected(v, Absent, Absent, "High") : v \in Values} \cup
    {Detected(<<"x">>, v, <<"x">>, "Low") : v \in Values} \cup
    {Detected(<<"\\">>, <<"x">>, v, risk) : v \in {Absent, <<" ", "=">>, <<"nl">>},
                                         risk \in {"Critical", "Medium", "Unknown"}} \cup
    {[Detected(<<"x">>, Absent, <<"x">>, "Medium") EXCEPT !.weakness_cve = ids] : ids \in Ids}

ExportPlans ==
    {Run([name |-> "export", format |-> f, protocol |-> t, result |-> r], Nothing, Nothing) :
        f \in {"cef", "leef"}, t \in {"udp", "tcp"}, r \in SomeResults}

OneNarrative == {Run(Analyze(FALSE, FALSE, TRUE, WithOpenAi), Nothing, Nothing)}

AllPlans == AnalysisPlans \cup LogPlans \cup ModelPlans \cup ScanPlans \cup LoadPlans \cup ExportPlans
=============================================================================
