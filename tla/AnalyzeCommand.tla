--------------------------- MODULE AnalyzeCommand ---------------------------
(***************************************************************************)
(* `cryptotrace analyze` and `cryptotrace calibrate train` as processes:   *)
(* main (src/main.rs), run_with_cli (src/cli.rs), the audit log            *)
(* (src/intelligence/audit.rs), the model file (src/core/calibration.rs)   *)
(* and the AI providers (src/providers/mod.rs).                            *)
(*                                                                         *)
(* The analysis itself is Detection, in a worker SandboxedAnalysis; here   *)
(* it is one step, known by who did it and under which model.  A model is  *)
(* known by the process that trained it.  The narrative cache of main is   *)
(* empty whenever it is asked, since a process asks it once.               *)
(***************************************************************************)
EXTENDS Processes, Sequences, Narratives

CONSTANTS
    Replies,   \* what a service may send back
    Pieces,    \* the writes that one audit entry takes
    MaxLayers  \* bound on the layers of --deep

VARIABLES
    modelFile,  \* calibration_data/model.json
    saved,      \* history: the models that were saved in full
    log,        \* audit.jsonl, as the sequence of the writes to it
    own         \* what a process keeps to itself, and (history) whether it is a
                \* training that came to the file while another one was at it

commandVars == <<modelFile, saved, log, own>>

NoResult ==
    [by |-> None, model |-> None, context |-> None, algorithm |-> FALSE, layers |-> 0,
     narrative |-> [f \in {} |-> NoText]]

NoRequest == [service |-> None, key |-> None, model |-> None]
NoReply ==
    [shape |-> None,
     content |-> [json |-> FALSE, fence |-> "none", inner |-> FALSE, object |-> FALSE,
                  fields |-> [f \in Fields |-> NoText]]]

Fresh ==
    [model |-> None, overlaps |-> FALSE, result |-> NoResult, entry |-> NoResult, written |-> 0,
     logs |-> TRUE, request |-> NoRequest, reply |-> NoReply, printed |-> NoResult]

Services == {"openai", "anthropic", "local"}

Texts == [words : Seq(Words), stops : Nat, signal : BOOLEAN, length : Nat]

Contents ==
    [json : BOOLEAN, fence : {"none", "open", "closed"}, inner : BOOLEAN, object : BOOLEAN,
     fields : [Fields -> Texts]]

Contexts == {"forensics", "malware", "password"}

Settings ==
    [openai : BOOLEAN, anthropic : BOOLEAN, local : BOOLEAN, model : BOOLEAN,
     toml : [state : {"absent", "malformed", "present"}, provider : {None, "other"} \cup Services,
             key : {None} \cup Services, model : BOOLEAN]]

CommandPrograms ==
    [name : {"analyze"}, sandbox : BOOLEAN, deep : BOOLEAN, ai : BOOLEAN, context : Contexts,
     settings : Settings] \cup
    [name : {"train"}, data : {"rows", "bad", "empty"}]

\* What a process may calibrate with; "mixed" has the weights of no training.
Models == {None, "bundled", "mixed"} \cup Procs

Results ==
    [by : {None, "self", "worker"}, model : Models, context : {None} \cup Contexts,
     algorithm : BOOLEAN, layers : 0..MaxLayers,
     narrative : {NoResult.narrative} \cup [Fields -> Texts]]

Answers == [shape : {None} \cup Services, content : Contents]

Owned ==
    [model : Models, overlaps : BOOLEAN, result : Results, entry : Results, written : 0..Pieces,
     logs : BOOLEAN,
     request : [service : {None} \cup Services, key : {None} \cup Services,
                model : {None, "gpt-4o", "chosen"}],
     reply : Answers, printed : Results]

CommandTypeOK ==
    /\ modelFile \in Models \cup {"empty", "torn"}
    /\ saved \subseteq Models
    /\ log \in Seq([proc : Procs, number : 1..Pieces])
    /\ own \in [Procs -> Owned]

CommandInit ==
    /\ modelFile \in {None, "bundled"}
    /\ saved = {"bundled"}
    /\ log = <<>>
    /\ own = [p \in Procs |-> Fresh]

-----------------------------------------------------------------------------
(* The model file.                                                         *)

\* Slip: what cannot be parsed is a model all the same.
LoadedLeniently(file) == IF file = None THEN None ELSE file

\* default_model: an empty or torn file is no model.
Loaded(file) == IF file \in {"empty", "torn"} THEN None ELSE file

LoadModel(p) ==
    /\ \/ Goes(p, "analyze", "detect")
       \/ Goes(p, "train", "read_data")
    /\ own' = [own EXCEPT ![p].model = Loaded(modelFile)]
    /\ UNCHANGED <<modelFile, saved, log>>

\* load_csv, and the exit where it has no rows.
ReadData(p) ==
    /\ Goes(p, "read_data", IF program[p].data = "rows" THEN "save_model" ELSE "failed")
    /\ UNCHANGED commandVars

\* save_model is fs::write, which truncates first.
TruncateModel(p) ==
    /\ Goes(p, "save_model", "write_model")
    /\ modelFile' = "empty"
    /\ own' = [own EXCEPT ![p].overlaps = @ \/ \E q \in Procs : pc[q] = "write_model"]
    /\ UNCHANGED <<saved, log>>

\* Written over what another training wrote since, it may have that one's tail,
\* and then there is something behind the end of the model.
WriteModel(p) ==
    /\ Goes(p, "write_model", "done")
    /\ modelFile' \in IF modelFile = "empty" THEN {p} ELSE {p, "torn"}
    /\ saved' = IF modelFile' = p THEN saved \cup {p} ELSE saved
    /\ own' = [own EXCEPT ![p].model = p]
    /\ UNCHANGED log

\* What a write that fails or is killed leaves of the models: in an empty file
\* nothing or a first part, which is no JSON.  In a file that has another
\* training's text by now it leaves its own beginning with that one's end: the
\* same text as before, no JSON, JSON with some weights of each, or its own
\* model, where the ends are the same.
Remains(p) ==
    IF modelFile = "empty" THEN {"empty", "torn"} ELSE {modelFile, "torn", "mixed", p}

SavedInPart(p) ==
    /\ modelFile' \in Remains(p)
    /\ saved' = IF modelFile' = p THEN saved \cup {p} ELSE saved
    /\ UNCHANGED <<log, own>>

SaveFails(p) ==
    \/ Faulty(p, "save_model", "failed") /\ UNCHANGED commandVars
    \/ Faulty(p, "write_model", "failed") /\ SavedInPart(p)

-----------------------------------------------------------------------------
(* The analysis.                                                           *)

\* A worker has no model; the fallback is done by the process itself.
Detect(p) ==
    /\ Goes(p, "detect", "deepen")
    /\ \E by \in IF program[p].sandbox THEN {"worker", "self"} ELSE {"self"}, found \in BOOLEAN :
        own' = [own EXCEPT ![p].result =
                   [NoResult EXCEPT !.by = by,
                                    !.model = IF by = "worker" THEN None ELSE own[p].model,
                                    !.context = program[p].context,
                                    !.algorithm = found]]
    /\ UNCHANGED <<modelFile, saved, log>>

DetectFails(p) ==
    /\ Goes(p, "detect", "failed")
    /\ UNCHANGED commandVars

\* --deep: the layers of the text of the input's hash are added; an error of
\* the recursive analysis ends the command.
Deepens(p) == program[p].deep /\ own[p].result.algorithm

Deepen(p) ==
    /\ Goes(p, "deepen", "open_log")
    /\ \E n \in IF Deepens(p) THEN 0..MaxLayers ELSE {0} :
        own' = [own EXCEPT ![p].result.layers = n]
    /\ UNCHANGED <<modelFile, saved, log>>

DeepenFails(p) ==
    /\ Goes(p, "deepen", "failed")
    /\ Deepens(p)
    /\ UNCHANGED commandVars

-----------------------------------------------------------------------------
(* The audit log.                                                          *)

\* Slip: an analysis with a narrative is logged elsewhere.
OpenLogWithoutAi(p) ==
    /\ Goes(p, "open_log", IF program[p].ai THEN "narrate" ELSE "write_entry")
    /\ own' = [own EXCEPT ![p].entry = own[p].result]
    /\ UNCHANGED <<modelFile, saved, log>>

\* ensure_audit_file, and the entry that is to be written.
OpenLog(p) ==
    /\ Goes(p, "open_log", "write_entry")
    /\ own' = [own EXCEPT ![p].entry = own[p].result]
    /\ UNCHANGED <<modelFile, saved, log>>

\* Slip: a file opened without append(true) is written from its beginning.
AtItsOffset(p, piece) ==
    IF piece.number <= Len(log) THEN [log EXCEPT ![piece.number] = piece] ELSE Append(log, piece)

\* The file is opened in append mode.
AtTheEnd(p, piece) == Append(log, piece)

\* writeln! on a File: the entry goes out in many small writes.
WriteEntry(p) ==
    LET n == own[p].written + 1 IN
    /\ Goes(p, "write_entry", IF n = Pieces THEN "narrate" ELSE "write_entry")
    /\ log' = AtTheEnd(p, [proc |-> p, number |-> n])
    /\ own' = [own EXCEPT ![p].written = n]
    /\ UNCHANGED <<modelFile, saved>>

\* The log cannot be opened or written; both are ignored.
LogFails(p) ==
    /\ Faulty(p, "open_log", "narrate") \/ Faulty(p, "write_entry", "narrate")
    /\ own' = [own EXCEPT ![p].logs = FALSE]
    /\ UNCHANGED <<modelFile, saved, log>>

-----------------------------------------------------------------------------
(* The narrative.  Settings are the environment of a process with the [ai] *)
(* table of its cryptotrace.toml.  A key is known by the service its owner *)
(* got it from.                                                            *)

\* AiProviderConfig::default, whatever the provider will be.
DefaultConfig == [provider |-> "openai", key |-> None, model |-> "gpt-4o"]

Named(model) == IF model THEN "chosen" ELSE "gpt-4o"

\* Slip: the file has its say on top of the environment.
ConfigMerged(s) ==
    LET env == IF s.openai THEN "openai" ELSE IF s.anthropic THEN "anthropic" ELSE None IN
    [provider |-> IF s.toml.provider # None THEN s.toml.provider ELSE "openai",
     key |-> IF env # None THEN env ELSE s.toml.key,
     model |-> Named(s.model)]

\* load_ai_provider up to create_provider; None where the file is malformed.
Config(s) ==
    IF s.openai THEN [provider |-> "openai", key |-> "openai", model |-> Named(s.model)]
    ELSE IF s.anthropic
    THEN [provider |-> "anthropic", key |-> "anthropic", model |-> Named(s.model)]
    ELSE IF s.local THEN [provider |-> "local", key |-> None, model |-> Named(s.model)]
    ELSE IF s.toml.state = "absent" THEN DefaultConfig
    ELSE IF s.toml.state = "malformed" THEN [DefaultConfig EXCEPT !.provider = None]
    ELSE [provider |-> IF s.toml.provider # None THEN s.toml.provider ELSE "openai",
          key |-> s.toml.key,
          model |-> Named(s.toml.model)]

OpenAiRequest(c) ==
    IF c.key = None THEN NoRequest
    ELSE [service |-> "openai", key |-> c.key, model |-> c.model]

AnthropicRequest(c) ==
    IF c.key = None THEN NoRequest
    ELSE [service |-> "anthropic", key |-> c.key, model |-> c.model]

LocalRequest(c) == [service |-> "local", key |-> None, model |-> c.model]

\* Slip: whatever is named is taken for a service.
RequestOfAnyName(c) == [service |-> c.provider, key |-> c.key, model |-> c.model]

\* create_provider, and the request of the provider it makes, if any.
Request(c) ==
    IF c.provider = "openai" THEN OpenAiRequest(c)
    ELSE IF c.provider = "anthropic" THEN AnthropicRequest(c)
    ELSE IF c.provider = "local" THEN LocalRequest(c)
    ELSE NoRequest

AskService(p) ==
    /\ Goes(p, "narrate", "asking")
    /\ program[p].ai
    /\ Request(Config(program[p].settings)) # NoRequest
    /\ own' = [own EXCEPT ![p].request = Request(Config(program[p].settings))]
    /\ UNCHANGED <<modelFile, saved, log>>

NoNarrative(p) ==
    /\ Goes(p, "narrate", "print")
    /\ ~program[p].ai \/ Request(Config(program[p].settings)) = NoRequest
    /\ UNCHANGED commandVars

\* The service, which may also never answer.
ServiceReplies(p) ==
    /\ Goes(p, "asking", "answered")
    /\ \E r \in Replies : own' = [own EXCEPT ![p].reply = r]
    /\ UNCHANGED <<modelFile, saved, log>>

\* Slip: a client without a timeout.
WaitsForEver(p) == FALSE

\* The timeout of the client, or an error of the connection.
RequestFails(p) ==
    /\ Goes(p, "asking", "print")
    /\ UNCHANGED commandVars

\* Each provider looks for the content where its own service puts it; a
\* reply without it is an error, and the result stays as it was.
Receive(p) ==
    LET reply == own[p].reply IN
    /\ Goes(p, "answered", "print")
    /\ own' = [own EXCEPT
                  ![p].reply = NoReply,
                  ![p].result.narrative =
                      IF reply.shape = own[p].request.service THEN Validated(reply.content)
                      ELSE @]
    /\ UNCHANGED <<modelFile, saved, log>>

PrintResult(p) ==
    /\ Goes(p, "print", "done")
    /\ own' = [own EXCEPT ![p].printed = own[p].result]
    /\ UNCHANGED <<modelFile, saved, log>>

-----------------------------------------------------------------------------

\* What a process does of itself.
CommandStep(p) ==
    \/ LoadModel(p) \/ ReadData(p) \/ TruncateModel(p) \/ WriteModel(p)
    \/ Detect(p) \/ DetectFails(p) \/ Deepen(p) \/ DeepenFails(p)
    \/ OpenLog(p) \/ WriteEntry(p)
    \/ AskService(p) \/ NoNarrative(p) \/ RequestFails(p) \/ Receive(p) \/ PrintResult(p)

CommandKilled(p) == IF pc[p] = "write_model" THEN SavedInPart(p) ELSE UNCHANGED commandVars
=============================================================================
