-------------------------- MODULE SharedFiles_proofs --------------------------
(***************************************************************************)
(* Proofs about SharedFiles, for any processes, plans, replies, versions   *)
(* and numbers of faults.                                                  *)
(***************************************************************************)
EXTENDS SharedFiles, SyslogExport_proofs

\* What a step of p is to each of the components it may disturb.
CommandDoes(p) ==
    \/ CommandStep(p) \/ ServiceReplies(p) \/ SaveFails(p) \/ LogFails(p)
    \/ (Killed(p) /\ CommandKilled(p))

ScanDoes(p) == ScanStep(p) \/ ScanFileFails(p) \/ (Killed(p) /\ ScanKilled(p))
LoadDoes(p) == LoadStep(p) \/ LoadFails(p) \/ (Killed(p) /\ LoadKilled(p))
ExportDoes(p) == ExportStep(p) \/ SendFails(p) \/ (Killed(p) /\ ExportKilled(p))

AnalyzePoints ==
    {"analyze", "detect", "deepen", "open_log", "write_entry", "narrate", "asking", "answered",
     "print"}
TrainPoints == {"train", "read_data", "save_model", "write_model"}
ScanPoints == {"scan", "open_scan", "fill_scan", "run_yara", "remove_scan"}
LoadPoints == {"load", "read_local", "download", "create_local", "fill_local"}
ExportPoints == {"export", "newline"}

Step(p) ==
    \/ Command(p) \/ Service(p) \/ Scan(p) \/ Load(p) \/ Export(p) \/ Fault(p) \/ Kill(p)

LEMMA Steps == [Next]_vars <=> (\E p \in Procs : Step(p)) \/ UNCHANGED vars
  BY DEF Next, Step

-----------------------------------------------------------------------------
(* Control: where a step takes a process.                                  *)

ControlOK ==
    /\ program \in [Procs -> Programs]
    /\ DOMAIN pc = Procs
    /\ pc = [p \in Procs |-> pc[p]]
    /\ \A p \in Procs : pc[p] \in PointsOf(program[p].name)
    /\ faults \in 0..MaxFaults

\* A process moves within the points of one program or ends.
Moves(p, points) ==
    /\ program' = program
    /\ pc[p] \in points
    /\ pc' = [pc EXCEPT ![p] = pc'[p]]
    /\ pc'[p] \in points \cup Ended
    /\ faults' \in 0..MaxFaults

LEMMA GoesMoves ==
    ASSUME ControlOK, NEW p \in Procs, NEW points, NEW from \in points, NEW to \in points \cup Ended,
           Goes(p, from, to) \/ Faulty(p, from, to)
    PROVE  Moves(p, points)
  BY SharedAssumption DEF ControlOK, Moves, Goes, Faulty

LEMMA CommandMoves ==
    ASSUME ControlOK, NEW p \in Procs,
           CommandStep(p) \/ ServiceReplies(p) \/ SaveFails(p) \/ LogFails(p)
    PROVE  Moves(p, AnalyzePoints) \/ Moves(p, TrainPoints)
<1> USE GoesMoves DEF AnalyzePoints, TrainPoints, Ended
<1>1. CASE LoadModel(p)  BY <1>1 DEF LoadModel
<1>2. CASE ReadData(p)
  <2>1. PICK to \in {"save_model", "failed"} : Goes(p, "read_data", to)  BY <1>2 DEF ReadData
  <2> QED  BY <2>1
<1>3. CASE TruncateModel(p)  BY <1>3 DEF TruncateModel
<1>4. CASE WriteModel(p)  BY <1>4 DEF WriteModel
<1>5. CASE SaveFails(p)  BY <1>5 DEF SaveFails
<1>6. CASE Detect(p)  BY <1>6 DEF Detect
<1>7. CASE DetectFails(p)  BY <1>7 DEF DetectFails
<1>8. CASE Deepen(p)  BY <1>8 DEF Deepen
<1>9. CASE DeepenFails(p)  BY <1>9 DEF DeepenFails
<1>10. CASE OpenLog(p)  BY <1>10 DEF OpenLog
<1>11. CASE WriteEntry(p)
  <2>1. PICK to \in {"narrate", "write_entry"} : Goes(p, "write_entry", to)  BY <1>11 DEF WriteEntry
  <2> QED  BY <2>1
<1>12. CASE LogFails(p)  BY <1>12 DEF LogFails
<1>13. CASE AskService(p)  BY <1>13 DEF AskService
<1>14. CASE NoNarrative(p)  BY <1>14 DEF NoNarrative
<1>15. CASE ServiceReplies(p)  BY <1>15 DEF ServiceReplies
<1>16. CASE RequestFails(p)  BY <1>16 DEF RequestFails
<1>17. CASE Receive(p)  BY <1>17 DEF Receive
<1>18. CASE PrintResult(p)  BY <1>18 DEF PrintResult
<1> QED
  BY <1>1, <1>2, <1>3, <1>4, <1>5, <1>6, <1>7, <1>8, <1>9, <1>10, <1>11, <1>12, <1>13, <1>14,
     <1>15, <1>16, <1>17, <1>18 DEF CommandStep

LEMMA ScanMoves ==
    ASSUME ControlOK, NEW p \in Procs, ScanStep(p) \/ ScanFileFails(p)
    PROVE  Moves(p, ScanPoints)
<1> USE GoesMoves DEF ScanPoints, Ended
<1>1. CASE VirusTotal(p)
  <2>1. PICK to \in {"open_scan", "done"} : Goes(p, "scan", to)  BY <1>1 DEF VirusTotal
  <2> QED  BY <2>1
<1>2. CASE OpenScanFile(p)  BY <1>2 DEF OpenScanFile
<1>3. CASE FillScanFile(p)  BY <1>3 DEF FillScanFile
<1>4. CASE RunYara(p)  BY <1>4 DEF RunYara
<1>5. CASE RemoveScanFile(p)  BY <1>5 DEF RemoveScanFile
<1>6. CASE ScanFileFails(p)
  <2>1. PICK from \in {"open_scan", "fill_scan"} : Faulty(p, from, "done")  BY <1>6 DEF ScanFileFails
  <2> QED  BY <2>1
<1> QED  BY <1>1, <1>2, <1>3, <1>4, <1>5, <1>6 DEF ScanStep

LEMMA LoadMoves ==
    ASSUME ControlOK, NEW p \in Procs, LoadStep(p) \/ LoadFails(p)
    PROVE  Moves(p, LoadPoints)
<1> USE GoesMoves DEF LoadPoints, Ended
<1>1. CASE CheckLocal(p)
  <2>1. PICK to \in {"download", "read_local"} : Goes(p, "load", to)  BY <1>1 DEF CheckLocal
  <2> QED  BY <2>1
<1>2. CASE ReadLocal(p)  BY <1>2 DEF ReadLocal
<1>3. CASE Download(p)  BY <1>3 DEF Download
<1>4. CASE DownloadFails(p)  BY <1>4 DEF DownloadFails
<1>5. CASE CreateLocal(p)  BY <1>5 DEF CreateLocal
<1>6. CASE FillLocal(p)  BY <1>6 DEF FillLocal
<1>7. CASE LoadFails(p)  BY <1>7 DEF LoadFails
<1> QED  BY <1>1, <1>2, <1>3, <1>4, <1>5, <1>6, <1>7 DEF LoadStep

LEMMA ExportMoves ==
    ASSUME ControlOK, NEW p \in Procs, ExportStep(p) \/ SendFails(p)
    PROVE  Moves(p, ExportPoints)
  BY GoesMoves DEF ExportPoints, Ended, ExportStep, SendFails, SendUdp, SendTcp, SendNewline

KindsOfPoints == {AnalyzePoints, TrainPoints, ScanPoints, LoadPoints, ExportPoints}

\* To a component that does nothing: the process that moves is not one of its own.
Elsewhere(p, points) == \E others \in KindsOfPoints \ points : Moves(p, others)

\* Each step of the machine is one of one component, and to the others no more
\* than that; or it is the end of a process.
LEMMA Split ==
    ASSUME ControlOK, NEW p \in Procs, Step(p)
    PROVE  /\ CommandDoes(p) \/ (UNCHANGED commandVars /\ Elsewhere(p, {AnalyzePoints, TrainPoints}))
           /\ ScanDoes(p) \/ (UNCHANGED scanVars /\ Elsewhere(p, {ScanPoints}))
           /\ LoadDoes(p) \/ (UNCHANGED cacheVars /\ Elsewhere(p, {LoadPoints}))
           /\ ExportDoes(p) \/ (UNCHANGED syslogVars /\ Elsewhere(p, {ExportPoints}))
           /\ Killed(p) \/ \E points \in KindsOfPoints : Moves(p, points)
<1> DEFINE Goal ==
      /\ CommandDoes(p) \/ (UNCHANGED commandVars /\ Elsewhere(p, {AnalyzePoints, TrainPoints}))
      /\ ScanDoes(p) \/ (UNCHANGED scanVars /\ Elsewhere(p, {ScanPoints}))
      /\ LoadDoes(p) \/ (UNCHANGED cacheVars /\ Elsewhere(p, {LoadPoints}))
      /\ ExportDoes(p) \/ (UNCHANGED syslogVars /\ Elsewhere(p, {ExportPoints}))
      /\ Killed(p) \/ \E points \in KindsOfPoints : Moves(p, points)
<1>0. /\ AnalyzePoints # ScanPoints /\ AnalyzePoints # LoadPoints /\ AnalyzePoints # ExportPoints
      /\ TrainPoints # ScanPoints /\ TrainPoints # LoadPoints /\ TrainPoints # ExportPoints
      /\ ScanPoints # LoadPoints /\ ScanPoints # ExportPoints /\ LoadPoints # ExportPoints
  <2>1. /\ "analyze" \in AnalyzePoints /\ "train" \in TrainPoints /\ "scan" \in ScanPoints
        /\ "load" \in LoadPoints
        /\ "analyze" \notin ScanPoints \cup LoadPoints \cup ExportPoints
        /\ "train" \notin ScanPoints \cup LoadPoints \cup ExportPoints
        /\ "scan" \notin LoadPoints \cup ExportPoints /\ "load" \notin ExportPoints
    BY DEF AnalyzePoints, TrainPoints, ScanPoints, LoadPoints, ExportPoints
  <2> QED  BY <2>1
<1> USE <1>0 DEF Elsewhere, KindsOfPoints
<1>1. CASE Command(p) \/ Service(p) \/ ((SaveFails(p) \/ LogFails(p)) /\ UNCHANGED <<scanVars, cacheVars, syslogVars>>)
  <2>1. Moves(p, AnalyzePoints) \/ Moves(p, TrainPoints)  BY <1>1, CommandMoves DEF Command, Service
  <2>2. CommandDoes(p) /\ UNCHANGED scanVars /\ UNCHANGED cacheVars /\ UNCHANGED syslogVars
    BY <1>1 DEF Command, Service, CommandDoes
  <2> QED  BY <2>1, <2>2
<1>2. CASE Scan(p) \/ (ScanFileFails(p) /\ UNCHANGED <<commandVars, cacheVars, syslogVars>>)
  <2>1. Moves(p, ScanPoints)  BY <1>2, ScanMoves DEF Scan
  <2>2. ScanDoes(p) /\ UNCHANGED commandVars /\ UNCHANGED cacheVars /\ UNCHANGED syslogVars
    BY <1>2 DEF Scan, ScanDoes
  <2> QED  BY <2>1, <2>2
<1>3. CASE Load(p) \/ (LoadFails(p) /\ UNCHANGED <<commandVars, scanVars, syslogVars>>)
  <2>1. Moves(p, LoadPoints)  BY <1>3, LoadMoves DEF Load
  <2>2. LoadDoes(p) /\ UNCHANGED commandVars /\ UNCHANGED scanVars /\ UNCHANGED syslogVars
    BY <1>3 DEF Load, LoadDoes
  <2> QED  BY <2>1, <2>2
<1>4. CASE Export(p) \/ (SendFails(p) /\ UNCHANGED <<commandVars, scanVars, cacheVars>>)
  <2>1. Moves(p, ExportPoints)  BY <1>4, ExportMoves DEF Export
  <2>2. ExportDoes(p) /\ UNCHANGED commandVars /\ UNCHANGED scanVars /\ UNCHANGED cacheVars
    BY <1>4 DEF Export, ExportDoes
  <2> QED  BY <2>1, <2>2
<1>5. CASE Kill(p)
  BY <1>5 DEF Kill, CommandDoes, ScanDoes, LoadDoes, ExportDoes
<1> QED  BY <1>1, <1>2, <1>3, <1>4, <1>5 DEF Step, Fault

\* The points of one program are of one kind.
LEMMA Stays ==
    ASSUME ControlOK, NEW p \in Procs, NEW points \in KindsOfPoints, Moves(p, points)
    PROVE  ControlOK'
<1>1. program[p].name \in {"analyze", "train", "scan", "load", "export", "done"}
  BY SharedAssumption
  DEF ControlOK, Programs, CommandPrograms, ScanPrograms, ExportPrograms
<1>2. pc'[p] \in PointsOf(program[p].name)
  <2>1. pc[p] \in PointsOf(program[p].name) /\ pc[p] \in points /\ pc'[p] \in points \cup Ended
    BY DEF ControlOK, Moves
  <2> QED
    BY <1>1, <2>1
    DEF PointsOf, KindsOfPoints, AnalyzePoints, TrainPoints, ScanPoints, LoadPoints, ExportPoints,
        Ended
<1> QED  BY <1>2 DEF ControlOK, Moves

LEMMA KilledEnds ==
    ASSUME ControlOK, NEW p \in Procs, Killed(p)
    PROVE  /\ ControlOK'
           /\ pc' = [pc EXCEPT ![p] = "killed"]
           /\ program' = program
  BY SharedAssumption DEF ControlOK, Killed, PointsOf, Ended

LEMMA ControlStep ==
    ASSUME ControlOK, [Next]_vars
    PROVE  ControlOK'
<1>1. CASE UNCHANGED vars  BY <1>1 DEF vars, processVars, ControlOK
<1>2. ASSUME NEW p \in Procs, Step(p)  PROVE ControlOK'
  BY <1>2, Split, Stays, KilledEnds
<1> QED  BY <1>1, <1>2, Steps

LEMMA ControlInit ==
    ASSUME Init
    PROVE  ControlOK
<1>1. program \in [Procs -> Programs]  BY SharedAssumption DEF Init
<1> QED  BY <1>1, SharedAssumption DEF Init, ControlOK, PointsOf

LEMMA Control == Spec => []ControlOK
<1>1. ControlOK /\ [Next]_vars => ControlOK'  BY ControlStep
<1> QED  BY <1>1, ControlInit, PTL DEF Spec

-----------------------------------------------------------------------------
(* Types.                                                                  *)

\* A process writes its entry once, and nothing before.
WritingOK(p) ==
    /\ pc[p] \in {"analyze", "detect", "deepen", "open_log"} => own[p].written = 0
    /\ pc[p] = "write_entry" => own[p].written < Pieces

CommandOK ==
    /\ CommandTypeOK
    /\ \A p \in Procs : WritingOK(p)

LEMMA AnalyzeProgram ==
    ASSUME ControlOK, NEW p \in Procs, pc[p] \in AnalyzePoints
    PROVE  program[p].name = "analyze" /\ program[p].context \in Contexts
<1>1. program[p].name = "analyze"
  <2>1. program[p].name \in {"analyze", "train", "scan", "load", "export", "done"}
    BY SharedAssumption
    DEF ControlOK, Programs, CommandPrograms, ScanPrograms, ExportPrograms
  <2> QED
    BY <2>1 DEF ControlOK, AnalyzePoints, PointsOf, Ended
<1> QED  BY <1>1, SharedAssumption
         DEF ControlOK, Programs, CommandPrograms, ScanPrograms, ExportPrograms

LEMMA DefaultType == Default \in Texts /\ NoText \in Texts
<1>1. <<"word", "word">> \in Seq(Words)  BY DEF Words
<1>2. <<>> \in Seq(Words)  OBVIOUS
<1> QED  BY <1>1, <1>2 DEF Default, Texts, NoText

LEMMA ValidatedType ==
    ASSUME NEW content \in Contents
    PROVE  Validated(content) \in [Fields -> Texts]
<1>1. \A f \in Fields : content.fields[f] \in Texts  BY DEF Contents
<1>2. \A f \in Fields : Extract(f, content.fields[f]) \in Texts
  BY <1>1, DefaultType DEF Extract, Validate
<1> QED  BY <1>2, DefaultType DEF Validated

LEMMA NoResultType == NoResult \in Results
<1>1. [f \in {} |-> NoText] = NoResult.narrative  BY DEF NoResult
<1> QED  BY <1>1, SharedAssumption DEF NoResult, Results, Models, Contexts, None

LEMMA FreshType == Fresh \in Owned
<1>2. NoReply \in Answers
  BY DefaultType DEF NoReply, Answers, Contents
<1>3. NoRequest \in [service : {None} \cup Services, key : {None} \cup Services,
                     model : {None, "gpt-4o", "chosen"}]
  BY DEF NoRequest
<1> QED  BY <1>2, <1>3, NoResultType, SharedAssumption DEF Fresh, Owned, Models

LEMMA RequestType ==
    ASSUME ControlOK, NEW p \in Procs, program[p].name = "analyze"
    PROVE  Request(Config(program[p].settings)) \in
               [service : {None} \cup Services, key : {None} \cup Services,
                model : {None, "gpt-4o", "chosen"}]
<1>1. program[p].settings \in Settings
  BY SharedAssumption DEF ControlOK, Programs, CommandPrograms, ScanPrograms, ExportPrograms
<1>2. program[p].settings.toml.key \in {None} \cup Services  BY <1>1 DEF Settings
<1>3. /\ Config(program[p].settings).key \in {None} \cup Services
      /\ Config(program[p].settings).model \in {"gpt-4o", "chosen"}
  BY <1>2 DEF Config, DefaultConfig, Named, Services
<1> QED
  BY <1>3 DEF Request, OpenAiRequest, AnthropicRequest, LocalRequest, NoRequest, Services

\* A step that changes what p keeps, and nothing of the other processes.
OwnStep(p) ==
    /\ own' = [own EXCEPT ![p] = own'[p]]
    /\ own'[p] \in Owned
    /\ Moves(p, AnalyzePoints) \/ Moves(p, TrainPoints)

LEMMA OwnStepKeepsCommandOK ==
    ASSUME ControlOK, CommandOK, NEW p \in Procs, OwnStep(p), WritingOK(p)',
           modelFile' \in Models \cup {"empty", "torn"}, saved' \subseteq Models,
           log' \in Seq([proc : Procs, number : 1..Pieces])
    PROVE  CommandOK'
<1>1. own' \in [Procs -> Owned]  BY DEF OwnStep, CommandOK, CommandTypeOK
<1>2. ASSUME NEW q \in Procs, q # p  PROVE WritingOK(q)'
  <2>1. pc'[q] = pc[q] /\ own'[q] = own[q]
    BY <1>2 DEF OwnStep, Moves, ControlOK, CommandOK, CommandTypeOK
  <2> QED  BY <2>1 DEF CommandOK, WritingOK
<1> QED  BY <1>1, <1>2 DEF CommandOK, CommandTypeOK

\* What a truncation changes of what p keeps: no more than whether it found
\* another training at the file.
LEMMA TruncateDoes ==
    ASSUME CommandOK, NEW p \in Procs, TruncateModel(p)
    PROVE  \E overlaps \in BOOLEAN :
               /\ overlaps <=> (own[p].overlaps \/ \E q \in Procs : pc[q] = "write_model")
               /\ own' = [own EXCEPT ![p].overlaps = overlaps]
               /\ own' = [own EXCEPT ![p] = [own[p] EXCEPT !.overlaps = overlaps]]
               /\ own'[p] = [own[p] EXCEPT !.overlaps = overlaps]
<1>1. own \in [Procs -> Owned]  BY DEF CommandOK, CommandTypeOK
<1>2. PICK overlaps \in BOOLEAN :
         overlaps = (own[p].overlaps \/ \E q \in Procs : pc[q] = "write_model")
  <2>1. own[p].overlaps \in BOOLEAN  BY <1>1 DEF Owned
  <2> QED  BY <2>1, Zenon
<1>3. own' = [own EXCEPT ![p].overlaps = overlaps]  BY <1>2, Zenon DEF TruncateModel
<1>4. own' = [own EXCEPT ![p] = [own[p] EXCEPT !.overlaps = overlaps]]  BY <1>1, <1>3
<1>5. own'[p] = [own[p] EXCEPT !.overlaps = overlaps]  BY <1>1, <1>4
<1> QED  BY <1>2, <1>3, <1>4, <1>5

LEMMA CommandKeeps ==
    ASSUME ControlOK, CommandOK, NEW p \in Procs,
           CommandStep(p) \/ ServiceReplies(p) \/ SaveFails(p) \/ LogFails(p)
    PROVE  CommandOK'
<1>0. Moves(p, AnalyzePoints) \/ Moves(p, TrainPoints)  BY CommandMoves
<1>1. /\ own \in [Procs -> Owned] /\ own[p] \in Owned /\ WritingOK(p)
      /\ modelFile \in Models \cup {"empty", "torn"} /\ saved \subseteq Models
      /\ log \in Seq([proc : Procs, number : 1..Pieces])
      /\ own = [own EXCEPT ![p] = own[p]]
      /\ pc[p] \in AnalyzePoints \cup TrainPoints
  BY <1>0 DEF CommandOK, CommandTypeOK, Moves
<1>2. \A to : pc' = [pc EXCEPT ![p] = to] => pc'[p] = to  BY DEF ControlOK
<1>3. Pieces \in Nat \ {0} /\ MaxLayers \in Nat  BY SharedAssumption
<1>4. CASE LoadModel(p)
  <2>1. own'[p] = [own[p] EXCEPT !.model = Loaded(modelFile)]  BY <1>1, <1>4 DEF LoadModel
  <2>0. Loaded(modelFile) \in Models  BY <1>1 DEF Loaded, Models
  <2>2. own'[p] \in Owned  BY <1>1, <2>0, <2>1 DEF Owned
  <2>3. WritingOK(p)'  BY <1>1, <1>2, <1>4, <2>1 DEF LoadModel, WritingOK, Goes, Owned
  <2> QED  BY <1>0, <1>1, <1>4, <2>2, <2>3, OwnStepKeepsCommandOK DEF LoadModel, OwnStep
<1>5. CASE ReadData(p) \/ SaveFails(p)
  <2>1. own' = own /\ log' = log
    BY <1>5 DEF ReadData, SaveFails, SavedInPart, commandVars
  <2>2. modelFile' \in Models \cup {"empty", "torn"} /\ saved' \subseteq Models
    BY <1>1, <1>5 DEF ReadData, SaveFails, SavedInPart, Remains, Models, commandVars
  <2>3. WritingOK(p)'
    BY <1>2, <1>5, <2>1, <1>1 DEF ReadData, SaveFails, WritingOK, Goes, Faulty
  <2> QED  BY <1>0, <1>1, <2>1, <2>2, <2>3, OwnStepKeepsCommandOK DEF OwnStep
<1>17. CASE TruncateModel(p)
  <2>1. PICK overlaps \in BOOLEAN :
           /\ own' = [own EXCEPT ![p] = [own[p] EXCEPT !.overlaps = overlaps]]
           /\ own'[p] = [own[p] EXCEPT !.overlaps = overlaps]
    BY <1>17, TruncateDoes
  <2>2. own'[p] \in Owned  BY <1>1, <2>1 DEF Owned
  <2>3. WritingOK(p)'  BY <1>2, <1>17 DEF TruncateModel, WritingOK, Goes
  <2>4. modelFile' = "empty" /\ saved' = saved /\ log' = log  BY <1>17 DEF TruncateModel
  <2>5. OwnStep(p)  BY <1>0, <1>1, <2>1, <2>2, Zenon DEF OwnStep
  <2> QED  BY <1>1, <2>3, <2>4, <2>5, OwnStepKeepsCommandOK
<1>6. CASE WriteModel(p)
  <2>1. own'[p] = [own[p] EXCEPT !.model = p]  BY <1>1, <1>6 DEF WriteModel
  <2>2. own'[p] \in Owned  BY <1>1, <2>1 DEF Owned, Models
  <2>3. WritingOK(p)'  BY <1>2, <1>6 DEF WriteModel, WritingOK, Goes
  <2>4. modelFile' \in Models \cup {"empty", "torn"} /\ saved' \subseteq Models
    BY <1>1, <1>6 DEF WriteModel, Models
  <2> QED  BY <1>0, <1>1, <1>6, <2>2, <2>3, <2>4, OwnStepKeepsCommandOK DEF WriteModel, OwnStep
<1>7. CASE Detect(p)
  <2>1. PICK by \in {"worker", "self"}, found \in BOOLEAN :
           own'[p] = [own[p] EXCEPT !.result =
                   [NoResult EXCEPT !.by = by,
                                    !.model = IF by = "worker" THEN None ELSE own[p].model,
                                    !.context = program[p].context,
                                    !.algorithm = found]]
    BY <1>1, <1>7 DEF Detect
  <2>2. program[p].context \in Contexts
    BY <1>7, AnalyzeProgram DEF Detect, Goes, AnalyzePoints
  <2>3. own'[p].result \in Results
    <3> DEFINE model == IF by = "worker" THEN None ELSE own[p].model
    <3>1. model \in Models  BY <1>1 DEF Owned, Models
    <3>2. [NoResult EXCEPT !.by = by, !.model = model, !.context = program[p].context,
                           !.algorithm = found] \in Results
      <4> HIDE DEF model
      <4> QED  BY <2>2, <3>1, NoResultType DEF Results
    <3> QED  BY <1>1, <2>1, <3>2 DEF Owned
  <2>4. own'[p] \in Owned  BY <1>1, <2>1, <2>3 DEF Owned
  <2>5. WritingOK(p)'  BY <1>1, <1>2, <1>7, <2>1 DEF Detect, WritingOK, Goes, Owned
  <2> QED  BY <1>0, <1>1, <1>7, <2>4, <2>5, OwnStepKeepsCommandOK DEF Detect, OwnStep
<1>8. CASE DetectFails(p) \/ DeepenFails(p) \/ NoNarrative(p) \/ RequestFails(p)
  <2>1. UNCHANGED commandVars
    BY <1>8 DEF DetectFails, DeepenFails, NoNarrative, RequestFails
  <2>2. WritingOK(p)'
    BY <1>2, <1>8, <2>1
    DEF DetectFails, DeepenFails, NoNarrative, RequestFails, WritingOK, Goes
  <2> QED  BY <1>0, <1>1, <2>1, <2>2, OwnStepKeepsCommandOK DEF OwnStep, commandVars
<1>9. CASE Deepen(p)
  <2>0. PICK n \in IF Deepens(p) THEN 0..MaxLayers ELSE {0} :
           own' = [own EXCEPT ![p].result.layers = n]
    BY <1>9 DEF Deepen
  <2>1. n \in 0..MaxLayers  BY <1>3, <2>0
  <2>2. own'[p] = [own[p] EXCEPT !.result = [own[p].result EXCEPT !.layers = n]]
    BY <1>1, <2>0 DEF Owned
  <2>5. [own[p].result EXCEPT !.layers = n] \in Results
    <3>1. own[p].result \in Results  BY <1>1 DEF Owned
    <3> QED  BY <2>1, <3>1 DEF Results
  <2>3. own'[p] \in Owned  BY <1>1, <2>2, <2>5 DEF Owned
  <2>4. WritingOK(p)'  BY <1>1, <1>2, <1>9, <2>2 DEF Deepen, WritingOK, Goes, Owned
  <2> QED  BY <1>0, <1>1, <1>9, <2>3, <2>4, OwnStepKeepsCommandOK DEF Deepen, OwnStep
<1>10. CASE OpenLog(p)
  <2>1. own'[p] = [own[p] EXCEPT !.entry = own[p].result]  BY <1>1, <1>10 DEF OpenLog
  <2>2. own'[p] \in Owned  BY <1>1, <2>1 DEF Owned
  <2>3. WritingOK(p)'  BY <1>1, <1>2, <1>3, <1>10, <2>1 DEF OpenLog, WritingOK, Goes, Owned
  <2> QED  BY <1>0, <1>1, <1>10, <2>2, <2>3, OwnStepKeepsCommandOK DEF OpenLog, OwnStep
<1>11. CASE WriteEntry(p)
  <2> DEFINE n == own[p].written + 1
  <2>1. own'[p] = [own[p] EXCEPT !.written = n]  BY <1>1, <1>11 DEF WriteEntry
  <2>2. own[p].written \in 0..Pieces /\ n \in 1..Pieces /\ n \in 0..Pieces
    BY <1>1, <1>3, <1>11 DEF WriteEntry, Goes, WritingOK, Owned
  <2>7. pc'[p] = IF n = Pieces THEN "narrate" ELSE "write_entry"
    BY <1>2, <1>11 DEF WriteEntry, Goes
  <2> HIDE DEF n
  <2>3. own'[p] \in Owned  BY <1>1, <2>1, <2>2 DEF Owned
  <2>8. own'[p].written = n  BY <1>1, <2>1 DEF Owned
  <2>4. WritingOK(p)'  BY <1>3, <2>2, <2>7, <2>8 DEF WritingOK
  <2>5. log' = Append(log, [proc |-> p, number |-> n])  BY <1>11 DEF WriteEntry, AtTheEnd, n
  <2>6. log' \in Seq([proc : Procs, number : 1..Pieces])  BY <1>1, <2>2, <2>5
  <2> QED  BY <1>0, <1>1, <1>11, <2>3, <2>4, <2>6, OwnStepKeepsCommandOK DEF WriteEntry, OwnStep
<1>12. CASE LogFails(p)
  <2>1. own'[p] = [own[p] EXCEPT !.logs = FALSE]  BY <1>1, <1>12 DEF LogFails
  <2>2. own'[p] \in Owned  BY <1>1, <2>1 DEF Owned
  <2>3. WritingOK(p)'  BY <1>2, <1>12 DEF LogFails, WritingOK, Faulty
  <2> QED  BY <1>0, <1>1, <1>12, <2>2, <2>3, OwnStepKeepsCommandOK DEF LogFails, OwnStep
<1>13. CASE AskService(p)
  <2> DEFINE request == Request(Config(program[p].settings))
  <2>1. own'[p] = [own[p] EXCEPT !.request = request]  BY <1>1, <1>13 DEF AskService
  <2>2. request \in [service : {None} \cup Services, key : {None} \cup Services,
                     model : {None, "gpt-4o", "chosen"}]
    BY <1>13, RequestType, AnalyzeProgram DEF AskService, Goes, AnalyzePoints
  <2>3. own'[p] \in Owned  BY <1>1, <2>1, <2>2 DEF Owned
  <2>4. WritingOK(p)'  BY <1>2, <1>13 DEF AskService, WritingOK, Goes
  <2> QED  BY <1>0, <1>1, <1>13, <2>3, <2>4, OwnStepKeepsCommandOK DEF AskService, OwnStep
<1>14. CASE ServiceReplies(p)
  <2>1. PICK r \in Replies : own' = [own EXCEPT ![p].reply = r]  BY <1>14 DEF ServiceReplies
  <2>2. own'[p] = [own[p] EXCEPT !.reply = r]  BY <1>1, <2>1
  <2>3. own'[p] \in Owned  BY <1>1, <2>2, SharedAssumption DEF Owned
  <2>4. WritingOK(p)'  BY <1>2, <1>14 DEF ServiceReplies, WritingOK, Goes
  <2> QED  BY <1>0, <1>1, <1>14, <2>3, <2>4, OwnStepKeepsCommandOK DEF ServiceReplies, OwnStep
<1>15. CASE Receive(p)
  <2> DEFINE narrative == IF own[p].reply.shape = own[p].request.service
                          THEN Validated(own[p].reply.content)
                          ELSE own[p].result.narrative
  <2>1. own'[p] = [own[p] EXCEPT !.reply = NoReply,
                                 !.result = [own[p].result EXCEPT !.narrative = narrative]]
    BY <1>1, <1>15 DEF Receive, Owned
  <2>2. own[p].reply.content \in Contents /\ own[p].result \in Results
    BY <1>1 DEF Owned, Answers
  <2>3. narrative \in {NoResult.narrative} \cup [Fields -> Texts]
    BY <2>2, ValidatedType DEF Results
  <2>4. [own[p].result EXCEPT !.narrative = narrative] \in Results
    BY <2>2, <2>3 DEF Results
  <2>5. own'[p] \in Owned  BY <1>1, <2>1, <2>4, FreshType DEF Owned, Fresh
  <2>6. WritingOK(p)'  BY <1>2, <1>15 DEF Receive, WritingOK, Goes
  <2>7. own' = [own EXCEPT ![p] = own'[p]] /\ UNCHANGED <<modelFile, saved, log>>
    BY <1>1, <1>15 DEF Receive
  <2> QED  BY <1>0, <1>1, <2>5, <2>6, <2>7, OwnStepKeepsCommandOK DEF OwnStep
<1>16. CASE PrintResult(p)
  <2>1. own'[p] = [own[p] EXCEPT !.printed = own[p].result]  BY <1>1, <1>16 DEF PrintResult
  <2>2. own'[p] \in Owned  BY <1>1, <2>1 DEF Owned
  <2>3. WritingOK(p)'  BY <1>2, <1>16 DEF PrintResult, WritingOK, Goes
  <2> QED  BY <1>0, <1>1, <1>16, <2>2, <2>3, OwnStepKeepsCommandOK DEF PrintResult, OwnStep
<1> QED
  BY <1>4, <1>5, <1>6, <1>7, <1>8, <1>9, <1>10, <1>11, <1>12, <1>13, <1>14, <1>15, <1>16, <1>17
  DEF CommandStep

LEMMA CommandStays ==
    ASSUME ControlOK, CommandOK, NEW p \in Procs, UNCHANGED commandVars,
           NEW points \in KindsOfPoints \ {AnalyzePoints}, Moves(p, points)
    PROVE  CommandOK'
<1>1. pc'[p] \notin {"analyze", "detect", "deepen", "open_log", "write_entry"}
  BY DEF Moves, KindsOfPoints, TrainPoints, ScanPoints, LoadPoints, ExportPoints, Ended
<1>2. WritingOK(p)'  BY <1>1 DEF WritingOK
<1>3. ASSUME NEW q \in Procs, q # p  PROVE WritingOK(q)'
  <2>1. pc'[q] = pc[q] /\ own'[q] = own[q]  BY <1>3 DEF Moves, ControlOK, commandVars
  <2> QED  BY <2>1 DEF CommandOK, WritingOK
<1> QED  BY <1>2, <1>3 DEF CommandOK, CommandTypeOK, commandVars

LEMMA CommandKilledKeeps ==
    ASSUME ControlOK, CommandOK, NEW p \in Procs, Killed(p), CommandKilled(p)
    PROVE  CommandOK'
<1>1. /\ own' = own /\ log' = log /\ saved' \subseteq saved \cup {p}
      /\ modelFile' \in {modelFile, "torn", "mixed", p, "empty"}
  BY DEF CommandKilled, SavedInPart, Remains, commandVars
<1>2. ASSUME NEW q \in Procs  PROVE WritingOK(q)'
  <2>1. pc'[q] \in {pc[q], "killed"} /\ own'[q] = own[q]  BY <1>1 DEF Killed, ControlOK
  <2> QED  BY <2>1 DEF CommandOK, WritingOK
<1> QED  BY <1>1, <1>2 DEF CommandOK, CommandTypeOK, Models

LEMMA CommandNext ==
    ASSUME ControlOK, CommandOK, [Next]_vars
    PROVE  CommandOK'
<1>1. CASE UNCHANGED vars
  BY <1>1 DEF vars, processVars, commandVars, CommandOK, CommandTypeOK, WritingOK
<1>2. ASSUME NEW p \in Procs, Step(p)  PROVE CommandOK'
  <2>1. CommandDoes(p) \/ (UNCHANGED commandVars /\ Elsewhere(p, {AnalyzePoints, TrainPoints}))
    BY <1>2, Split
  <2>2. CASE CommandDoes(p)  BY <2>2, CommandKeeps, CommandKilledKeeps DEF CommandDoes
  <2>3. CASE UNCHANGED commandVars /\ Elsewhere(p, {AnalyzePoints, TrainPoints})
    BY <2>3, CommandStays DEF Elsewhere
  <2> QED  BY <2>1, <2>2, <2>3
<1> QED  BY <1>1, <1>2, Steps

LEMMA CommandInitOK ==
    ASSUME Init
    PROVE  CommandOK
<1>1. own \in [Procs -> Owned] /\ \A p \in Procs : own[p].written = 0
  BY FreshType DEF Init, CommandInit, Fresh
<1>2. modelFile \in Models /\ saved \subseteq Models /\ log = <<>>
  BY DEF Init, CommandInit, Models, None
<1> QED  BY <1>1, <1>2, SharedAssumption DEF CommandOK, CommandTypeOK, WritingOK

LEMMA CommandIsOK == Spec => [](ControlOK /\ CommandOK)
<1>1. Init => ControlOK /\ CommandOK  BY ControlInit, CommandInitOK
<1>2. ControlOK /\ CommandOK /\ [Next]_vars => (ControlOK /\ CommandOK)'
  BY ControlStep, CommandNext
<1> QED  BY <1>1, <1>2, PTL DEF Spec

-----------------------------------------------------------------------------
(* The audit log.                                                          *)

LEMMA Appends ==
    ASSUME [Next]_vars
    PROVE  log' = log \/ \E piece : log' = Append(log, piece)
  BY DEF Next, vars, commandVars, Command, Service, Scan, Load, Export, Fault, Kill, CommandStep,
         ServiceReplies, SaveFails, LogFails, CommandKilled, SavedInPart, LoadModel, ReadData,
         TruncateModel, WriteModel, Detect, DetectFails, Deepen, DeepenFails, OpenLog, WriteEntry,
         AskService, NoNarrative, RequestFails, Receive, PrintResult, AtTheEnd

\* Every write to the audit log, by any analysis that goes on, fails or is
\* killed, leaves what was there (audit.rs, ensure_audit_file: append mode).
THEOREM LogOnlyGrows == Spec => AuditLogOnlyGrows
<1>1. CommandOK /\ [Next]_vars => [IsPrefix(log, log')]_log
  <2> SUFFICES ASSUME CommandOK, [Next]_vars, log' # log  PROVE IsPrefix(log, log')
    OBVIOUS
  <2>1. PICK piece : log' = Append(log, piece)  BY Appends
  <2>2. log \in Seq([proc : Procs, number : 1..Pieces])  BY DEF CommandOK, CommandTypeOK
  <2>3. Len(log') = Len(log) + 1 /\ \A i \in 1..Len(log) : log'[i] = log[i]
    BY <2>1, <2>2
  <2> QED  BY <2>1, <2>2, <2>3 DEF IsPrefix
<1> QED  BY <1>1, CommandIsOK, PTL DEF Spec, AuditLogOnlyGrows

\* What of p is in the log: the first pieces it has counted, in their order.
Entries(p) ==
    /\ \A i \in DOMAIN log : log[i].proc = p => log[i].number <= own[p].written
    /\ \A n \in 1..own[p].written : \E i \in DOMAIN log : log[i] = [proc |-> p, number |-> n]
    /\ InOrder(p)

NoNarrativeIn(result) == [result EXCEPT !.narrative = NoResult.narrative]

\* What p has put into its entry at each point of an analysis.
Stages(p) ==
    /\ pc[p] \in {"analyze", "detect", "deepen", "open_log"} =>
        own[p].result.narrative = NoResult.narrative
    /\ pc[p] \in {"write_entry", "narrate", "asking", "answered", "print"} /\ own[p].logs =>
        own[p].entry = NoNarrativeIn(own[p].result)
    /\ pc[p] \in {"narrate", "asking", "answered", "print"} /\ own[p].logs =>
        own[p].written = Pieces
    /\ pc[p] \in AnalyzePoints \cup TrainPoints => own[p].printed = NoResult
    /\ own[p].printed # NoResult /\ own[p].logs =>
        own[p].written = Pieces /\ own[p].entry = NoNarrativeIn(own[p].printed)

LoggedInv == \A p \in Procs : Entries(p) /\ Stages(p)

LEMMA EntriesOf ==
    ASSUME CommandOK, NEW p \in Procs, NEW q \in Procs, Entries(q),
           \/ log' = log /\ own'[q].written = own[q].written
           \/ /\ log' = Append(log, [proc |-> p, number |-> own[p].written + 1])
              /\ own'[q].written = IF q = p THEN own[p].written + 1 ELSE own[q].written
    PROVE  Entries(q)'
<1>1. CASE log' = log /\ own'[q].written = own[q].written
  BY <1>1 DEF Entries, InOrder
<1>2. CASE /\ log' = Append(log, [proc |-> p, number |-> own[p].written + 1])
           /\ own'[q].written = IF q = p THEN own[p].written + 1 ELSE own[q].written
  <2> DEFINE n == own[p].written + 1
             last == Len(log) + 1
  <2>1. log \in Seq([proc : Procs, number : 1..Pieces])  BY DEF CommandOK, CommandTypeOK
  <2>2. own[p].written \in Nat /\ own[q].written \in Nat
    BY SharedAssumption DEF CommandOK, CommandTypeOK, Owned
  <2>3. /\ DOMAIN log' = 1..last /\ DOMAIN log = 1..Len(log) /\ Len(log) \in Nat
        /\ log'[last] = [proc |-> p, number |-> n]
        /\ \A i \in DOMAIN log : log'[i] = log[i] /\ log[i].number \in Nat
    <3> DEFINE piece == [proc |-> p, number |-> n]
    <3>1. log' = Append(log, piece)  BY <1>2
    <3>2. \A i \in 1..Len(log) : log[i].number \in Nat
      <4>1. SUFFICES ASSUME NEW i \in 1..Len(log)  PROVE log[i].number \in Nat
        OBVIOUS
      <4>2. log[i] \in [proc : Procs, number : 1..Pieces]
        <5> HIDE DEF piece
        <5> QED  BY <2>1, ElementOfSeq
      <4>3. log[i].number \in 1..Pieces /\ Pieces \in Nat  BY <4>2, SharedAssumption
      <4> QED  BY <4>3
    <3> HIDE DEF piece
    <3>3. /\ DOMAIN log' = 1..last /\ DOMAIN log = 1..Len(log) /\ Len(log) \in Nat
          /\ log'[last] = piece /\ \A i \in 1..Len(log) : log'[i] = log[i]
      BY <2>1, <3>1
    <3> QED  BY <3>2, <3>3 DEF piece
  <2>4. log'[last].proc = p /\ log'[last].number = n  BY <2>3
  <2>5. \A i \in DOMAIN log' : i = last \/ i \in DOMAIN log  BY <2>3
  <2> HIDE DEF last
  <2>6. \A i \in DOMAIN log' : log'[i].proc = q => log'[i].number <= own'[q].written
    BY <1>2, <2>2, <2>3, <2>4, <2>5 DEF Entries
  <2>7. ASSUME NEW m \in 1..own'[q].written
        PROVE  \E i \in DOMAIN log' : log'[i] = [proc |-> q, number |-> m]
    <3>1. CASE m \in 1..own[q].written
      <4>1. PICK i \in DOMAIN log : log[i] = [proc |-> q, number |-> m]
        BY <3>1 DEF Entries
      <4>2. i \in DOMAIN log' /\ log'[i] = log[i]  BY <2>3, <4>1 DEF last
      <4> QED  BY <4>1, <4>2
    <3>2. CASE m \notin 1..own[q].written
      <4>1. q = p /\ m = n  BY <1>2, <2>2, <3>2
      <4>2. last \in DOMAIN log'  BY <2>3 DEF last
      <4> QED  BY <2>3, <4>1, <4>2
    <3> QED  BY <3>1, <3>2
  <2>8. InOrder(q)'
    <3> SUFFICES ASSUME NEW i \in DOMAIN log', NEW j \in DOMAIN log', i < j,
                        log'[i].proc = q, log'[j].proc = q
                 PROVE  log'[i].number < log'[j].number
      BY DEF InOrder
    <3>1. i \in DOMAIN log  BY <2>3, <2>5 DEF last
    <3>2. CASE j \in DOMAIN log  BY <2>3, <3>1, <3>2 DEF Entries, InOrder
    <3>3. CASE j = last
      <4>1. q = p /\ log[i].number <= own[p].written  BY <2>3, <2>4, <3>1, <3>3 DEF Entries
      <4> QED  BY <2>2, <2>3, <2>4, <3>1, <3>3, <4>1
    <3> QED  BY <2>5, <3>2, <3>3
  <2> QED  BY <2>6, <2>7, <2>8 DEF Entries
<1> QED  BY <1>1, <1>2

\* What a step of an analysis or a training does to what p keeps.
LEMMA StagesOf ==
    ASSUME ControlOK, CommandOK, NEW p \in Procs, Stages(p),
           CommandStep(p) \/ ServiceReplies(p) \/ SaveFails(p) \/ LogFails(p)
    PROVE  Stages(p)'
<1>1. /\ own[p] \in Owned /\ own \in [Procs -> Owned] /\ WritingOK(p)
      /\ own[p].result \in Results /\ own[p].written \in 0..Pieces
  BY DEF CommandOK, CommandTypeOK, Owned
<1>2. \A to : pc' = [pc EXCEPT ![p] = to] => pc'[p] = to  BY DEF ControlOK
<1>3. pc[p] \in AnalyzePoints \cup TrainPoints /\ own[p].printed = NoResult
  BY CommandMoves DEF Moves, Stages
<1>4. \A record : own' = [own EXCEPT ![p] = record] => own'[p] = record  BY <1>1
<1> USE DEF Goes, Faulty
<1>5. CASE LoadModel(p)
  <2>1. own'[p] = [own[p] EXCEPT !.model = Loaded(modelFile)]  BY <1>4, <1>5 DEF LoadModel
  <2>2. pc'[p] \in {"detect", "read_data"} /\ pc[p] \in {"analyze", "train"}
    BY <1>2, <1>5 DEF LoadModel
  <2>3. (pc[p] = "analyze") = (pc'[p] = "detect")  BY <1>2, <1>5 DEF LoadModel
  <2> QED  BY <1>1, <1>3, <2>1, <2>2, <2>3 DEF Stages, Owned
<1>6. CASE ReadData(p) \/ SaveFails(p)
  <2>1. own' = own
    BY <1>6 DEF ReadData, SaveFails, SavedInPart, commandVars
  <2>2. pc'[p] \in {"save_model", "failed"}
    BY <1>2, <1>6 DEF ReadData, SaveFails
  <2> QED  BY <1>3, <2>1, <2>2 DEF Stages
<1>18. CASE TruncateModel(p)
  <2>1. PICK overlaps \in BOOLEAN : own'[p] = [own[p] EXCEPT !.overlaps = overlaps]
    BY <1>18, TruncateDoes
  <2>2. pc'[p] = "write_model"  BY <1>2, <1>18 DEF TruncateModel
  <2>3. own'[p].printed = own[p].printed  BY <1>1, <2>1 DEF Owned
  <2> QED  BY <1>3, <2>2, <2>3 DEF Stages
<1>7. CASE WriteModel(p)
  <2>1. own'[p] = [own[p] EXCEPT !.model = p] /\ pc'[p] = "done"
    BY <1>2, <1>4, <1>7 DEF WriteModel
  <2> QED  BY <1>1, <1>3, <2>1 DEF Stages, Owned, AnalyzePoints, TrainPoints
<1>8. CASE Detect(p)
  <2>1. PICK by \in {"worker", "self"}, found \in BOOLEAN :
           own'[p] = [own[p] EXCEPT !.result =
                   [NoResult EXCEPT !.by = by,
                                    !.model = IF by = "worker" THEN None ELSE own[p].model,
                                    !.context = program[p].context,
                                    !.algorithm = found]]
    BY <1>1, <1>8 DEF Detect
  <2>2. own'[p].result.narrative = NoResult.narrative /\ own'[p].printed = own[p].printed
    <3> DEFINE model == IF by = "worker" THEN None ELSE own[p].model
               result == [NoResult EXCEPT !.by = by, !.model = model,
                                          !.context = program[p].context, !.algorithm = found]
    <3>1. own'[p].result = result /\ own'[p].printed = own[p].printed
      <4> HIDE DEF result
      <4>1. own'[p] = [own[p] EXCEPT !.result = result]  BY <2>1 DEF result
      <4> QED  BY <1>1, <4>1 DEF Owned
    <3>2. result.narrative = NoResult.narrative
      <4> HIDE DEF model
      <4> QED  BY NoResultType DEF Results
    <3> QED  BY <3>1, <3>2
  <2>3. pc'[p] = "deepen"  BY <1>2, <1>8 DEF Detect
  <2> QED  BY <1>3, <2>2, <2>3 DEF Stages
<1>9. CASE DetectFails(p) \/ DeepenFails(p)
  <2>1. own' = own  BY <1>9 DEF DetectFails, DeepenFails, commandVars
  <2>2. pc'[p] = "failed"  BY <1>2, <1>9 DEF DetectFails, DeepenFails
  <2> QED  BY <1>3, <2>1, <2>2 DEF Stages, AnalyzePoints, TrainPoints
<1>10. CASE NoNarrative(p) \/ RequestFails(p)
  <2>1. own' = own  BY <1>10 DEF NoNarrative, RequestFails, commandVars
  <2>2. pc'[p] = "print" /\ pc[p] \in {"narrate", "asking"}
    BY <1>2, <1>10 DEF NoNarrative, RequestFails
  <2> QED  BY <1>3, <2>1, <2>2 DEF Stages
<1>11. CASE Deepen(p)
  <2>1. PICK n : own' = [own EXCEPT ![p].result.layers = n]  BY <1>11 DEF Deepen
  <2>2. own'[p] = [own[p] EXCEPT !.result = [own[p].result EXCEPT !.layers = n]]
    BY <1>1, <2>1 DEF Owned
  <2>3. own'[p].result.narrative = own[p].result.narrative /\ own'[p].printed = own[p].printed
    BY <1>1, <2>2 DEF Owned, Results
  <2>4. pc'[p] = "open_log" /\ pc[p] = "deepen"  BY <1>2, <1>11 DEF Deepen
  <2> QED  BY <1>3, <2>3, <2>4 DEF Stages
<1>12. CASE OpenLog(p)
  <2>1. own'[p] = [own[p] EXCEPT !.entry = own[p].result]  BY <1>4, <1>12 DEF OpenLog
  <2>2. pc'[p] = "write_entry" /\ pc[p] = "open_log"  BY <1>2, <1>12 DEF OpenLog
  <2>3. own[p].result = NoNarrativeIn(own[p].result)
    BY <1>1, <2>2 DEF Stages, NoNarrativeIn, Results
  <2>4. /\ own'[p].entry = own[p].result /\ own'[p].result = own[p].result
        /\ own'[p].printed = own[p].printed
    BY <1>1, <2>1 DEF Owned
  <2> QED  BY <1>3, <2>2, <2>3, <2>4 DEF Stages
<1>13. CASE WriteEntry(p)
  <2>1. own'[p] = [own[p] EXCEPT !.written = own[p].written + 1]
    BY <1>4, <1>13 DEF WriteEntry
  <2>2. /\ pc[p] = "write_entry"
        /\ pc'[p] = IF own[p].written + 1 = Pieces THEN "narrate" ELSE "write_entry"
    BY <1>2, <1>13 DEF WriteEntry
  <2>3. /\ own'[p].entry = own[p].entry /\ own'[p].result = own[p].result
        /\ own'[p].printed = own[p].printed /\ own'[p].logs = own[p].logs
        /\ own'[p].written = own[p].written + 1
    BY <1>1, <2>1 DEF Owned
  <2> QED  BY <1>3, <2>2, <2>3 DEF Stages
<1>14. CASE LogFails(p)
  <2>1. own'[p] = [own[p] EXCEPT !.logs = FALSE]  BY <1>4, <1>14 DEF LogFails
  <2>2. pc'[p] = "narrate"  BY <1>2, <1>14 DEF LogFails
  <2>3. own'[p].printed = own[p].printed /\ own'[p].logs = FALSE  BY <1>1, <2>1 DEF Owned
  <2> QED  BY <1>3, <2>2, <2>3 DEF Stages
<1>15. CASE AskService(p) \/ ServiceReplies(p)
  <2>1. /\ pc[p] \in {"narrate", "asking"} /\ pc'[p] \in {"asking", "answered"}
        /\ own'[p].entry = own[p].entry /\ own'[p].result = own[p].result
        /\ own'[p].printed = own[p].printed /\ own'[p].logs = own[p].logs
        /\ own'[p].written = own[p].written
    <3>1. CASE AskService(p)
      <4>1. own'[p] = [own[p] EXCEPT !.request = Request(Config(program[p].settings))]
        BY <1>4, <3>1 DEF AskService
      <4> QED  BY <1>1, <1>2, <3>1, <4>1 DEF AskService, Owned
    <3>2. CASE ServiceReplies(p)
      <4>1. PICK r : own' = [own EXCEPT ![p].reply = r]  BY <3>2 DEF ServiceReplies
      <4>2. own'[p] = [own[p] EXCEPT !.reply = r]  BY <1>1, <4>1
      <4> QED  BY <1>1, <1>2, <3>2, <4>2 DEF ServiceReplies, Owned
    <3> QED  BY <1>15, <3>1, <3>2
  <2> QED  BY <1>3, <2>1 DEF Stages
<1>16. CASE Receive(p)
  <2> DEFINE narrative == IF own[p].reply.shape = own[p].request.service
                          THEN Validated(own[p].reply.content)
                          ELSE own[p].result.narrative
  <2>1. own'[p] = [own[p] EXCEPT !.reply = NoReply,
                                 !.result = [own[p].result EXCEPT !.narrative = narrative]]
    BY <1>1, <1>16 DEF Receive, Owned
  <2>2. pc[p] = "answered" /\ pc'[p] = "print"  BY <1>2, <1>16 DEF Receive
  <2> HIDE DEF narrative
  <2>3. /\ own'[p].entry = own[p].entry /\ own'[p].printed = own[p].printed
        /\ own'[p].logs = own[p].logs /\ own'[p].written = own[p].written
        /\ NoNarrativeIn(own'[p].result) = NoNarrativeIn(own[p].result)
    <3> DEFINE result == [own[p].result EXCEPT !.narrative = narrative]
    <3>1. NoNarrativeIn(result) = NoNarrativeIn(own[p].result)
      BY <1>1 DEF Results, NoNarrativeIn
    <3>2. own'[p] = [own[p] EXCEPT !.reply = NoReply, !.result = result]  BY <2>1
    <3> HIDE DEF result
    <3> QED  BY <1>1, <3>1, <3>2 DEF Owned
  <2> QED  BY <1>3, <2>2, <2>3 DEF Stages
<1>17. CASE PrintResult(p)
  <2>1. own'[p] = [own[p] EXCEPT !.printed = own[p].result]  BY <1>4, <1>17 DEF PrintResult
  <2>2. pc[p] = "print" /\ pc'[p] = "done"  BY <1>2, <1>17 DEF PrintResult
  <2>3. /\ own'[p].entry = own[p].entry /\ own'[p].printed = own[p].result
        /\ own'[p].logs = own[p].logs /\ own'[p].written = own[p].written
    BY <1>1, <2>1 DEF Owned
  <2> QED  BY <1>3, <2>2, <2>3 DEF Stages, AnalyzePoints, TrainPoints
<1> QED
  BY <1>5, <1>6, <1>7, <1>8, <1>9, <1>10, <1>11, <1>12, <1>13, <1>14, <1>15, <1>16, <1>17, <1>18
  DEF CommandStep

\* How a step of p adds to the log and counts what it adds.
LEMMA LogWritten ==
    ASSUME CommandOK, NEW p \in Procs, CommandDoes(p), NEW q \in Procs
    PROVE  \/ log' = log /\ own'[q].written = own[q].written
           \/ /\ log' = Append(log, [proc |-> p, number |-> own[p].written + 1])
              /\ own'[q].written = IF q = p THEN own[p].written + 1 ELSE own[q].written
<1>1. own \in [Procs -> Owned] /\ own[p] \in Owned /\ own[q] \in Owned
  BY DEF CommandOK, CommandTypeOK
<1>2. CASE WriteEntry(p)
  <2>1. /\ log' = Append(log, [proc |-> p, number |-> own[p].written + 1])
        /\ own' = [own EXCEPT ![p].written = own[p].written + 1]
    BY <1>2 DEF WriteEntry, AtTheEnd
  <2>2. own'[p].written = own[p].written + 1  BY <1>1, <2>1 DEF Owned
  <2>3. q # p => own'[q] = own[q]  BY <1>1, <2>1
  <2> QED  BY <2>1, <2>2, <2>3
<1>3. CASE CommandDoes(p) /\ ~WriteEntry(p)
  <2>1. log' = log
    BY <1>3
    DEF CommandDoes, commandVars, CommandStep, ServiceReplies, SaveFails, LogFails, CommandKilled,
        SavedInPart, LoadModel, ReadData, TruncateModel, WriteModel, Detect, DetectFails, Deepen,
        DeepenFails, OpenLog, AskService, NoNarrative, RequestFails, Receive, PrintResult
  <2> USE DEF Owned
  <2>2. CASE ReadData(p) \/ DetectFails(p) \/ DeepenFails(p) \/ NoNarrative(p)
             \/ RequestFails(p) \/ SaveFails(p) \/ CommandKilled(p)
    BY <2>1, <2>2
    DEF ReadData, DetectFails, DeepenFails, NoNarrative, RequestFails, SaveFails,
        CommandKilled, SavedInPart, commandVars
  <2>3. CASE LoadModel(p)  BY <1>1, <2>1, <2>3 DEF LoadModel
  <2>4. CASE WriteModel(p)  BY <1>1, <2>1, <2>4 DEF WriteModel
  <2>5. CASE Detect(p)
    <3>1. PICK result : own' = [own EXCEPT ![p].result = result]  BY <2>5 DEF Detect
    <3> QED  BY <1>1, <2>1, <3>1
  <2>6. CASE Deepen(p)
    <3>1. PICK n : own' = [own EXCEPT ![p].result.layers = n]  BY <2>6 DEF Deepen
    <3> QED  BY <1>1, <2>1, <3>1
  <2>7. CASE OpenLog(p)  BY <1>1, <2>1, <2>7 DEF OpenLog
  <2>8. CASE LogFails(p)  BY <1>1, <2>1, <2>8 DEF LogFails
  <2>9. CASE AskService(p)  BY <1>1, <2>1, <2>9 DEF AskService
  <2>10. CASE ServiceReplies(p)
    <3>1. PICK r : own' = [own EXCEPT ![p].reply = r]  BY <2>10 DEF ServiceReplies
    <3> QED  BY <1>1, <2>1, <3>1
  <2>11. CASE Receive(p)  BY <1>1, <2>1, <2>11 DEF Receive
  <2>12. CASE PrintResult(p)  BY <1>1, <2>1, <2>12 DEF PrintResult
  <2>13. CASE TruncateModel(p)
    <3>1. PICK overlaps : own' = [own EXCEPT ![p].overlaps = overlaps]  BY <2>13, TruncateDoes
    <3> QED  BY <1>1, <2>1, <3>1
  <2> QED
    BY <1>3, <2>2, <2>3, <2>4, <2>5, <2>6, <2>7, <2>8, <2>9, <2>10, <2>11, <2>12, <2>13
    DEF CommandDoes, CommandStep
<1> QED  BY <1>2, <1>3

\* What p keeps is kept by the others, and by p where it ends or runs no
\* analysis and no training.
LEMMA StagesElsewhere ==
    ASSUME ControlOK, NEW p \in Procs, Stages(p), own'[p] = own[p],
           pc'[p] = pc[p] \/ pc'[p] \notin AnalyzePoints \cup TrainPoints
    PROVE  Stages(p)'
<1>1. CASE pc'[p] = pc[p]  BY <1>1 DEF Stages
<1>2. CASE pc'[p] \notin AnalyzePoints \cup TrainPoints
  BY <1>2 DEF Stages, AnalyzePoints
<1> QED  BY <1>1, <1>2

LEMMA OthersKeepOwn ==
    ASSUME ControlOK, CommandOK, NEW p \in Procs, NEW q \in Procs, q # p,
           CommandDoes(p) \/ UNCHANGED commandVars
    PROVE  own'[q] = own[q]
<1>1. own \in [Procs -> Owned]  BY DEF CommandOK, CommandTypeOK
<1>2. CASE CommandStep(p) /\ ~TruncateModel(p)
  BY <1>1, <1>2
  DEF CommandStep, commandVars, LoadModel, ReadData, WriteModel, Detect,
      DetectFails, Deepen, DeepenFails, OpenLog, WriteEntry, AskService, NoNarrative,
      RequestFails, Receive, PrintResult
<1>4. CASE TruncateModel(p)
  <2>1. PICK overlaps : own' = [own EXCEPT ![p].overlaps = overlaps]  BY <1>4, TruncateDoes
  <2> QED  BY <1>1, <2>1
<1>3. CASE ServiceReplies(p) \/ SaveFails(p) \/ LogFails(p) \/ CommandKilled(p)
  BY <1>1, <1>3
  DEF ServiceReplies, SaveFails, LogFails, CommandKilled, SavedInPart, commandVars
<1> QED  BY <1>2, <1>3, <1>4 DEF CommandDoes, commandVars

\* Of any step, the processes it does not move.
LEMMA OthersStay ==
    ASSUME ControlOK, NEW p \in Procs, Step(p), NEW q \in Procs, q # p
    PROVE  pc'[q] = pc[q]
<1>1. Killed(p) \/ \E points \in KindsOfPoints : Moves(p, points)  BY Split
<1> QED  BY <1>1, KilledEnds DEF Moves, ControlOK

LEMMA LoggedNext ==
    ASSUME ControlOK, CommandOK, LoggedInv, [Next]_vars
    PROVE  LoggedInv'
<1>1. CASE UNCHANGED vars
  BY <1>1 DEF vars, processVars, commandVars, LoggedInv, Entries, InOrder, Stages
<1>2. ASSUME NEW p \in Procs, Step(p)  PROVE LoggedInv'
  <2>1. CommandDoes(p) \/ (UNCHANGED commandVars /\ Elsewhere(p, {AnalyzePoints, TrainPoints}))
    BY <1>2, Split
  <2>2. ASSUME NEW q \in Procs  PROVE Entries(q)'
    <3>1. Entries(q)  BY DEF LoggedInv
    <3>2. CASE CommandDoes(p)  BY <3>1, <3>2, LogWritten, EntriesOf
    <3>3. CASE UNCHANGED commandVars  BY <3>1, <3>3, EntriesOf DEF commandVars
    <3> QED  BY <2>1, <3>2, <3>3
  <2>3. ASSUME NEW q \in Procs, q # p  PROVE Stages(q)'
    <3>1. Stages(q)  BY DEF LoggedInv
    <3>2. own'[q] = own[q]  BY <2>1, <2>3, OthersKeepOwn
    <3>3. pc'[q] = pc[q]  BY <1>2, <2>3, OthersStay
    <3> QED  BY <3>1, <3>2, <3>3, StagesElsewhere
  <2>4. Stages(p)'
    <3>0. Stages(p)  BY DEF LoggedInv
    <3>1. CASE CommandStep(p) \/ ServiceReplies(p) \/ SaveFails(p) \/ LogFails(p)
      BY <3>0, <3>1, StagesOf
    <3>2. CASE Killed(p) /\ CommandKilled(p)
      <4>1. own' = own  BY <3>2 DEF CommandKilled, SavedInPart, commandVars
      <4>2. pc'[p] = "killed"  BY <3>2 DEF Killed, ControlOK
      <4>3. pc'[p] \notin AnalyzePoints \cup TrainPoints
        BY <4>2 DEF AnalyzePoints, TrainPoints
      <4> QED  BY <3>0, <4>1, <4>3, StagesElsewhere
    <3>3. CASE UNCHANGED commandVars /\ Elsewhere(p, {AnalyzePoints, TrainPoints})
      <4>1. PICK points \in KindsOfPoints \ {AnalyzePoints, TrainPoints} : Moves(p, points)
        BY <3>3 DEF Elsewhere
      <4>2. pc'[p] \notin AnalyzePoints \cup TrainPoints
        BY <4>1
        DEF Moves, KindsOfPoints, AnalyzePoints, TrainPoints, ScanPoints, LoadPoints,
            ExportPoints, Ended
      <4>3. own' = own  BY <3>3 DEF commandVars
      <4> QED  BY <3>0, <4>2, <4>3, StagesElsewhere
    <3> QED  BY <2>1, <3>1, <3>2, <3>3 DEF CommandDoes
  <2>5. \A q \in Procs : Stages(q)'
    <3>1. ASSUME NEW q \in Procs, q = p  PROVE Stages(q)'
      BY <2>4, <3>1 DEF Stages
    <3> QED  BY <2>3, <3>1
  <2> QED  BY <2>2, <2>5 DEF LoggedInv
<1> QED  BY <1>1, <1>2, Steps DEF LoggedInv

LEMMA LoggedInit ==
    ASSUME Init
    PROVE  LoggedInv
<1>1. SUFFICES ASSUME NEW p \in Procs  PROVE Entries(p) /\ Stages(p)
  BY DEF LoggedInv
<1>2. log = <<>> /\ own[p] = Fresh  BY DEF Init, CommandInit
<1>3. Entries(p)  BY <1>2 DEF Entries, InOrder, Fresh
<1>4. own[p].result = NoResult /\ own[p].printed = NoResult  BY <1>2 DEF Fresh
<1>5. pc[p] \notin {"write_entry", "narrate", "asking", "answered", "print"}
  <2>1. program[p].name \in {"analyze", "train", "scan", "load", "export", "done"}
    BY SharedAssumption DEF Init, Programs, CommandPrograms, ScanPrograms, ExportPrograms
  <2> QED  BY <2>1 DEF Init
<1> QED  BY <1>3, <1>4, <1>5 DEF Stages

LEMMA LoggedAlways == Spec => [](ControlOK /\ CommandOK /\ LoggedInv)
<1>1. ControlOK /\ CommandOK /\ LoggedInv /\ [Next]_vars => LoggedInv'  BY LoggedNext
<1> QED  BY <1>1, LoggedInit, CommandIsOK, PTL DEF Spec

\* A printed result is in the log as it was logged, in full and in order,
\* whatever other analyses, kills and AI providers did meanwhile, unless an
\* error of the log was ignored (cli.rs, run_with_cli).
THEOREM PrintedIsLogged == Spec => []PrintedResultsAreLogged
<1>1. LoggedInv => PrintedResultsAreLogged
  BY DEF LoggedInv, Entries, Stages, NoNarrativeIn, PrintedResultsAreLogged
<1> QED  BY <1>1, LoggedAlways, PTL

-----------------------------------------------------------------------------
(* The result of an analysis: its model, its key and its narrative.        *)

\* How a step of p changes what of p ends up in a printed result.
Changes(p) ==
    /\ \/ own'[p].request = own[p].request
       \/ pc[p] = "narrate" /\ own'[p].request = Request(Config(program[p].settings))
    /\ \/ own'[p].result.model \in {own[p].result.model, None}
       \/ pc[p] = "detect" /\ own'[p].result.model = own[p].model
    /\ own'[p].result.narrative \in {own[p].result.narrative, NoResult.narrative,
                                     Validated(own[p].reply.content)}
    /\ own'[p].printed \in {own[p].printed, own[p].result}
    /\ own[p].overlaps => own'[p].overlaps
    /\ pc'[p] = "detect" => own'[p].model = Loaded(modelFile)

LEMMA ChangesOf ==
    ASSUME ControlOK, CommandOK, NEW p \in Procs,
           CommandStep(p) \/ ServiceReplies(p) \/ SaveFails(p) \/ LogFails(p)
    PROVE  Changes(p)
<1>1. /\ own[p] \in Owned /\ own \in [Procs -> Owned] /\ own[p].result \in Results
  BY DEF CommandOK, CommandTypeOK, Owned
<1>2. \A to : pc' = [pc EXCEPT ![p] = to] => pc'[p] = to  BY DEF ControlOK
<1>3. \A record : own' = [own EXCEPT ![p] = record] => own'[p] = record  BY <1>1
<1>4. pc'[p] = "detect" => LoadModel(p)
  BY <1>2
  DEF CommandStep, SaveFails, LogFails, ServiceReplies, ReadData, TruncateModel, WriteModel,
      Detect, DetectFails, Deepen, DeepenFails, OpenLog, WriteEntry, AskService, NoNarrative,
      RequestFails, Receive, PrintResult, Goes, Faulty
<1>5. CASE LoadModel(p)
  <2>1. own'[p] = [own[p] EXCEPT !.model = Loaded(modelFile)]  BY <1>3, <1>5 DEF LoadModel
  <2> QED  BY <1>1, <2>1 DEF Changes, Owned
<1>6. CASE ReadData(p) \/ SaveFails(p) \/ DetectFails(p) \/ DeepenFails(p)
           \/ NoNarrative(p) \/ RequestFails(p)
  <2>1. own' = own
    BY <1>6
    DEF ReadData, SaveFails, SavedInPart, DetectFails, DeepenFails, NoNarrative,
        RequestFails, commandVars
  <2>2. ~LoadModel(p)
    BY <1>6
    DEF LoadModel, ReadData, SaveFails, DetectFails, DeepenFails, NoNarrative,
        RequestFails, Goes, Faulty
  <2> QED  BY <1>4, <2>1, <2>2 DEF Changes
<1>15. CASE TruncateModel(p)
  <2>1. PICK overlaps \in BOOLEAN :
           /\ overlaps <=> (own[p].overlaps \/ \E q \in Procs : pc[q] = "write_model")
           /\ own'[p] = [own[p] EXCEPT !.overlaps = overlaps]
    BY <1>15, TruncateDoes
  <2>2. pc'[p] = "write_model"  BY <1>2, <1>15 DEF TruncateModel, Goes
  <2>3. /\ own'[p].result = own[p].result /\ own'[p].printed = own[p].printed
        /\ own'[p].request = own[p].request /\ own'[p].overlaps = overlaps
    BY <1>1, <2>1 DEF Owned
  <2> QED  BY <2>1, <2>2, <2>3 DEF Changes
<1>7. CASE WriteModel(p)
  <2>1. own'[p] = [own[p] EXCEPT !.model = p] /\ pc'[p] = "done"
    BY <1>2, <1>3, <1>7 DEF WriteModel, Goes
  <2> QED  BY <1>1, <2>1 DEF Changes, Owned
<1>8. CASE Detect(p)
  <2>1. PICK by \in {"worker", "self"}, found \in BOOLEAN :
           own'[p] = [own[p] EXCEPT !.result =
                   [NoResult EXCEPT !.by = by,
                                    !.model = IF by = "worker" THEN None ELSE own[p].model,
                                    !.context = program[p].context,
                                    !.algorithm = found]]
    BY <1>1, <1>8 DEF Detect
  <2> DEFINE model == IF by = "worker" THEN None ELSE own[p].model
             result == [NoResult EXCEPT !.by = by, !.model = model,
                                        !.context = program[p].context, !.algorithm = found]
  <2>2. result.narrative = NoResult.narrative /\ result.model = model
    <3> HIDE DEF model
    <3> QED  BY NoResultType DEF Results
  <2>3. /\ own'[p].result = result /\ own'[p].printed = own[p].printed
        /\ own'[p].request = own[p].request /\ own'[p].overlaps = own[p].overlaps
    <3> HIDE DEF result
    <3>1. own'[p] = [own[p] EXCEPT !.result = result]  BY <2>1 DEF result
    <3> QED  BY <1>1, <3>1 DEF Owned
  <2>4. pc[p] = "detect" /\ pc'[p] = "deepen"  BY <1>2, <1>8 DEF Detect, Goes
  <2> HIDE DEF result
  <2> QED  BY <2>2, <2>3, <2>4 DEF Changes
<1>9. CASE Deepen(p)
  <2>1. PICK n : own' = [own EXCEPT ![p].result.layers = n]  BY <1>9 DEF Deepen
  <2>2. own'[p] = [own[p] EXCEPT !.result = [own[p].result EXCEPT !.layers = n]]
    BY <1>1, <2>1 DEF Owned
  <2>3. /\ own'[p].result.narrative = own[p].result.narrative
        /\ own'[p].result.model = own[p].result.model
        /\ own'[p].printed = own[p].printed /\ own'[p].request = own[p].request
        /\ own'[p].overlaps = own[p].overlaps
    BY <1>1, <2>2 DEF Owned, Results
  <2>4. pc'[p] = "open_log"  BY <1>2, <1>9 DEF Deepen, Goes
  <2> QED  BY <2>3, <2>4 DEF Changes
<1>10. CASE OpenLog(p) \/ LogFails(p) \/ WriteEntry(p)
  <2>1. \/ own'[p] = [own[p] EXCEPT !.entry = own[p].result]
        \/ own'[p] = [own[p] EXCEPT !.logs = FALSE]
        \/ own'[p] = [own[p] EXCEPT !.written = own[p].written + 1]
    BY <1>3, <1>10 DEF OpenLog, LogFails, WriteEntry
  <2>2. ~LoadModel(p)  BY <1>10 DEF LoadModel, OpenLog, LogFails, WriteEntry, Goes, Faulty
  <2> QED  BY <1>1, <1>4, <2>1, <2>2 DEF Changes, Owned
<1>11. CASE AskService(p)
  <2>1. own'[p] = [own[p] EXCEPT !.request = Request(Config(program[p].settings))]
    BY <1>3, <1>11 DEF AskService
  <2>2. pc[p] = "narrate" /\ pc'[p] = "asking"  BY <1>2, <1>11 DEF AskService, Goes
  <2> QED  BY <1>1, <2>1, <2>2 DEF Changes, Owned
<1>12. CASE ServiceReplies(p)
  <2>1. PICK r : own' = [own EXCEPT ![p].reply = r]  BY <1>12 DEF ServiceReplies
  <2>2. own'[p] = [own[p] EXCEPT !.reply = r]  BY <1>1, <2>1
  <2>3. pc'[p] = "answered"  BY <1>2, <1>12 DEF ServiceReplies, Goes
  <2> QED  BY <1>1, <2>2, <2>3 DEF Changes, Owned
<1>13. CASE Receive(p)
  <2> DEFINE narrative == IF own[p].reply.shape = own[p].request.service
                          THEN Validated(own[p].reply.content)
                          ELSE own[p].result.narrative
             result == [own[p].result EXCEPT !.narrative = narrative]
  <2>1. own'[p] = [own[p] EXCEPT !.reply = NoReply, !.result = result]
    BY <1>1, <1>13 DEF Receive, Owned
  <2>2. result.narrative = narrative /\ result.model = own[p].result.model
    <3> HIDE DEF narrative
    <3> QED  BY <1>1 DEF Results
  <2>3. /\ own'[p].result = result /\ own'[p].printed = own[p].printed
        /\ own'[p].request = own[p].request /\ own'[p].overlaps = own[p].overlaps
    <3> HIDE DEF result
    <3> QED  BY <1>1, <2>1 DEF Owned
  <2>4. pc'[p] = "print"  BY <1>2, <1>13 DEF Receive, Goes
  <2> HIDE DEF result
  <2> QED  BY <2>2, <2>3, <2>4 DEF Changes
<1>14. CASE PrintResult(p)
  <2>1. own'[p] = [own[p] EXCEPT !.printed = own[p].result]  BY <1>3, <1>14 DEF PrintResult
  <2>2. pc'[p] = "done"  BY <1>2, <1>14 DEF PrintResult, Goes
  <2> QED  BY <1>1, <2>1, <2>2 DEF Changes, Owned
<1> QED
  BY <1>5, <1>6, <1>7, <1>8, <1>9, <1>10, <1>11, <1>12, <1>13, <1>14, <1>15 DEF CommandStep

\* What any step leaves of the results of all processes.
LEMMA ResultsChange ==
    ASSUME ControlOK, CommandOK, NEW p \in Procs, Step(p), NEW q \in Procs
    PROVE  \/ q = p /\ Changes(q)
           \/ own'[q] = own[q] /\ (pc'[q] = pc[q] \/ pc'[q] # "detect")
<1>1. CASE q # p
  <2>1. CommandDoes(p) \/ UNCHANGED commandVars  BY Split
  <2> QED  BY <1>1, <2>1, OthersKeepOwn, OthersStay
<1>2. CASE q = p
  <2>1. CommandDoes(p) \/ (UNCHANGED commandVars /\ Elsewhere(p, {AnalyzePoints, TrainPoints}))
    BY Split
  <2>2. CASE CommandStep(p) \/ ServiceReplies(p) \/ SaveFails(p) \/ LogFails(p)
    BY <1>2, <2>2, ChangesOf DEF Changes
  <2>3. CASE Killed(p) /\ CommandKilled(p)
    <3>1. own' = own  BY <2>3 DEF CommandKilled, SavedInPart, commandVars
    <3> QED  BY <1>2, <2>3, <3>1 DEF Killed, ControlOK
  <2>4. CASE UNCHANGED commandVars /\ Elsewhere(p, {AnalyzePoints, TrainPoints})
    <3>1. PICK points \in KindsOfPoints \ {AnalyzePoints, TrainPoints} : Moves(p, points)
      BY <2>4 DEF Elsewhere
    <3>2. pc'[p] # "detect"
      BY <3>1 DEF Moves, KindsOfPoints, ScanPoints, LoadPoints, ExportPoints, Ended,
                  AnalyzePoints, TrainPoints
    <3> QED  BY <1>2, <2>4, <3>2 DEF commandVars
  <2> QED  BY <2>1, <2>2, <2>3, <2>4 DEF CommandDoes
<1> QED  BY <1>1, <1>2

\* Two trainings have been at the file at once; one was cut short.
Overlapped == \E q \in Procs : own[q].overlaps
CutOff == \E q \in Procs : program[q].name = "train" /\ pc[q] \in {"failed", "killed"}

\* The models a result may have.
Known(model) == model \in {None} \cup saved \/ (model = "mixed" /\ Overlapped /\ CutOff)

\* A training that has truncated the file finds it empty, or another one has
\* been there.
ModelInv ==
    /\ modelFile \in {"empty", "torn"} \/ Known(modelFile)
    /\ \A p \in Procs : pc[p] = "write_model" => modelFile = "empty" \/ Overlapped
    /\ \A p, q \in Procs : pc[p] = "write_model" /\ pc[q] = "write_model" => p = q \/ Overlapped
    /\ \A p \in Procs :
        /\ Known(own[p].result.model) /\ Known(own[p].printed.model)
        /\ pc[p] = "detect" => Known(own[p].model)

\* What a step of p may be to the model file.
LEMMA FileStep ==
    ASSUME ControlOK, NEW p \in Procs, Step(p)
    PROVE  \/ modelFile' = modelFile /\ saved' = saved /\ pc'[p] # "write_model"
           \/ TruncateModel(p) \/ WriteModel(p)
           \/ pc[p] = "write_model" /\ pc'[p] \in {"failed", "killed"} /\ SavedInPart(p)
<1>1. \A to : pc' = [pc EXCEPT ![p] = to] => pc'[p] = to  BY DEF ControlOK
<1>2. CASE CommandStep(p) \/ ServiceReplies(p) \/ SaveFails(p) \/ LogFails(p)
  BY <1>1, <1>2
  DEF commandVars, CommandStep, ServiceReplies, SaveFails, LogFails, LoadModel, ReadData,
      Detect, DetectFails, Deepen, DeepenFails, OpenLog, WriteEntry, AskService, NoNarrative,
      RequestFails, Receive, PrintResult, Goes, Faulty
<1>3. CASE Killed(p) /\ CommandKilled(p)
  BY <1>1, <1>3 DEF Killed, CommandKilled, commandVars
<1>4. CASE UNCHANGED commandVars /\ Elsewhere(p, {AnalyzePoints, TrainPoints})
  <2>1. PICK points \in KindsOfPoints \ {AnalyzePoints, TrainPoints} : Moves(p, points)
    BY <1>4 DEF Elsewhere
  <2>2. pc'[p] # "write_model"
    BY <2>1 DEF Moves, KindsOfPoints, ScanPoints, LoadPoints, ExportPoints, Ended,
                AnalyzePoints, TrainPoints
  <2> QED  BY <1>4, <2>2 DEF commandVars
<1> QED  BY <1>2, <1>3, <1>4, Split DEF CommandDoes

\* What was saved, overlapped or cut short stays so.
LEMMA KnownStays ==
    ASSUME ControlOK, CommandOK, NEW p \in Procs, Step(p)
    PROVE  saved \subseteq saved' /\ (Overlapped => Overlapped') /\ (CutOff => CutOff')
<1>1. saved \subseteq saved'  BY FileStep DEF TruncateModel, WriteModel, SavedInPart
<1>2. ASSUME NEW q \in Procs, own[q].overlaps  PROVE own'[q].overlaps
  BY <1>2, ResultsChange DEF Changes
<1>3. ASSUME NEW q \in Procs, program[q].name = "train", pc[q] \in {"failed", "killed"}
      PROVE  program'[q].name = "train" /\ pc'[q] \in {"failed", "killed"}
  <2>1. program' = program  BY Split, KilledEnds DEF Moves
  <2>2. q # p
    <3>1. pc[p] \notin {"failed", "killed"}
      BY Split
      DEF Moves, Killed, Ended, KindsOfPoints, AnalyzePoints, TrainPoints, ScanPoints, LoadPoints,
          ExportPoints
    <3> QED  BY <1>3, <3>1
  <2>3. pc'[q] = pc[q]  BY <2>2, OthersStay
  <2> QED  BY <1>3, <2>1, <2>3
<1>4. Overlapped => Overlapped'  BY <1>2 DEF Overlapped
<1>5. CutOff => CutOff'  BY <1>3 DEF CutOff
<1> QED  BY <1>1, <1>4, <1>5

\* What a step leaves of the file.
LEMMA FileNext ==
    ASSUME ControlOK, CommandOK, ModelInv, NEW p \in Procs, Step(p)
    PROVE  modelFile' \in {"empty", "torn"} \/ Known(modelFile)'
<1>1. saved \subseteq saved' /\ (Overlapped => Overlapped') /\ (CutOff => CutOff')
  BY KnownStays
<1>2. CASE modelFile' = modelFile
  BY <1>1, <1>2 DEF ModelInv, Known
<1>3. CASE TruncateModel(p)  BY <1>3 DEF TruncateModel
<1>4. CASE WriteModel(p)
  <2>1. (modelFile' = p /\ saved' = saved \cup {p}) \/ modelFile' = "torn"  BY <1>4 DEF WriteModel
  <2> QED  BY <2>1 DEF Known
<1>5. CASE pc[p] = "write_model" /\ pc'[p] \in {"failed", "killed"} /\ SavedInPart(p)
  <2>1. \/ modelFile' \in {"empty", "torn", modelFile}
        \/ modelFile' = p /\ saved' = saved \cup {p}
        \/ modelFile # "empty" /\ modelFile' = "mixed"
    BY <1>5 DEF SavedInPart, Remains
  <2>2. CASE modelFile # "empty" /\ modelFile' = "mixed"
    <3>1. Overlapped'  BY <1>1, <1>5, <2>2 DEF ModelInv
    <3>2. program[p].name = "train"
      <4>1. program[p].name \in {"analyze", "train", "scan", "load", "export", "done"}
        BY SharedAssumption
        DEF ControlOK, Programs, CommandPrograms, ScanPrograms, ExportPrograms
      <4> QED  BY <1>5, <4>1 DEF ControlOK, PointsOf, Ended
    <3>3. program' = program  BY Split, KilledEnds DEF Moves
    <3>4. CutOff'  BY <1>5, <3>2, <3>3 DEF CutOff
    <3> QED  BY <2>2, <3>1, <3>4 DEF Known
  <2> QED  BY <1>2, <2>1, <2>2 DEF Known
<1> QED  BY <1>2, <1>3, <1>4, <1>5, FileStep

\* What it leaves of the trainings that are at the file.
LEMMA WritersNext ==
    ASSUME ControlOK, CommandOK, ModelInv, NEW p \in Procs, Step(p)
    PROVE  /\ \A q \in Procs : pc'[q] = "write_model" => modelFile' = "empty" \/ Overlapped'
           /\ \A q, r \in Procs :
                  pc'[q] = "write_model" /\ pc'[r] = "write_model" => q = r \/ Overlapped'
<1>1. Overlapped => Overlapped'  BY KnownStays
<1>2. \A q \in Procs : q # p => pc'[q] = pc[q]  BY OthersStay
<1>3. CASE TruncateModel(p)
  <2>1. modelFile' = "empty"  BY <1>3 DEF TruncateModel
  <2>2. ASSUME NEW q \in Procs, q # p, pc[q] = "write_model"  PROVE Overlapped'
    <3>1. PICK overlaps \in BOOLEAN :
             /\ overlaps <=> (own[p].overlaps \/ \E r \in Procs : pc[r] = "write_model")
             /\ own'[p] = [own[p] EXCEPT !.overlaps = overlaps]
      BY <1>3, TruncateDoes
    <3>2. overlaps = TRUE  BY <2>2, <3>1
    <3>3. own'[p].overlaps = overlaps
      <4>1. own[p] \in Owned  BY DEF CommandOK, CommandTypeOK
      <4> QED  BY <3>1, <4>1 DEF Owned
    <3> QED  BY <3>2, <3>3, Zenon DEF Overlapped
  <2>3. ASSUME NEW q \in Procs, NEW r \in Procs, pc'[q] = "write_model", pc'[r] = "write_model"
        PROVE  q = r \/ Overlapped'
    <3>1. CASE q = p \/ r = p  BY <1>2, <2>2, <2>3, <3>1
    <3>2. CASE q # p /\ r # p
      <4>1. pc[q] = "write_model" /\ pc[r] = "write_model"  BY <1>2, <2>3, <3>2
      <4> QED  BY <1>1, <4>1 DEF ModelInv
    <3> QED  BY <3>1, <3>2
  <2> QED  BY <2>1, <2>3
<1>4. CASE pc'[p] # "write_model"
  <2>1. ASSUME NEW q \in Procs, pc'[q] = "write_model"
        PROVE  q # p /\ pc[q] = "write_model"
    BY <1>2, <1>4, <2>1
  <2>2. ASSUME NEW q \in Procs, pc'[q] = "write_model"
        PROVE  modelFile' = "empty" \/ Overlapped'
    <3>1. CASE modelFile' = modelFile  BY <1>1, <2>1, <2>2, <3>1 DEF ModelInv
    <3>2. CASE pc[p] = "write_model"  BY <1>1, <2>1, <2>2, <3>2 DEF ModelInv
    <3>3. modelFile' = modelFile \/ pc[p] = "write_model" \/ TruncateModel(p)
      BY FileStep DEF WriteModel, Goes
    <3>4. ~TruncateModel(p)  BY <1>4 DEF TruncateModel, Goes, ControlOK
    <3> QED  BY <3>1, <3>2, <3>3, <3>4
  <2>3. ASSUME NEW q \in Procs, NEW r \in Procs, pc'[q] = "write_model", pc'[r] = "write_model"
        PROVE  q = r \/ Overlapped'
    <3>1. pc[q] = "write_model" /\ pc[r] = "write_model"  BY <2>1, <2>3
    <3> QED  BY <1>1, <3>1 DEF ModelInv
  <2> QED  BY <2>2, <2>3
<1>5. TruncateModel(p) \/ pc'[p] # "write_model"
  <2>1. WriteModel(p) => pc'[p] # "write_model"  BY DEF WriteModel, Goes, ControlOK
  <2> QED  BY <2>1, FileStep
<1> QED  BY <1>3, <1>4, <1>5

LEMMA ModelNext ==
    ASSUME ControlOK, CommandOK, ModelInv, [Next]_vars
    PROVE  ModelInv'
<1>1. CASE UNCHANGED vars
  BY <1>1 DEF vars, processVars, commandVars, ModelInv, Known, Overlapped, CutOff
<1>2. ASSUME NEW p \in Procs, Step(p), NEW q \in Procs
      PROVE  /\ Known(own[q].result.model)' /\ Known(own[q].printed.model)'
             /\ pc'[q] = "detect" => Known(own[q].model)'
  <2>1. saved \subseteq saved' /\ (Overlapped => Overlapped') /\ (CutOff => CutOff')
    BY <1>2, KnownStays
  <2>2. Known(Loaded(modelFile))
    <3>1. CASE modelFile \in {"empty", "torn"}  BY <3>1 DEF Known, Loaded
    <3>2. CASE modelFile \notin {"empty", "torn"}  BY <3>2 DEF ModelInv, Loaded
    <3> QED  BY <3>1, <3>2
  <2>3. /\ Known(own[q].result.model) /\ Known(own[q].printed.model)
        /\ pc[q] = "detect" => Known(own[q].model)
    BY DEF ModelInv
  <2>4. CASE Changes(q)
    <3>1. Known(own'[q].result.model)  BY <2>3, <2>4 DEF Changes, Known
    <3>2. Known(own'[q].printed.model)  BY <2>3, <2>4 DEF Changes
    <3>3. pc'[q] = "detect" => Known(own'[q].model)  BY <2>2, <2>4 DEF Changes
    <3> QED  BY <2>1, <3>1, <3>2, <3>3 DEF Known
  <2>5. CASE own'[q] = own[q] /\ (pc'[q] = pc[q] \/ pc'[q] # "detect")
    BY <2>1, <2>3, <2>5 DEF Known
  <2> QED  BY <1>2, <2>4, <2>5, ResultsChange
<1> QED  BY <1>1, <1>2, FileNext, WritersNext, Steps DEF ModelInv

LEMMA ModelInit ==
    ASSUME Init
    PROVE  ModelInv
<1>1. modelFile \in {None, "bundled"} /\ saved = {"bundled"}  BY DEF Init, CommandInit
<1>2. \A p \in Procs : own[p].model = None /\ own[p].result.model = None /\ own[p].printed.model = None
  BY DEF Init, CommandInit, Fresh, NoResult
<1>3. \A p \in Procs : pc[p] # "write_model"
  <2>1. \A p \in Procs :
           program[p].name \in {"analyze", "train", "scan", "load", "export", "done"}
    BY SharedAssumption DEF Init, Programs, CommandPrograms, ScanPrograms, ExportPrograms
  <2> QED  BY <2>1 DEF Init
<1> QED  BY <1>1, <1>2, <1>3 DEF ModelInv, Known

\* A printed result is calibrated by a model that was saved in full, or by
\* none; only a training that was cut short over the text of another one that
\* was at the file with it may leave something else that parses
\* (calibration.rs, save_model and default_model).
THEOREM ModelsAreSaved == Spec => []CalibratedByASavedModel
<1>1. ControlOK /\ CommandOK /\ ModelInv /\ [Next]_vars => ModelInv'  BY ModelNext
<1>2. ModelInv => CalibratedByASavedModel
  BY DEF ModelInv, Known, Overlapped, CutOff, CalibratedByASavedModel
<1> QED  BY <1>1, <1>2, ModelInit, CommandIsOK, PTL DEF Spec

\* A key of cryptotrace.toml is one for the provider it names, or for OpenAI
\* where it names none.
KeyIsOwn(s) ==
    s.toml.provider \in {None, "openai", "anthropic"} =>
        s.toml.key \in {None, IF s.toml.provider = None THEN "openai" ELSE s.toml.provider}

KeysAreOwn ==
    \A plan \in Plans : \A p \in Procs : plan[p].name = "analyze" => KeyIsOwn(plan[p].settings)

\* No setting of the environment and no other part of the file sends it elsewhere.
LEMMA RequestOfKey ==
    ASSUME NEW s, KeyIsOwn(s)
    PROVE  Request(Config(s)).key \in {None, Request(Config(s)).service}
<1>1. Config(s).provider \in {"openai", "anthropic"} => Config(s).key \in {None, Config(s).provider}
  BY DEF KeyIsOwn, Config, DefaultConfig, None
<1> QED
  BY <1>1 DEF Request, OpenAiRequest, AnthropicRequest, LocalRequest, NoRequest

KeyInv == program \in Plans /\ KeyGoesToItsService

LEMMA KeyNext ==
    ASSUME KeysAreOwn, ControlOK, CommandOK, KeyInv, [Next]_vars
    PROVE  KeyInv'
<1>1. CASE UNCHANGED vars
  BY <1>1 DEF vars, processVars, commandVars, KeyInv, KeyGoesToItsService
<1>2. ASSUME NEW p \in Procs, Step(p)  PROVE KeyInv'
  <2>1. program' = program  BY <1>2, Split, KilledEnds DEF Moves
  <2>2. ASSUME NEW q \in Procs
        PROVE  own'[q].request.key \in {None, own'[q].request.service}
    <3>1. own[q].request.key \in {None, own[q].request.service}
      BY DEF KeyInv, KeyGoesToItsService
    <3>2. CASE pc[q] = "narrate" /\ own'[q].request = Request(Config(program[q].settings))
      <4>1. program[q].name = "analyze"  BY <3>2, AnalyzeProgram DEF AnalyzePoints
      <4>2. KeyIsOwn(program[q].settings)  BY <4>1 DEF KeysAreOwn, KeyInv
      <4> QED  BY <3>2, <4>2, RequestOfKey
    <3>3. CASE own'[q].request = own[q].request  BY <3>1, <3>3
    <3>4. Changes(q) \/ own'[q] = own[q]  BY <1>2, ResultsChange
    <3> QED  BY <3>2, <3>3, <3>4 DEF Changes
  <2> QED  BY <2>1, <2>2 DEF KeyInv, KeyGoesToItsService
<1> QED  BY <1>1, <1>2, Steps

\* Where every key of a cryptotrace.toml is one for the provider it names, no
\* environment makes an analysis send it to another service (cli.rs,
\* load_ai_provider, and providers/mod.rs, create_provider).
THEOREM KeysGoToTheirServices ==
    ASSUME KeysAreOwn
    PROVE  Spec => []KeyGoesToItsService
<1>1. ControlOK /\ CommandOK /\ KeyInv /\ [Next]_vars => KeyInv'  BY KeyNext
<1>2. Init => KeyInv
  BY DEF Init, CommandInit, Fresh, NoRequest, KeyInv, KeyGoesToItsService
<1>3. KeyInv => KeyGoesToItsService  BY DEF KeyInv
<1> QED  BY <1>1, <1>2, <1>3, CommandIsOK, PTL DEF Spec

-----------------------------------------------------------------------------
(* Files that are written from their beginning.                            *)

LEMMA OverwriteType ==
    ASSUME NEW S, NEW old \in Seq(S), NEW bytes \in Seq(S)
    PROVE  Overwrite(old, bytes) \in Seq(S)
<1> DEFINE len == IF Len(old) > Len(bytes) THEN Len(old) ELSE Len(bytes)
<1>1. len \in Nat /\ Len(old) \in Nat /\ Len(bytes) \in Nat  OBVIOUS
<1>2. \A i \in 1..len : (IF i <= Len(bytes) THEN bytes[i] ELSE old[i]) \in S
  BY ElementOfSeq
<1> HIDE DEF len
<1>3. [i \in 1..len |-> IF i <= Len(bytes) THEN bytes[i] ELSE old[i]] \in Seq(S)
  BY <1>1, <1>2, IsASeq
<1> QED  BY <1>3 DEF Overwrite, len

LEMMA OverwriteEmpty ==
    ASSUME NEW S, NEW bytes \in Seq(S)
    PROVE  Overwrite(<<>>, bytes) = bytes
<1>1. Len(bytes) \in Nat /\ Len(<<>>) = 0  OBVIOUS
<1>2. Overwrite(<<>>, bytes) = [i \in 1..Len(bytes) |-> bytes[i]]
  BY <1>1 DEF Overwrite
<1> QED  BY <1>2

LEMMA BeginningsType ==
    ASSUME NEW S, NEW old \in Seq(S), NEW bytes \in Seq(S), NEW left \in Beginnings(old, bytes)
    PROVE  left \in Seq(S)
<1>1. PICK n \in 0..(Len(bytes) - 1) : left = Overwrite(old, SubSeq(bytes, 1, n))
  BY DEF Beginnings
<1>2. SubSeq(bytes, 1, n) \in Seq(S)
  <2>1. Len(bytes) \in Nat /\ n \in Nat /\ n <= Len(bytes)  OBVIOUS
  <2>2. \A i \in 1..n : bytes[i] \in S  BY <2>1, ElementOfSeq
  <2> QED  BY <2>1, <2>2, SubSeqProperties
<1> QED  BY <1>1, <1>2, OverwriteType

-----------------------------------------------------------------------------
(* The signature file.                                                     *)

\* While nothing has disturbed the file, at most one store goes on; it has
\* truncated the file, and without it the file is whole or not there.
Undisturbed ==
    /\ \A p, q \in Procs : Storing(p) /\ Storing(q) => p = q
    /\ (\E p \in Procs : Storing(p)) => sigFile = <<>>
    /\ (\A p \in Procs : ~Storing(p)) => sigFile \in {Absent} \cup Versions

Downloaded(p) == pc[p] \in {"create_local", "fill_local"} => loads[p].data \in Versions

CacheInv ==
    /\ CacheTypeOK
    /\ \A p \in Procs : Downloaded(p)
    /\ ~disturbed => Undisturbed
    /\ WholeUnlessDisturbed

\* A store that fails or is killed disturbs the file for good.
LEMMA CutShortKeeps ==
    ASSUME CacheInv, NEW p \in Procs, pc[p] = "fill_local", CutShort(p),
           pc'[p] \in Ended, \A q \in Procs : q # p => pc'[q] = pc[q]
    PROVE  CacheInv'
<1>1. loads[p].data \in Versions  BY DEF CacheInv, Downloaded
<1>2. sigFile' \in Seq(Parts)
  BY <1>1, CacheAssumption, BeginningsType DEF CacheInv, CacheTypeOK, CutShort
<1>3. loads' = loads /\ disturbed' = TRUE  BY DEF CutShort
<1>4. \A q \in Procs : Downloaded(q)'
  BY <1>3 DEF CacheInv, Downloaded, Ended
<1> QED  BY <1>2, <1>3, <1>4 DEF CacheInv, CacheTypeOK, WholeUnlessDisturbed

LEMMA LoadKeeps ==
    ASSUME ControlOK, CacheInv, NEW p \in Procs, LoadStep(p) \/ LoadFails(p)
    PROVE  CacheInv'
<1>1. /\ loads \in [Procs -> [data : {Absent} \cup Versions, returned : Seq(Parts),
                              disturbed : BOOLEAN]]
      /\ sigFile \in Seq(Parts) /\ disturbed \in BOOLEAN
      /\ loads[p] \in [data : {Absent} \cup Versions, returned : Seq(Parts),
                       disturbed : BOOLEAN]
  BY DEF CacheInv, CacheTypeOK
<1>2. /\ Moves(p, LoadPoints)
      /\ \A to : pc' = [pc EXCEPT ![p] = to] => pc'[p] = to
      /\ \A q \in Procs : q # p => pc'[q] = pc[q]
  BY LoadMoves DEF Moves, ControlOK
<1>3. \A q \in Procs : q # p => (Storing(q)' <=> Storing(q))  BY <1>2 DEF Storing
<1>4. Downloaded(p) /\ \A q \in Procs : Downloaded(q)  BY DEF CacheInv
<1>5. \A q \in Procs : loads[q].returned \in {Absent} \cup Versions \/ loads[q].disturbed
  BY DEF CacheInv, WholeUnlessDisturbed
<1>6. Versions \subseteq Seq(Parts)  BY CacheAssumption
<1>7. CASE \/ CheckLocal(p) \/ DownloadFails(p)
          \/ /\ Faulty(p, "read_local", "failed") \/ Faulty(p, "create_local", "failed")
             /\ UNCHANGED cacheVars
  <2>1. sigFile' = sigFile /\ loads' = loads /\ disturbed' = disturbed
    BY <1>7 DEF CheckLocal, DownloadFails, cacheVars
  <2>2. /\ pc[p] \in {"load", "download", "read_local", "create_local"}
        /\ pc'[p] \in {"download", "read_local", "failed"}
    BY <1>2, <1>7 DEF CheckLocal, DownloadFails, Goes, Faulty
  <2>3. \A q \in Procs : Storing(q)' <=> Storing(q)  BY <1>3, <2>2 DEF Storing
  <2>4. \A q \in Procs : Downloaded(q)'  BY <1>2, <1>4, <2>1, <2>2 DEF Downloaded
  <2>5. Undisturbed => Undisturbed'  BY <2>1, <2>3 DEF Undisturbed
  <2> QED  BY <2>1, <2>4, <2>5 DEF CacheInv, CacheTypeOK, WholeUnlessDisturbed
<1>8. CASE ReadLocal(p)
  <2>1. sigFile' = sigFile /\ disturbed' = disturbed
    BY <1>8 DEF ReadLocal
  <2>2. pc[p] = "read_local" /\ pc'[p] = "done"  BY <1>2, <1>8 DEF ReadLocal, Goes
  <2>3. \A q \in Procs : Storing(q)' <=> Storing(q)  BY <1>3, <2>2 DEF Storing
  <2> DEFINE d == disturbed \/ \E q \in Procs : Storing(q)
  <2>4. loads'[p] = [loads[p] EXCEPT !.returned = sigFile, !.disturbed = d]
        /\ \A q \in Procs : q # p => loads'[q] = loads[q]
    BY <1>1, <1>8 DEF ReadLocal
  <2>5. d \in BOOLEAN  BY <1>1
  <2>6. loads' \in [Procs -> [data : {Absent} \cup Versions, returned : Seq(Parts),
                              disturbed : BOOLEAN]]
    <3>1. loads' = [loads EXCEPT ![p] = loads'[p]]  BY <1>1, <1>8 DEF ReadLocal
    <3> HIDE DEF d
    <3>2. loads'[p] \in [data : {Absent} \cup Versions, returned : Seq(Parts),
                         disturbed : BOOLEAN]
      BY <1>1, <2>4, <2>5
    <3> QED  BY <1>1, <3>1, <3>2
  <2>7. ~d => sigFile \in {Absent} \cup Versions  BY DEF CacheInv, Undisturbed
  <2> HIDE DEF d
  <2>8. loads'[p].returned = sigFile /\ loads'[p].disturbed = d /\ loads'[p].data = loads[p].data
    BY <1>1, <2>4
  <2>9. WholeUnlessDisturbed'  BY <1>5, <2>4, <2>7, <2>8 DEF WholeUnlessDisturbed
  <2>10. \A q \in Procs : Downloaded(q)'  BY <1>2, <1>4, <2>2, <2>4 DEF Downloaded
  <2>11. Undisturbed => Undisturbed'  BY <2>1, <2>3 DEF Undisturbed
  <2> QED  BY <1>1, <2>1, <2>6, <2>9, <2>10, <2>11 DEF CacheInv, CacheTypeOK
<1>9. CASE Download(p)
  <2>1. PICK version \in Versions : loads' = [loads EXCEPT ![p].data = version]
    BY <1>9 DEF Download
  <2>2. sigFile' = sigFile /\ disturbed' = disturbed  BY <1>9 DEF Download
  <2>3. pc[p] = "download" /\ pc'[p] = "create_local"  BY <1>2, <1>9 DEF Download, Goes
  <2>4. \A q \in Procs : Storing(q)' <=> Storing(q)  BY <1>3, <2>3 DEF Storing
  <2>5. /\ loads'[p].data = version /\ loads'[p].returned = loads[p].returned
        /\ loads'[p].disturbed = loads[p].disturbed
        /\ \A q \in Procs : q # p => loads'[q] = loads[q]
    BY <1>1, <2>1
  <2>6. loads' \in [Procs -> [data : {Absent} \cup Versions, returned : Seq(Parts),
                              disturbed : BOOLEAN]]
    BY <1>1, <2>1
  <2>7. \A q \in Procs : Downloaded(q)'  BY <1>2, <1>4, <2>5 DEF Downloaded
  <2>8. WholeUnlessDisturbed'  BY <1>5, <2>5 DEF WholeUnlessDisturbed
  <2>9. Undisturbed => Undisturbed'  BY <2>2, <2>4 DEF Undisturbed
  <2> QED  BY <1>1, <2>2, <2>6, <2>7, <2>8, <2>9 DEF CacheInv, CacheTypeOK
<1>10. CASE CreateLocal(p)
  <2>1. sigFile' = <<>> /\ loads' = loads /\ disturbed' = (disturbed \/ \E q \in Procs : Storing(q))
    BY <1>10 DEF CreateLocal
  <2>2. pc[p] = "create_local" /\ pc'[p] = "fill_local"  BY <1>2, <1>10 DEF CreateLocal, Goes
  <2>3. Storing(p)'  BY <2>2 DEF Storing
  <2>4. ~disturbed' => Undisturbed'  BY <1>3, <2>1, <2>3 DEF Undisturbed
  <2>5. \A q \in Procs : Downloaded(q)'  BY <1>2, <1>4, <2>1, <2>2 DEF Downloaded
  <2>6. WholeUnlessDisturbed'  BY <1>5, <2>1 DEF WholeUnlessDisturbed
  <2>7. sigFile' \in Seq(Parts) /\ disturbed' \in BOOLEAN  BY <1>1, <2>1
  <2> QED  BY <1>1, <2>1, <2>4, <2>5, <2>6, <2>7 DEF CacheInv, CacheTypeOK
<1>11. CASE FillLocal(p)
  <2>1. /\ sigFile' = Overwrite(sigFile, loads[p].data) /\ disturbed' = disturbed
        /\ loads' = [loads EXCEPT ![p].returned = loads[p].data]
    BY <1>11 DEF FillLocal
  <2>2. pc[p] = "fill_local" /\ pc'[p] = "done"  BY <1>2, <1>11 DEF FillLocal, Goes
  <2>3. loads[p].data \in Versions  BY <1>4, <2>2 DEF Downloaded
  <2>4. /\ loads'[p].returned \in Versions
        /\ \A q \in Procs : q # p => loads'[q] = loads[q]
    BY <1>1, <2>1, <2>3
  <2>5. loads' \in [Procs -> [data : {Absent} \cup Versions, returned : Seq(Parts),
                              disturbed : BOOLEAN]]
    BY <1>1, <1>6, <2>1, <2>3
  <2>6. sigFile' \in Seq(Parts)  BY <1>1, <1>6, <2>1, <2>3, OverwriteType
  <2>7. ~disturbed => sigFile' \in Versions /\ \A q \in Procs : ~Storing(q)'
    <3> SUFFICES ASSUME ~disturbed  PROVE sigFile' \in Versions /\ \A q \in Procs : ~Storing(q)'
      OBVIOUS
    <3>1. Undisturbed /\ Storing(p)  BY <2>2 DEF CacheInv, Storing
    <3>2. sigFile = <<>>  BY <3>1 DEF Undisturbed
    <3>3. sigFile' = loads[p].data  BY <1>6, <2>1, <2>3, <3>2, OverwriteEmpty
    <3>4. ~Storing(p)'  BY <2>2 DEF Storing
    <3>5. \A q \in Procs : q # p => ~Storing(q)  BY <3>1 DEF Undisturbed
    <3> QED  BY <1>3, <2>3, <3>3, <3>4, <3>5
  <2>8. ~disturbed' => Undisturbed'  BY <2>1, <2>7 DEF Undisturbed
  <2>9. \A q \in Procs : Downloaded(q)'  BY <1>2, <1>4, <2>2, <2>4 DEF Downloaded
  <2>10. WholeUnlessDisturbed'  BY <1>5, <2>4 DEF WholeUnlessDisturbed
  <2> QED  BY <1>1, <2>1, <2>5, <2>6, <2>8, <2>9, <2>10 DEF CacheInv, CacheTypeOK
<1>12. CASE Faulty(p, "fill_local", "failed") /\ CutShort(p)
  <2>1. pc[p] = "fill_local" /\ pc'[p] \in Ended  BY <1>2, <1>12 DEF Faulty, Ended
  <2> QED  BY <1>2, <1>12, <2>1, CutShortKeeps
<1> QED  BY <1>7, <1>8, <1>9, <1>10, <1>11, <1>12 DEF LoadStep, LoadFails

LEMMA CacheStays ==
    ASSUME CacheInv, NEW p \in Procs, UNCHANGED cacheVars,
           pc'[p] = pc[p] \/ (~Storing(p) /\ pc'[p] \notin {"create_local", "fill_local"}),
           \A q \in Procs : q # p => pc'[q] = pc[q]
    PROVE  CacheInv'
<1>1. sigFile' = sigFile /\ loads' = loads /\ disturbed' = disturbed  BY DEF cacheVars
<1>2. \A q \in Procs : Storing(q)' <=> Storing(q)  BY DEF Storing
<1>3. \A q \in Procs : Downloaded(q)'  BY <1>1 DEF CacheInv, Downloaded
<1>4. Undisturbed => Undisturbed'  BY <1>1, <1>2 DEF Undisturbed
<1> QED  BY <1>1, <1>3, <1>4 DEF CacheInv, CacheTypeOK, WholeUnlessDisturbed

LEMMA CacheNext ==
    ASSUME ControlOK, CacheInv, [Next]_vars
    PROVE  CacheInv'
<1>1. CASE UNCHANGED vars
  BY <1>1
  DEF vars, processVars, cacheVars, CacheInv, CacheTypeOK, Downloaded, Undisturbed, Storing,
      WholeUnlessDisturbed
<1>2. ASSUME NEW p \in Procs, Step(p)  PROVE CacheInv'
  <2>1. LoadDoes(p) \/ (UNCHANGED cacheVars /\ Elsewhere(p, {LoadPoints}))  BY <1>2, Split
  <2>2. \A q \in Procs : q # p => pc'[q] = pc[q]  BY <1>2, OthersStay
  <2>3. CASE LoadStep(p) \/ LoadFails(p)  BY <2>3, LoadKeeps
  <2>4. CASE Killed(p) /\ LoadKilled(p)
    <3>1. pc'[p] = "killed"  BY <2>4 DEF Killed, ControlOK
    <3>2. CASE Storing(p)
      BY <2>2, <2>4, <3>1, <3>2, CutShortKeeps DEF LoadKilled, Storing, Ended
    <3>3. CASE ~Storing(p)  BY <2>2, <2>4, <3>1, <3>3, CacheStays DEF LoadKilled
    <3> QED  BY <3>2, <3>3
  <2>5. CASE UNCHANGED cacheVars /\ Elsewhere(p, {LoadPoints})
    <3>1. PICK points \in KindsOfPoints \ {LoadPoints} : Moves(p, points)
      BY <2>5 DEF Elsewhere
    <3>2. {pc[p], pc'[p]} \cap {"create_local", "fill_local"} = {}
      BY <3>1
      DEF Moves, KindsOfPoints, AnalyzePoints, TrainPoints, ScanPoints, LoadPoints, ExportPoints,
          Ended
    <3>3. ~Storing(p) /\ pc'[p] \notin {"create_local", "fill_local"}  BY <3>2 DEF Storing
    <3> QED  BY <2>2, <2>5, <3>3, CacheStays
  <2> QED  BY <2>1, <2>3, <2>4, <2>5 DEF LoadDoes
<1> QED  BY <1>1, <1>2, Steps

LEMMA NoneOfThese ==
    ASSUME Init, NEW p \in Procs
    PROVE  pc[p] \in {"analyze", "train", "scan", "load", "export", "done"}
<1>1. program[p].name \in {"analyze", "train", "scan", "load", "export", "done"}
  BY SharedAssumption DEF Init, Programs, CommandPrograms, ScanPrograms, ExportPrograms
<1> QED  BY <1>1 DEF Init

LEMMA CacheInitOK ==
    ASSUME Init
    PROVE  CacheInv
<1>1. sigFile = Absent /\ disturbed = FALSE /\ loads = [p \in Procs |-> NewLoad]
  BY DEF Init, CacheInit
<1>2. Absent \in Seq(Parts)
  <2>1. None \in Parts  BY DEF Parts
  <2> QED  BY <2>1 DEF Absent
<1>3. \A p \in Procs : ~Storing(p) /\ Downloaded(p)  BY NoneOfThese DEF Storing, Downloaded
<1>4. Undisturbed  BY <1>1, <1>3 DEF Undisturbed
<1>5. NewLoad \in [data : {Absent} \cup Versions, returned : Seq(Parts), disturbed : BOOLEAN]
  BY <1>2 DEF NewLoad
<1>6. \A p \in Procs : loads[p].returned = Absent  BY <1>1 DEF NewLoad
<1> QED
  BY <1>1, <1>2, <1>3, <1>4, <1>5, <1>6 DEF CacheInv, CacheTypeOK, WholeUnlessDisturbed

LEMMA CacheAlways == Spec => [](ControlOK /\ CacheInv)
<1>1. Init => ControlOK /\ CacheInv  BY ControlInit, CacheInitOK
<1>2. ControlOK /\ CacheInv /\ [Next]_vars => (ControlOK /\ CacheInv)'
  BY ControlStep, CacheNext
<1> QED  BY <1>1, <1>2, PTL DEF Spec

\* Signatures that are returned are a version the provider has served, for any
\* versions and any number of loads at once, unless a store was going on, was
\* cut short or met another one (community.rs, load_community_signatures).
THEOREM LoadsAreWhole == Spec => []WholeUnlessDisturbed
<1>1. CacheInv => WholeUnlessDisturbed  BY DEF CacheInv
<1> QED  BY <1>1, CacheAlways, PTL

-----------------------------------------------------------------------------
(* The scan file.                                                          *)

\* Two scans at the file at once have met; one that has met none has the file
\* for itself, as it left it.
Meet(p, q) == p # q /\ AtTheFile(p) /\ AtTheFile(q) => q \in scans[p].met

Alone(p) ==
    pc[p] \in {"fill_scan", "run_yara"} /\ scans[p].met = {} =>
        /\ scanFile = scans[p].fd
        /\ inodes[scanFile] = IF pc[p] = "fill_scan" THEN <<>> ELSE Bytes(p)

YaraReport == [source |-> "YARA", malicious |-> TRUE]

Scanning(p) ==
    /\ AtTheFile(p) => scans[p].fd \in Procs
    /\ pc[p] \in {"scan", "open_scan", "fill_scan", "run_yara"} =>
        scans[p].read = Absent /\ YaraReport \notin scans[p].reports
    /\ scans[p].met = {} /\ scans[p].read # Absent =>
        /\ scans[p].read = Bytes(p)
        /\ YaraReport \in scans[p].reports => program[p].malicious

ScanInv ==
    /\ ScanTypeOK
    /\ \A p \in Procs : Scanning(p) /\ Alone(p)
    /\ \A p, q \in Procs : Meet(p, q)

ScanRecords ==
    [fd : {None} \cup Procs, reports : SUBSET Reports, read : Seq(Procs) \cup {Absent},
     met : SUBSET Procs]

LEMMA ScanProgram ==
    ASSUME ControlOK, NEW p \in Procs, pc[p] \in ScanPoints \/ program[p].name = "scan"
    PROVE  program[p].name = "scan" /\ program[p].size \in Nat \ {0} /\ program[p].malicious \in BOOLEAN
<1>1. program[p].name \in {"analyze", "train", "scan", "load", "export", "done"}
  BY SharedAssumption DEF ControlOK, Programs, CommandPrograms, ScanPrograms, ExportPrograms
<1>2. program[p].name = "scan"
  BY <1>1 DEF ControlOK, ScanPoints, PointsOf, Ended
<1> QED  BY <1>2, SharedAssumption
         DEF ControlOK, Programs, CommandPrograms, ScanPrograms, ExportPrograms

LEMMA BytesType ==
    ASSUME ControlOK, NEW p \in Procs, program[p].name = "scan"
    PROVE  /\ Bytes(p) \in Seq(Procs)
           /\ Bytes(p) # <<>> /\ \A i \in DOMAIN Bytes(p) : Bytes(p)[i] = p
           /\ 1 \in DOMAIN Bytes(p)
<1>1. program[p].size \in Nat \ {0}  BY ScanProgram
<1> QED  BY <1>1 DEF Bytes

\* Of the bytes of one scan, yara finds what is in them.
LEMMA MatchesOfOne ==
    ASSUME ControlOK, NEW p \in Procs, program[p].name = "scan", TRUE \in Matches(Bytes(p))
    PROVE  program[p].malicious
<1>1. ~\E i, j \in DOMAIN Bytes(p) : Bytes(p)[i] # Bytes(p)[j]  BY BytesType
<1>2. PICK q \in Procs : program[q].name = "scan" /\ Bytes(p) = Bytes(q) /\ program[q].malicious = TRUE
  BY <1>1 DEF Matches
<1>3. q = p  BY <1>2, BytesType
<1> QED  BY <1>2, <1>3

LEMMA MatchesType ==
    ASSUME ControlOK, NEW bytes
    PROVE  Matches(bytes) \subseteq BOOLEAN
<1>1. \A q \in Procs : program[q].name = "scan" => program[q].malicious \in BOOLEAN
  BY ScanProgram
<1> QED  BY <1>1 DEF Matches

\* Steps that leave the files and the records of scans as they are.
LEMMA ScanStays ==
    ASSUME ScanInv, NEW p \in Procs, UNCHANGED scanVars, program' = program,
           pc'[p] = pc[p] \/ pc'[p] \notin ScanPoints,
           \A q \in Procs : q # p => pc'[q] = pc[q]
    PROVE  ScanInv'
<1>1. scanFile' = scanFile /\ inodes' = inodes /\ scans' = scans  BY DEF scanVars
<1>2. \A q \in Procs : Bytes(q)' = Bytes(q)  BY DEF Bytes
<1>3. \A q \in Procs : AtTheFile(q)' => AtTheFile(q)
  BY DEF AtTheFile, ScanPoints
<1>4. \A q \in Procs : Scanning(q)'
  BY <1>1, <1>2, <1>3 DEF ScanInv, Scanning, ScanPoints
<1>5. \A q \in Procs : Alone(q)'
  BY <1>1, <1>2 DEF ScanInv, Alone, ScanPoints
<1>6. \A q, r \in Procs : Meet(q, r)'  BY <1>1, <1>3 DEF ScanInv, Meet
<1> QED  BY <1>1, <1>4, <1>5, <1>6 DEF ScanInv, ScanTypeOK

\* A step of p that changes its own record and, where another scan is alone at
\* the file, not the file.
LEMMA ScanMove ==
    ASSUME ScanInv, NEW p \in Procs, program' = program,
           \A q \in Procs : q # p => pc'[q] = pc[q] /\ scans'[q] = scans[q],
           AtTheFile(p)' => AtTheFile(p), scans'[p].met = scans[p].met,
           \/ scanFile' = scanFile /\ inodes' = inodes
           \/ AtTheFile(p),
           ScanTypeOK', Scanning(p)', Alone(p)'
    PROVE  ScanInv'
<1>1. \A q \in Procs : Bytes(q)' = Bytes(q)  BY DEF Bytes
<1>2. \A q \in Procs : q # p => (AtTheFile(q)' <=> AtTheFile(q))  BY DEF AtTheFile
<1>3. \A q, r \in Procs : Meet(q, r)'  BY <1>2 DEF ScanInv, Meet
<1>4. ASSUME NEW q \in Procs, q # p  PROVE Scanning(q)'
  BY <1>1, <1>2, <1>4 DEF ScanInv, Scanning
<1>5. ASSUME NEW q \in Procs, q # p  PROVE Alone(q)'
  <2>1. Alone(q) /\ Meet(q, p)  BY DEF ScanInv
  <2>2. CASE AtTheFile(q) /\ AtTheFile(p)
    <3>1. scans'[q].met # {}  BY <1>5, <2>1, <2>2 DEF Meet
    <3> QED  BY <3>1 DEF Alone
  <2>3. CASE ~AtTheFile(q)
    <3>1. pc'[q] \notin {"fill_scan", "run_yara"}  BY <1>5, <2>3 DEF AtTheFile
    <3> QED  BY <3>1 DEF Alone
  <2>4. CASE scanFile' = scanFile /\ inodes' = inodes
    BY <1>1, <1>5, <2>1, <2>4 DEF Alone
  <2> QED  BY <2>2, <2>3, <2>4
<1>6. \A q \in Procs : Scanning(q)' /\ Alone(q)'
  <2>1. ASSUME NEW q \in Procs, q = p  PROVE Scanning(q)' /\ Alone(q)'
    BY <2>1 DEF Scanning, Alone
  <2> QED  BY <1>4, <1>5, <2>1
<1> QED  BY <1>3, <1>6 DEF ScanInv

LEMMA ScanKeeps ==
    ASSUME ControlOK, ScanInv, NEW p \in Procs, ScanStep(p) \/ ScanFileFails(p)
    PROVE  ScanInv'
<1>1. /\ scans \in [Procs -> ScanRecords] /\ scans[p] \in ScanRecords
      /\ inodes \in [Procs -> Seq(Procs)] /\ scanFile \in {None} \cup Procs
  BY DEF ScanInv, ScanTypeOK, ScanRecords
<1>2. /\ Moves(p, ScanPoints) /\ program' = program /\ pc[p] \in ScanPoints
      /\ \A to : pc' = [pc EXCEPT ![p] = to] => pc'[p] = to
      /\ \A q \in Procs : q # p => pc'[q] = pc[q]
  BY ScanMoves DEF Moves, ControlOK
<1>3. Scanning(p) /\ Alone(p)  BY DEF ScanInv
<1>4. program[p].name = "scan" /\ Bytes(p) \in Seq(Procs) /\ Bytes(p)' = Bytes(p)
  BY <1>2, ScanProgram, BytesType DEF Bytes
<1>5. ASSUME scans' \in [Procs -> ScanRecords], inodes' \in [Procs -> Seq(Procs)],
             scanFile' \in {None} \cup Procs
      PROVE  ScanTypeOK'
  BY <1>5 DEF ScanTypeOK, ScanRecords
<1>6. CASE VirusTotal(p)
  <2>1. PICK reports \in {{}} \cup
            IF program[p].vt
            THEN {{[source |-> "VirusTotal", malicious |-> b]} : b \in BOOLEAN}
            ELSE {} :
          scans' = [scans EXCEPT ![p].reports = reports]
    BY <1>6 DEF VirusTotal
  <2>2. reports \in SUBSET Reports /\ YaraReport \notin reports
    BY <2>1 DEF Reports, YaraReport
  <2>3. /\ scans' \in [Procs -> ScanRecords]
        /\ scans'[p].reports = reports /\ scans'[p].met = scans[p].met
        /\ scans'[p].read = scans[p].read
        /\ \A q \in Procs : q # p => scans'[q] = scans[q]
    BY <1>1, <2>1, <2>2 DEF ScanRecords
  <2>4. pc[p] = "scan" /\ pc'[p] \in {"open_scan", "done"}  BY <1>2, <1>6 DEF VirusTotal, Goes
  <2>5. scanFile' = scanFile /\ inodes' = inodes  BY <1>6 DEF VirusTotal
  <2>6. Scanning(p)' /\ Alone(p)' /\ ~AtTheFile(p)'
    BY <1>3, <2>2, <2>3, <2>4 DEF Scanning, Alone, AtTheFile
  <2>7. ScanTypeOK'  BY <1>1, <1>5, <2>3, <2>5
  <2> QED  BY <1>2, <2>3, <2>5, <2>6, <2>7, ScanMove
<1>7. CASE OpenScanFile(p)
  <2> DEFINE inode == IF scanFile = None THEN p ELSE scanFile
             mine == [scans[p] EXCEPT !.fd = inode, !.met = {r \in Procs : AtTheFile(r)}]
  <2>1. inode \in Procs  BY <1>1
  <2>2. /\ scanFile' = inode /\ inodes' = [inodes EXCEPT ![inode] = <<>>]
        /\ scans' = [q \in Procs |-> IF q = p THEN mine
                                     ELSE IF AtTheFile(q) THEN [scans[q] EXCEPT !.met = @ \cup {p}]
                                     ELSE scans[q]]
    BY <1>7 DEF OpenScanFile, OpenedEmpty
  <2>3. pc[p] = "open_scan" /\ pc'[p] = "fill_scan"  BY <1>2, <1>7 DEF OpenScanFile, Goes
  <2> HIDE DEF inode
  <2>4. mine \in ScanRecords  BY <1>1, <2>1 DEF ScanRecords
  <2>5. \A q \in Procs : AtTheFile(q) => [scans[q] EXCEPT !.met = @ \cup {p}] \in ScanRecords
    BY <1>1 DEF ScanRecords
  <2>6. /\ scans'[p].fd = inode /\ scans'[p].met = {r \in Procs : AtTheFile(r)}
        /\ scans'[p].read = scans[p].read /\ scans'[p].reports = scans[p].reports
    BY <1>1, <2>2 DEF ScanRecords
  <2>7. ASSUME NEW q \in Procs, q # p
        PROVE  /\ scans'[q].met = IF AtTheFile(q) THEN scans[q].met \cup {p} ELSE scans[q].met
               /\ scans'[q].fd = scans[q].fd /\ scans'[q].read = scans[q].read
               /\ scans'[q].reports = scans[q].reports
    BY <1>1, <2>2, <2>7 DEF ScanRecords
  <2> HIDE DEF mine
  <2>8. ScanTypeOK'
    <3>1. scans' \in [Procs -> ScanRecords]  BY <1>1, <2>2, <2>4, <2>5
    <3>2. inodes' \in [Procs -> Seq(Procs)]  BY <1>1, <2>1, <2>2
    <3> QED  BY <1>5, <2>1, <2>2, <3>1, <3>2
  <2>9. /\ AtTheFile(p)' /\ ~AtTheFile(p)
        /\ \A q \in Procs : q # p => (AtTheFile(q)' <=> AtTheFile(q))
    BY <1>2, <2>3 DEF AtTheFile
  <2>10. \A q, r \in Procs : Meet(q, r)'
    <3> SUFFICES ASSUME NEW q \in Procs, NEW r \in Procs, q # r, AtTheFile(q)', AtTheFile(r)'
                 PROVE  r \in scans'[q].met
      BY DEF Meet
    <3>1. CASE q = p  BY <2>6, <2>9, <3>1
    <3>2. CASE r = p  BY <2>7, <2>9, <3>2
    <3>3. CASE q # p /\ r # p
      <4>1. Meet(q, r) /\ AtTheFile(q) /\ AtTheFile(r)  BY <2>9, <3>3 DEF ScanInv
      <4>2. r \in scans[q].met  BY <4>1 DEF Meet
      <4> QED  BY <2>7, <3>3, <4>2
    <3> QED  BY <3>1, <3>2, <3>3
  <2>11. Scanning(p)'
    BY <1>3, <2>1, <2>3, <2>6, <1>4 DEF Scanning
  <2>12. Alone(p)'
    BY <1>1, <2>1, <2>2, <2>3, <2>6 DEF Alone
  <2>13. ASSUME NEW q \in Procs, q # p  PROVE Scanning(q)' /\ Alone(q)'
    <3>1. Scanning(q) /\ Alone(q)  BY DEF ScanInv
    <3>2. Bytes(q)' = Bytes(q)  BY <1>2 DEF Bytes
    <3>3. CASE AtTheFile(q)
      <4>1. scans'[q].met # {}  BY <2>7, <2>13, <3>3
      <4> QED  BY <1>2, <2>7, <2>9, <2>13, <3>1, <3>2, <4>1 DEF Scanning, Alone
    <3>4. CASE ~AtTheFile(q)
      <4>1. pc'[q] \notin {"fill_scan", "run_yara"}  BY <1>2, <2>13, <3>4 DEF AtTheFile
      <4>2. scans'[q].met = scans[q].met  BY <2>7, <2>13, <3>4
      <4>3. Alone(q)'  BY <4>1 DEF Alone
      <4>4. Scanning(q)'  BY <1>2, <2>7, <2>9, <2>13, <3>1, <3>2, <4>2 DEF Scanning
      <4> QED  BY <4>3, <4>4
    <3> QED  BY <3>3, <3>4
  <2> QED
    <3>1. \A q \in Procs : Scanning(q)' /\ Alone(q)'
      <4>1. ASSUME NEW q \in Procs, q = p  PROVE Scanning(q)' /\ Alone(q)'
        BY <2>11, <2>12, <4>1 DEF Scanning, Alone
      <4> QED  BY <2>13, <4>1
    <3> QED  BY <2>8, <2>10, <3>1 DEF ScanInv
<1>8. CASE FillScanFile(p)
  <2>1. pc[p] = "fill_scan" /\ pc'[p] = "run_yara"  BY <1>2, <1>8 DEF FillScanFile, Goes
  <2>2. AtTheFile(p) /\ scans[p].fd \in Procs  BY <1>3, <2>1 DEF AtTheFile, Scanning
  <2>3. /\ inodes' = [inodes EXCEPT ![scans[p].fd] = Overwrite(inodes[scans[p].fd], Bytes(p))]
        /\ scanFile' = scanFile /\ scans' = scans
    BY <1>8 DEF FillScanFile
  <2>4. Overwrite(inodes[scans[p].fd], Bytes(p)) \in Seq(Procs)
    BY <1>1, <1>4, <2>2, OverwriteType
  <2>5. ScanTypeOK'  BY <1>1, <1>5, <2>2, <2>3, <2>4
  <2>6. Scanning(p)'  BY <1>3, <1>4, <2>1, <2>2, <2>3 DEF Scanning
  <2>7. Alone(p)'
    <3> SUFFICES ASSUME scans[p].met = {}
                 PROVE  scanFile = scans[p].fd /\ inodes'[scanFile] = Bytes(p)
      BY <1>4, <2>1, <2>3 DEF Alone
    <3>1. scanFile = scans[p].fd /\ inodes[scanFile] = <<>>  BY <1>3, <2>1 DEF Alone
    <3> QED  BY <1>1, <1>4, <2>2, <2>3, <3>1, OverwriteEmpty
  <2> QED  BY <1>2, <2>2, <2>3, <2>5, <2>6, <2>7, ScanMove
<1>9. CASE RunYara(p)
  <2> DEFINE bytes == IF scanFile = None THEN <<>> ELSE inodes[scanFile]
  <2>1. pc[p] = "run_yara" /\ pc'[p] = "remove_scan"  BY <1>2, <1>9 DEF RunYara, Goes
  <2>2. PICK matches \in Matches(bytes) :
          scans' = [scans EXCEPT
                     ![p].read = bytes,
                     ![p].reports = IF matches THEN @ \cup {YaraReport} ELSE @]
    BY <1>9 DEF RunYara, YaraReport
  <2>3. scanFile' = scanFile /\ inodes' = inodes  BY <1>9 DEF RunYara
  <2>4. bytes \in Seq(Procs) /\ matches \in BOOLEAN  BY <1>1, <2>2, MatchesType
  <2>5. AtTheFile(p) /\ scans[p].fd \in Procs  BY <1>3, <2>1 DEF AtTheFile, Scanning
  <2>6. scans[p].met = {} => bytes = Bytes(p)
    <3> SUFFICES ASSUME scans[p].met = {}  PROVE bytes = Bytes(p)
      OBVIOUS
    <3>1. scanFile = scans[p].fd /\ inodes[scanFile] = Bytes(p)  BY <1>3, <2>1 DEF Alone
    <3>2. scanFile # None  BY <2>5, <3>1, SharedAssumption
    <3> QED  BY <3>1, <3>2
  <2>7. scans[p].met = {} /\ matches => program[p].malicious
    BY <1>4, <2>2, <2>4, <2>6, MatchesOfOne
  <2> HIDE DEF bytes
  <2>8. YaraReport \in Reports  BY DEF YaraReport, Reports
  <2>9. /\ scans'[p].read = bytes /\ scans'[p].met = scans[p].met /\ scans'[p].fd = scans[p].fd
        /\ scans'[p].reports = IF matches THEN scans[p].reports \cup {YaraReport} ELSE scans[p].reports
        /\ \A q \in Procs : q # p => scans'[q] = scans[q]
    BY <1>1, <2>2 DEF ScanRecords
  <2>10. scans' \in [Procs -> ScanRecords]
    <3>1. scans' = [scans EXCEPT ![p] = [scans[p] EXCEPT !.read = bytes, !.reports = scans'[p].reports]]
      BY <1>1, <2>2, <2>9 DEF ScanRecords
    <3>2. scans'[p].reports \in SUBSET Reports  BY <1>1, <2>8, <2>9 DEF ScanRecords
    <3>3. [scans[p] EXCEPT !.read = bytes, !.reports = scans'[p].reports] \in ScanRecords
      BY <1>1, <2>4, <3>2 DEF ScanRecords
    <3> QED  BY <1>1, <3>1, <3>3
  <2>11. ScanTypeOK'  BY <1>1, <1>5, <2>3, <2>10
  <2>12. YaraReport \notin scans[p].reports  BY <1>3, <2>1 DEF Scanning
  <2>13. Scanning(p)'
    BY <1>2, <1>4, <2>1, <2>5, <2>6, <2>7, <2>9, <2>12 DEF Scanning
  <2>14. Alone(p)'  BY <2>1 DEF Alone
  <2> QED  BY <1>2, <2>3, <2>5, <2>9, <2>11, <2>13, <2>14, ScanMove
<1>10. CASE RemoveScanFile(p)
  <2>1. pc[p] = "remove_scan" /\ pc'[p] = "done"  BY <1>2, <1>10 DEF RemoveScanFile, Goes
  <2>2. scanFile' = None /\ inodes' = inodes /\ scans' = scans  BY <1>10 DEF RemoveScanFile
  <2>3. AtTheFile(p) /\ ~AtTheFile(p)'  BY <2>1 DEF AtTheFile
  <2>4. Scanning(p)' /\ Alone(p)'
    BY <1>2, <1>3, <1>4, <2>1, <2>2, <2>3 DEF Scanning, Alone
  <2>5. ScanTypeOK'  BY <1>1, <1>5, <2>2
  <2> QED  BY <1>2, <2>2, <2>3, <2>4, <2>5, ScanMove
<1>11. CASE ScanFileFails(p)
  <2>1. pc[p] \in {"open_scan", "fill_scan"} /\ pc'[p] = "done"
    BY <1>2, <1>11 DEF ScanFileFails, Faulty
  <2>2. scanFile' = scanFile /\ scans' = scans  BY <1>11 DEF ScanFileFails
  <2>3. inodes' = inodes \/ AtTheFile(p)
    BY <1>11 DEF ScanFileFails, Faulty, AtTheFile
  <2>4. inodes' \in [Procs -> Seq(Procs)]
    <3>1. CASE inodes' = inodes  BY <1>1, <3>1
    <3>2. CASE /\ pc[p] = "fill_scan"
               /\ \E left \in Beginnings(inodes[scans[p].fd], Bytes(p)) :
                    inodes' = [inodes EXCEPT ![scans[p].fd] = left]
      <4>1. scans[p].fd \in Procs  BY <1>3, <3>2 DEF AtTheFile, Scanning
      <4>2. \A left \in Beginnings(inodes[scans[p].fd], Bytes(p)) : left \in Seq(Procs)
        BY <1>1, <1>4, <4>1, BeginningsType
      <4> QED  BY <1>1, <3>2, <4>1, <4>2
    <3> QED  BY <1>11, <3>1, <3>2 DEF ScanFileFails, Faulty
  <2>5. ScanTypeOK'  BY <1>1, <1>5, <2>2, <2>4
  <2>6. ~AtTheFile(p)' /\ Scanning(p)' /\ Alone(p)'
    BY <1>2, <1>3, <1>4, <2>1, <2>2 DEF Scanning, Alone, AtTheFile
  <2> QED  BY <1>2, <2>2, <2>3, <2>5, <2>6, ScanMove
<1> QED  BY <1>6, <1>7, <1>8, <1>9, <1>10, <1>11 DEF ScanStep

LEMMA ScanKilledKeeps ==
    ASSUME ControlOK, ScanInv, NEW p \in Procs, Killed(p), ScanKilled(p)
    PROVE  ScanInv'
<1>1. scanFile' = scanFile /\ scans' = scans /\ program' = program /\ pc'[p] = "killed"
  BY DEF ScanKilled, Killed, ControlOK
<1>2. \A q \in Procs : q # p => pc'[q] = pc[q]  BY DEF Killed, ControlOK
<1>3. Scanning(p) /\ Bytes(p)' = Bytes(p)  BY <1>1 DEF ScanInv, Bytes
<1>4. inodes' = inodes \/ AtTheFile(p)  BY DEF ScanKilled, AtTheFile
<1>5. ScanTypeOK'
  <2>1. inodes \in [Procs -> Seq(Procs)]  BY DEF ScanInv, ScanTypeOK
  <2>2. inodes' \in [Procs -> Seq(Procs)]
    <3>1. CASE pc[p] # "fill_scan"  BY <2>1, <3>1 DEF ScanKilled
    <3>2. CASE pc[p] = "fill_scan"
      <4>1. scans[p].fd \in Procs  BY <1>3, <3>2 DEF AtTheFile, Scanning
      <4>2. Bytes(p) \in Seq(Procs)
        BY <3>2, ScanProgram, BytesType DEF ScanPoints
      <4>3. \A left \in Beginnings(inodes[scans[p].fd], Bytes(p)) : left \in Seq(Procs)
        BY <2>1, <4>1, <4>2, BeginningsType
      <4> QED  BY <2>1, <3>2, <4>1, <4>3 DEF ScanKilled
    <3> QED  BY <3>1, <3>2
  <2> QED  BY <1>1, <2>2 DEF ScanInv, ScanTypeOK
<1>6. ~AtTheFile(p)' /\ Scanning(p)' /\ Alone(p)'
  BY <1>1, <1>3 DEF Scanning, Alone, AtTheFile
<1> QED  BY <1>1, <1>2, <1>4, <1>5, <1>6, ScanMove

LEMMA ScanNext ==
    ASSUME ControlOK, ScanInv, [Next]_vars
    PROVE  ScanInv'
<1>1. CASE UNCHANGED vars
  BY <1>1
  DEF vars, processVars, scanVars, ScanInv, ScanTypeOK, Scanning, Alone, Meet, AtTheFile, Bytes
<1>2. ASSUME NEW p \in Procs, Step(p)  PROVE ScanInv'
  <2>1. ScanDoes(p) \/ (UNCHANGED scanVars /\ Elsewhere(p, {ScanPoints}))  BY <1>2, Split
  <2>2. CASE ScanStep(p) \/ ScanFileFails(p)  BY <2>2, ScanKeeps
  <2>3. CASE Killed(p) /\ ScanKilled(p)  BY <2>3, ScanKilledKeeps
  <2>4. CASE UNCHANGED scanVars /\ Elsewhere(p, {ScanPoints})
    <3>1. PICK points \in KindsOfPoints \ {ScanPoints} : Moves(p, points)
      BY <2>4 DEF Elsewhere
    <3>2. pc'[p] \notin ScanPoints
      BY <3>1
      DEF Moves, KindsOfPoints, AnalyzePoints, TrainPoints, ScanPoints, LoadPoints, ExportPoints,
          Ended
    <3>3. program' = program /\ \A q \in Procs : q # p => pc'[q] = pc[q]
      BY <1>2, <3>1, OthersStay DEF Moves
    <3> QED  BY <2>4, <3>2, <3>3, ScanStays
  <2> QED  BY <2>1, <2>2, <2>3, <2>4 DEF ScanDoes
<1> QED  BY <1>1, <1>2, Steps

LEMMA ScanInitOK ==
    ASSUME Init
    PROVE  ScanInv
<1>1. /\ scanFile = None /\ inodes = [p \in Procs |-> <<>>] /\ scans = [p \in Procs |-> NewScan]
  BY DEF Init, ScanInit
<1>2. \A p \in Procs : pc[p] \notin {"fill_scan", "run_yara", "remove_scan"}  BY NoneOfThese
<1>3. NewScan \in [fd : {None} \cup Procs, reports : SUBSET Reports,
                   read : Seq(Procs) \cup {Absent}, met : SUBSET Procs]
  BY DEF NewScan
<1>4. \A p \in Procs : scans[p].read = Absent /\ scans[p].reports = {}  BY <1>1 DEF NewScan
<1>5. \A p \in Procs : Scanning(p) /\ Alone(p)
  BY <1>2, <1>4 DEF Scanning, Alone, AtTheFile
<1>6. \A p, q \in Procs : Meet(p, q)  BY <1>2 DEF Meet, AtTheFile
<1> QED  BY <1>1, <1>3, <1>5, <1>6 DEF ScanInv, ScanTypeOK

LEMMA ScanAlways == Spec => [](ControlOK /\ ScanInv)
<1>1. Init => ControlOK /\ ScanInv  BY ControlInit, ScanInitOK
<1>2. ControlOK /\ ScanInv /\ [Next]_vars => (ControlOK /\ ScanInv)'
  BY ControlStep, ScanNext
<1> QED  BY <1>1, <1>2, PTL DEF Spec

\* A scan that met no other at the file has had yara read its own bytes, of any
\* size, whatever other scans have left in the file or were killed with it
\* (threat_intel.rs, scan_yara).
THEOREM LoneScans == Spec => []LoneScansSeeTheirBytes
<1>1. ScanInv => LoneScansSeeTheirBytes
  BY DEF ScanInv, Scanning, YaraReport, LoneScansSeeTheirBytes
<1> QED  BY <1>1, ScanAlways, PTL

-----------------------------------------------------------------------------
(* Exports.                                                                *)

LEMMA ExportProgram ==
    ASSUME ControlOK, NEW p \in Procs, pc[p] \in ExportPoints \/ program[p].name = "export"
    PROVE  /\ program[p].name = "export"
           /\ program[p].protocol \in {"udp", "tcp"} /\ program[p].result \in Exported
<1>1. program[p].name \in {"analyze", "train", "scan", "load", "export", "done"}
  BY SharedAssumption DEF ControlOK, Programs, CommandPrograms, ScanPrograms, ExportPrograms
<1>2. program[p].name = "export"
  BY <1>1 DEF ControlOK, ExportPoints, PointsOf, Ended
<1> QED  BY <1>2, SharedAssumption
         DEF ControlOK, Programs, CommandPrograms, ScanPrograms, ExportPrograms, Exported, Risks

\* What there may be of an export: its line as a datagram; any first part of
\* the line on the connection, or the whole line and the newline.
Sending(p) ==
    /\ program[p].name = "export" =>
        /\ datagrams[p] \subseteq {MessageOf(p)}
        /\ \/ \E n \in 0..Len(MessageOf(p)) : sent[p] = SubSeq(MessageOf(p), 1, n)
           \/ sent[p] = Append(MessageOf(p), "nl")
        /\ pc[p] = "newline" => sent[p] = MessageOf(p)
    /\ program[p].name # "export" => datagrams[p] = {} /\ sent[p] = <<>>

ExportInv ==
    /\ DOMAIN sent = Procs /\ DOMAIN datagrams = Procs
    /\ \A p \in Procs : Sending(p)

LEMMA MessageOfType ==
    ASSUME ControlOK, NEW p \in Procs, program[p].name = "export"
    PROVE  MessageOf(p) \in Seq(Chars)
  BY ExportProgram, MessageType DEF MessageOf

LEMMA PlainMessage ==
    ASSUME ControlOK, NEW p \in Procs, program[p].name = "export", IdsArePlain(p)
    PROVE  /\ MessageOf(p) \in Seq(Quiet)
           /\ ReadLine(MessageOf(p)) = [header |-> Header(program[p].format, program[p].result),
                                        fields |-> FieldsOf(program[p].format, program[p].result)]
<1>1. PlainIds(program[p].format, program[p].result)  BY DEF IdsArePlain, PlainIds
<1> QED  BY <1>1, ExportProgram, MessagesReadBack DEF MessageOf

\* A step of p that leaves the connections and datagrams of others alone.
SentBy(p) ==
    /\ program' = program
    /\ \A q \in Procs : q # p => pc'[q] = pc[q] /\ sent'[q] = sent[q] /\ datagrams'[q] = datagrams[q]
    /\ DOMAIN sent' = Procs /\ DOMAIN datagrams' = Procs

LEMMA SentByKeeps ==
    ASSUME ExportInv, NEW p \in Procs, SentBy(p), Sending(p)'
    PROVE  ExportInv'
<1>1. \A q \in Procs : MessageOf(q)' = MessageOf(q)  BY DEF SentBy, MessageOf
<1>2. ASSUME NEW q \in Procs, q # p  PROVE Sending(q)'
  BY <1>1, <1>2 DEF SentBy, ExportInv, Sending
<1>3. \A q \in Procs : Sending(q)'
  <2>1. ASSUME NEW q \in Procs, q = p  PROVE Sending(q)'
    BY <2>1 DEF Sending
  <2> QED  BY <1>2, <2>1
<1> QED  BY <1>3 DEF SentBy, ExportInv

\* Any part of the line is sent, or nothing more.
LEMMA PartSent ==
    ASSUME ControlOK, ExportInv, NEW p \in Procs, program' = program,
           pc' = [pc EXCEPT ![p] = pc'[p]], pc'[p] # "newline",
           (pc[p] = "export" /\ SentInPart(p)) \/ UNCHANGED syslogVars
    PROVE  ExportInv'
<1>1. Sending(p) /\ MessageOf(p)' = MessageOf(p)  BY DEF ExportInv, MessageOf
<1>2. \A q \in Procs : q # p => pc'[q] = pc[q]  BY DEF ControlOK
<1>3. CASE UNCHANGED syslogVars
  <2>1. SentBy(p)  BY <1>2, <1>3 DEF SentBy, syslogVars, ExportInv
  <2>2. Sending(p)'  BY <1>1, <1>3 DEF Sending, syslogVars
  <2> QED  BY <2>1, <2>2, SentByKeeps
<1>4. CASE pc[p] = "export" /\ SentInPart(p)
  <2>1. program[p].name = "export"  BY <1>4, ExportProgram DEF ExportPoints
  <2>2. MessageOf(p) \in Seq(Chars)  BY <2>1, MessageOfType
  <2>3. PICK n \in 0..Len(MessageOf(p)) : sent' = [sent EXCEPT ![p] = SubSeq(MessageOf(p), 1, n)]
    <3>1. 0 \in 0..Len(MessageOf(p))  BY <2>2
    <3> QED  BY <1>4, <3>1 DEF SentInPart
  <2>4. datagrams' = datagrams  BY <1>4 DEF SentInPart
  <2>5. SentBy(p)  BY <1>2, <2>3, <2>4 DEF SentBy, ExportInv
  <2>6. sent'[p] = SubSeq(MessageOf(p), 1, n)  BY <2>3 DEF ExportInv
  <2>7. Sending(p)'  BY <1>1, <2>1, <2>4, <2>6 DEF Sending
  <2> QED  BY <2>5, <2>7, SentByKeeps
<1> QED  BY <1>3, <1>4

LEMMA ExportKeeps ==
    ASSUME ControlOK, ExportInv, NEW p \in Procs, ExportStep(p) \/ SendFails(p)
    PROVE  ExportInv'
<1>1. Sending(p) /\ DOMAIN sent = Procs /\ DOMAIN datagrams = Procs  BY DEF ExportInv
<1>2. CASE SendUdp(p)
  <2>1. /\ pc[p] = "export" /\ pc' = [pc EXCEPT ![p] = "done"] /\ program' = program
        /\ datagrams' = [datagrams EXCEPT ![p] = @ \cup {MessageOf(p)}] /\ sent' = sent
    BY <1>2 DEF SendUdp, Goes
  <2>2. SentBy(p)  BY <1>1, <2>1 DEF SentBy, ControlOK
  <2>3. program[p].name = "export"  BY <2>1, ExportProgram DEF ExportPoints
  <2>4. pc'[p] = "done" /\ datagrams'[p] = datagrams[p] \cup {MessageOf(p)} /\ MessageOf(p)' = MessageOf(p)
    BY <1>1, <2>1 DEF ControlOK, MessageOf
  <2>5. Sending(p)'  BY <1>1, <2>1, <2>3, <2>4 DEF Sending
  <2> QED  BY <2>2, <2>5, SentByKeeps
<1>3. CASE SendTcp(p)
  <2>1. /\ pc[p] = "export" /\ pc' = [pc EXCEPT ![p] = "newline"] /\ program' = program
        /\ sent' = [sent EXCEPT ![p] = MessageOf(p)] /\ datagrams' = datagrams
    BY <1>3 DEF SendTcp, Goes
  <2>2. SentBy(p)  BY <1>1, <2>1 DEF SentBy, ControlOK
  <2>3. program[p].name = "export"  BY <2>1, ExportProgram DEF ExportPoints
  <2>4. sent'[p] = MessageOf(p) /\ MessageOf(p)' = MessageOf(p)
    BY <1>1, <2>1 DEF ControlOK, MessageOf
  <2>5. MessageOf(p) \in Seq(Chars)  BY <2>3, MessageOfType
  <2>6. \E n \in 0..Len(MessageOf(p)) : MessageOf(p) = SubSeq(MessageOf(p), 1, n)
    <3>1. Len(MessageOf(p)) \in 0..Len(MessageOf(p))  BY <2>5
    <3>2. MessageOf(p) = SubSeq(MessageOf(p), 1, Len(MessageOf(p)))  BY <2>5
    <3> QED  BY <3>1, <3>2
  <2>7. Sending(p)'  BY <1>1, <2>1, <2>3, <2>4, <2>6 DEF Sending
  <2> QED  BY <2>2, <2>7, SentByKeeps
<1>4. CASE SendNewline(p)
  <2>1. /\ pc[p] = "newline" /\ pc' = [pc EXCEPT ![p] = "done"] /\ program' = program
        /\ sent' = [sent EXCEPT ![p] = Append(@, "nl")] /\ datagrams' = datagrams
    BY <1>4 DEF SendNewline, Goes
  <2>2. SentBy(p)  BY <1>1, <2>1 DEF SentBy, ControlOK
  <2>3. program[p].name = "export"  BY <2>1, ExportProgram DEF ExportPoints
  <2>4. sent[p] = MessageOf(p)  BY <1>1, <2>1, <2>3 DEF Sending
  <2>5. pc'[p] = "done" /\ sent'[p] = Append(MessageOf(p), "nl") /\ MessageOf(p)' = MessageOf(p)
    BY <1>1, <2>1, <2>4 DEF ControlOK, MessageOf
  <2>6. Sending(p)'  BY <1>1, <2>1, <2>3, <2>5 DEF Sending
  <2> QED  BY <2>2, <2>6, SentByKeeps
<1>5. CASE SendFails(p)
  <2>1. program' = program /\ pc' = [pc EXCEPT ![p] = "failed"]
    BY <1>5 DEF SendFails, Faulty
  <2>2. pc'[p] = "failed"  BY <2>1 DEF ControlOK
  <2>3. (pc[p] = "export" /\ SentInPart(p)) \/ UNCHANGED syslogVars
    BY <1>5 DEF SendFails, Faulty
  <2> QED  BY <2>1, <2>2, <2>3, PartSent
<1> QED  BY <1>2, <1>3, <1>4, <1>5 DEF ExportStep

LEMMA ExportNext ==
    ASSUME ControlOK, ExportInv, [Next]_vars
    PROVE  ExportInv'
<1>1. CASE UNCHANGED vars
  BY <1>1 DEF vars, processVars, syslogVars, ExportInv, Sending, MessageOf
<1>2. ASSUME NEW p \in Procs, Step(p)  PROVE ExportInv'
  <2>1. ExportDoes(p) \/ (UNCHANGED syslogVars /\ Elsewhere(p, {ExportPoints}))  BY <1>2, Split
  <2>2. CASE ExportStep(p) \/ SendFails(p)  BY <2>2, ExportKeeps
  <2>3. CASE Killed(p) /\ ExportKilled(p)
    <3>1. program' = program /\ pc' = [pc EXCEPT ![p] = "killed"]  BY <2>3 DEF Killed
    <3>2. pc'[p] = "killed"  BY <3>1 DEF ControlOK
    <3>3. (pc[p] = "export" /\ SentInPart(p)) \/ UNCHANGED syslogVars  BY <2>3 DEF ExportKilled
    <3> QED  BY <3>1, <3>2, <3>3, PartSent
  <2>4. CASE UNCHANGED syslogVars /\ Elsewhere(p, {ExportPoints})
    <3>1. PICK points \in KindsOfPoints \ {ExportPoints} : Moves(p, points)
      BY <2>4 DEF Elsewhere
    <3>2. pc'[p] # "newline"
      BY <3>1
      DEF Moves, KindsOfPoints, AnalyzePoints, TrainPoints, ScanPoints, LoadPoints, ExportPoints,
          Ended
    <3> QED  BY <2>4, <3>1, <3>2, PartSent DEF Moves
  <2> QED  BY <2>1, <2>2, <2>3, <2>4 DEF ExportDoes
<1> QED  BY <1>1, <1>2, Steps

LEMMA ExportInitOK ==
    ASSUME Init
    PROVE  ExportInv
<1>1. sent = [p \in Procs |-> <<>>] /\ datagrams = [p \in Procs |-> {}]
  BY DEF Init, SyslogInit
<1>2. ASSUME NEW p \in Procs, program[p].name = "export"
      PROVE  <<>> = SubSeq(MessageOf(p), 1, 0) /\ 0 \in 0..Len(MessageOf(p))
  <2>1. MessageOf(p) \in Seq(Chars)  BY <1>2, ControlInit, MessageOfType
  <2> QED  BY <2>1
<1>3. \A p \in Procs : pc[p] # "newline"  BY NoneOfThese
<1> QED  BY <1>1, <1>2, <1>3 DEF ExportInv, Sending

\* Of bytes without a newline no line has arrived; of a message without one
\* and a newline after it, the message has.
LEMMA NoLines ==
    ASSUME NEW bytes \in Seq(Quiet)
    PROVE  Lines(bytes) = {}
<1>1. \A i \in DOMAIN bytes : bytes[i] # "nl"  BY DEF Quiet
<1> QED  BY <1>1 DEF Lines

LEMMA OneLine ==
    ASSUME NEW message \in Seq(Quiet), NEW line \in Lines(Append(message, "nl"))
    PROVE  line = message
<1>1. PICK nl : nl = "nl"  OBVIOUS
<1>2. PICK m : m = Len(message)  OBVIOUS
<1>3. PICK bytes : bytes = Append(message, nl)  OBVIOUS
<1>4. nl \notin Quiet  BY <1>1 DEF Quiet
<1>5. /\ DOMAIN bytes = 1..(m + 1) /\ m \in Nat /\ Len(bytes) = m + 1
      /\ \A i \in 1..m : bytes[i] \in Quiet
      /\ bytes[m + 1] = nl
  BY <1>2, <1>3
<1> DEFINE ends == {i \in DOMAIN bytes : bytes[i] = nl}
<1>6. ends = {m + 1}  BY <1>4, <1>5
<1> DEFINE prior(j) == {0} \cup {i \in ends : i < j}
<1>7. Lines(bytes) = {SubSeq(bytes, Max(prior(j)) + 1, j - 1) : j \in ends}
  BY <1>1, Zenon DEF Lines
<1>8. line \in Lines(bytes)  BY <1>1, <1>3, Zenon
<1>9. PICK j \in ends : line = SubSeq(bytes, Max(prior(j)) + 1, j - 1)  BY <1>7, <1>8
<1>10. j = m + 1  BY <1>6, <1>9
<1>11. prior(j) = {0}  BY <1>5, <1>6, <1>10
<1>12. PICK last : last = Max(prior(j))  OBVIOUS
<1> HIDE DEF ends, prior
<1>13. last = 0
  <2>1. prior(j) \in SUBSET (0..0) /\ prior(j) # {}  BY <1>11
  <2> QED  BY <1>12, <2>1, MaxAmong
<1>14. line = SubSeq(bytes, 1, Len(bytes) - 1)  BY <1>5, <1>9, <1>10, <1>12, <1>13
<1>15. message \in Seq(Quiet \cup {nl}) /\ nl \in Quiet \cup {nl}
  BY SeqMonotonic, Quiet \subseteq Quiet \cup {nl}
<1> QED  BY <1>3, <1>14, <1>15, WithoutTheLast

\* What a receiver has in full of a plain message is the message.
LEMMA ReceivedIs ==
    ASSUME ControlOK, ExportInv, NEW p \in Procs, NEW line \in Received(p), IdsArePlain(p)
    PROVE  program[p].name = "export" /\ line = MessageOf(p)
<1>1. Sending(p)  BY DEF ExportInv
<1>2. program[p].name = "export"
  <2>1. <<>> \in Seq(Quiet)  OBVIOUS
  <2>2. Lines(<<>>) = {}  BY <2>1, NoLines
  <2> QED  BY <1>1, <2>2 DEF Sending, Received
<1>3. CASE line \in datagrams[p]  BY <1>1, <1>2, <1>3 DEF Sending
<1>4. CASE line \notin datagrams[p]
  <2>1. line \in Lines(sent[p])  BY <1>4 DEF Received
  <2>2. PICK message : message = MessageOf(p)  OBVIOUS
  <2>3. message \in Seq(Quiet)  BY <1>2, <2>2, PlainMessage
  <2>4. ASSUME NEW n \in 0..Len(message), sent[p] = SubSeq(message, 1, n)  PROVE FALSE
    <3>1. SubSeq(message, 1, n) \in Seq(Quiet)  BY <2>3
    <3> QED  BY <2>1, <2>4, <3>1, NoLines
  <2>5. sent[p] = Append(message, "nl")  BY <1>1, <1>2, <2>2, <2>4 DEF Sending
  <2> QED  BY <1>2, <2>1, <2>2, <2>3, <2>5, OneLine, Zenon
<1> QED  BY <1>3, <1>4

LEMMA ExportAlways == Spec => [](ControlOK /\ ExportInv)
<1>1. Init => ControlOK /\ ExportInv  BY ControlInit, ExportInitOK
<1>2. ControlOK /\ ExportInv /\ [Next]_vars => (ControlOK /\ ExportInv)'
  BY ControlStep, ExportNext
<1> QED  BY <1>1, <1>2, PTL DEF Spec

\* What a receiver has of an export, of values of any length with any symbols
\* in them, over any transport and wherever the export was cut off, is one line
\* which reads back to the fields of the result, where the CVE ids are plain
\* (siem.rs, escape_cef, escape_leef_value, format_cef, format_leef and
\* send_tcp).  NewlinesSplitEvents says what becomes of others.
THEOREM ExportsAreReadBack == Spec => []ExportsReadBack
<1>1. ControlOK /\ ExportInv => ExportsReadBack
  BY ReceivedIs, PlainMessage DEF ExportsReadBack
<1> QED  BY <1>1, ExportAlways, PTL

-----------------------------------------------------------------------------
(* Every process ends: none has a step left that leads it back.            *)

\* The steps a process has left at most, at a point it may be at.
Ahead(at, written) ==
    IF at = "analyze" THEN Pieces + 8
    ELSE IF at = "detect" THEN Pieces + 7
    ELSE IF at = "deepen" THEN Pieces + 6
    ELSE IF at = "open_log" THEN Pieces + 5
    ELSE IF at = "write_entry" THEN Pieces - written + 4
    ELSE IF at = "scan" THEN 5
    ELSE IF at \in {"narrate", "train", "open_scan", "load"} THEN 4
    ELSE IF at \in {"asking", "read_data", "fill_scan", "download"} THEN 3
    ELSE IF at \in {"answered", "save_model", "run_yara", "create_local", "export"} THEN 2
    ELSE IF at \in {"print", "write_model", "remove_scan", "read_local", "fill_local", "newline"} THEN 1
    ELSE 0

StepsLeft(p) == Ahead(pc[p], own[p].written)

\* A step of p brings p closer to its end, and leaves the others where they are.
Nearer(p) ==
    /\ StepsLeft(p) \in Nat /\ StepsLeft(p)' \in Nat
    /\ StepsLeft(p)' < StepsLeft(p)
    /\ \A q \in Procs : q # p => StepsLeft(q)' = StepsLeft(q)

\* From one point to another, both but the entry that is written in pieces.
LEMMA GoesNearer ==
    ASSUME ControlOK, NEW p \in Procs, NEW from, NEW to, Goes(p, from, to) \/ Faulty(p, from, to),
           from # "write_entry", to # "write_entry", Ahead(to, 0) < Ahead(from, 0)
    PROVE  StepsLeft(p)' < StepsLeft(p)
<1>1. pc[p] = from /\ pc'[p] = to  BY DEF Goes, Faulty, ControlOK
<1>2. \A n : Ahead(from, n) = Ahead(from, 0) /\ Ahead(to, n) = Ahead(to, 0)
  BY DEF Ahead
<1> QED  BY <1>1, <1>2 DEF StepsLeft

LEMMA CommandNearer ==
    ASSUME ControlOK, CommandOK, NEW p \in Procs,
           CommandStep(p) \/ ServiceReplies(p) \/ SaveFails(p) \/ LogFails(p)
    PROVE  StepsLeft(p)' < StepsLeft(p)
<1> USE SharedAssumption
<1>1. WritingOK(p) /\ own[p].written \in 0..Pieces /\ DOMAIN own = Procs
  BY DEF CommandOK, CommandTypeOK, Owned
<1>2. CASE LoadModel(p)  BY <1>2, GoesNearer DEF LoadModel, Ahead
<1>3. CASE ReadData(p)  BY <1>3, GoesNearer DEF ReadData, Ahead
<1>4. CASE TruncateModel(p)  BY <1>4, GoesNearer DEF TruncateModel, Ahead
<1>5. CASE WriteModel(p)  BY <1>5, GoesNearer DEF WriteModel, Ahead
<1>6. CASE SaveFails(p)  BY <1>6, GoesNearer DEF SaveFails, Ahead
<1>7. CASE Detect(p)  BY <1>7, GoesNearer DEF Detect, Ahead
<1>8. CASE DetectFails(p)  BY <1>8, GoesNearer DEF DetectFails, Ahead
<1>9. CASE Deepen(p)  BY <1>9, GoesNearer DEF Deepen, Ahead
<1>10. CASE DeepenFails(p)  BY <1>10, GoesNearer DEF DeepenFails, Ahead
<1>11. CASE OpenLog(p)
  <2>1. pc[p] = "open_log" /\ pc'[p] = "write_entry"  BY <1>11 DEF OpenLog, Goes, ControlOK
  <2>2. own'[p].written = 0  BY <1>1, <1>11, <2>1 DEF OpenLog, WritingOK
  <2> QED  BY <2>1, <2>2 DEF StepsLeft, Ahead
<1>12. CASE WriteEntry(p)
  <2> DEFINE n == own[p].written + 1
  <2>1. pc[p] = "write_entry" /\ pc'[p] = IF n = Pieces THEN "narrate" ELSE "write_entry"
    BY <1>12 DEF WriteEntry, Goes, ControlOK
  <2>2. own'[p].written = n /\ n <= Pieces  BY <1>1, <1>12, <2>1 DEF WriteEntry, WritingOK
  <2> QED  BY <1>1, <2>1, <2>2 DEF StepsLeft, Ahead, WritingOK
<1>13. CASE LogFails(p)
  <2>1. pc[p] \in {"open_log", "write_entry"} /\ pc'[p] = "narrate"
    BY <1>13 DEF LogFails, Faulty, ControlOK
  <2> QED  BY <1>1, <2>1 DEF StepsLeft, Ahead, WritingOK
<1>14. CASE AskService(p)  BY <1>14, GoesNearer DEF AskService, Ahead
<1>15. CASE NoNarrative(p)  BY <1>15, GoesNearer DEF NoNarrative, Ahead
<1>16. CASE ServiceReplies(p)  BY <1>16, GoesNearer DEF ServiceReplies, Ahead
<1>17. CASE RequestFails(p)  BY <1>17, GoesNearer DEF RequestFails, Ahead
<1>18. CASE Receive(p)  BY <1>18, GoesNearer DEF Receive, Ahead
<1>19. CASE PrintResult(p)  BY <1>19, GoesNearer DEF PrintResult, Ahead
<1> QED
  BY <1>2, <1>3, <1>4, <1>5, <1>6, <1>7, <1>8, <1>9, <1>10, <1>11, <1>12, <1>13, <1>14, <1>15,
     <1>16, <1>17, <1>18, <1>19 DEF CommandStep

LEMMA ScanNearer ==
    ASSUME ControlOK, NEW p \in Procs, ScanStep(p) \/ ScanFileFails(p)
    PROVE  StepsLeft(p)' < StepsLeft(p)
<1>1. CASE VirusTotal(p)  BY <1>1, GoesNearer DEF VirusTotal, Ahead
<1>2. CASE OpenScanFile(p)
  <2>1. Goes(p, "open_scan", "fill_scan")  BY <1>2 DEF OpenScanFile
  <2>2. Ahead("fill_scan", 0) < Ahead("open_scan", 0)  BY DEF Ahead
  <2> QED  BY <2>1, <2>2, GoesNearer
<1>3. CASE FillScanFile(p)  BY <1>3, GoesNearer DEF FillScanFile, Ahead
<1>4. CASE RunYara(p)  BY <1>4, GoesNearer DEF RunYara, Ahead
<1>5. CASE RemoveScanFile(p)  BY <1>5, GoesNearer DEF RemoveScanFile, Ahead
<1>6. CASE ScanFileFails(p)  BY <1>6, GoesNearer DEF ScanFileFails, Ahead
<1> QED  BY <1>1, <1>2, <1>3, <1>4, <1>5, <1>6 DEF ScanStep

LEMMA LoadNearer ==
    ASSUME ControlOK, NEW p \in Procs, LoadStep(p) \/ LoadFails(p)
    PROVE  StepsLeft(p)' < StepsLeft(p)
<1>1. CASE CheckLocal(p)  BY <1>1, GoesNearer DEF CheckLocal, Ahead
<1>2. CASE ReadLocal(p)  BY <1>2, GoesNearer DEF ReadLocal, Ahead
<1>3. CASE Download(p)  BY <1>3, GoesNearer DEF Download, Ahead
<1>4. CASE DownloadFails(p)  BY <1>4, GoesNearer DEF DownloadFails, Ahead
<1>5. CASE CreateLocal(p)  BY <1>5, GoesNearer DEF CreateLocal, Ahead
<1>6. CASE FillLocal(p)  BY <1>6, GoesNearer DEF FillLocal, Ahead
<1>7. CASE LoadFails(p)  BY <1>7, GoesNearer DEF LoadFails, Ahead
<1> QED  BY <1>1, <1>2, <1>3, <1>4, <1>5, <1>6, <1>7 DEF LoadStep

LEMMA ExportNearer ==
    ASSUME ControlOK, NEW p \in Procs, ExportStep(p) \/ SendFails(p)
    PROVE  StepsLeft(p)' < StepsLeft(p)
  BY GoesNearer DEF Ahead, ExportStep, SendFails, SendUdp, SendTcp, SendNewline

\* A process that runs is not at its end, and one that is killed is.
LEMMA KilledNearer ==
    ASSUME ControlOK, CommandOK, NEW p \in Procs, Killed(p)
    PROVE  StepsLeft(p)' < StepsLeft(p)
<1>1. pc[p] \notin Ended /\ pc'[p] = "killed"  BY DEF Killed, ControlOK
<1>2. /\ program[p].name \in {"analyze", "train", "scan", "load", "export", "done"}
      /\ pc[p] \in PointsOf(program[p].name)
  BY DEF ControlOK, Programs, CommandPrograms, ScanPrograms, ExportPrograms
<1>3. WritingOK(p) /\ own[p].written \in 0..Pieces
  BY DEF CommandOK, CommandTypeOK, Owned
<1>4. StepsLeft(p) > 0
  BY <1>1, <1>2, <1>3, SharedAssumption DEF StepsLeft, Ahead, PointsOf, Ended, WritingOK
<1>5. StepsLeft(p)' = 0  BY <1>1 DEF StepsLeft, Ahead
<1> QED  BY <1>4, <1>5

\* No process runs for ever: every step of the machine, a fault and an answer
\* of a service included, brings one process closer to its end and none
\* further from it.  The only loop of run_with_cli, the many writes of
\* writeln! (audit.rs, ensure_audit_file), is cut by the end of the entry.
THEOREM ProcessesRunOut == Spec => [][\E p \in Procs : Nearer(p)]_vars
<1>1. ASSUME ControlOK, CommandOK, NEW p \in Procs
      PROVE  StepsLeft(p) \in Nat
  <2>1. own[p].written \in 0..Pieces  BY <1>1 DEF CommandOK, CommandTypeOK, Owned
  <2> QED  BY <2>1, SharedAssumption DEF StepsLeft, Ahead
<1>2. (ControlOK /\ CommandOK)' => \A p \in Procs : StepsLeft(p)' \in Nat
  <2>1. ASSUME CommandOK', NEW p \in Procs  PROVE StepsLeft(p)' \in Nat
    <3>1. own'[p].written \in 0..Pieces  BY <2>1 DEF CommandOK, CommandTypeOK, Owned
    <3> QED  BY <3>1, SharedAssumption DEF StepsLeft, Ahead
  <2> QED  BY <2>1
<1>3. ASSUME ControlOK, CommandOK, (ControlOK /\ CommandOK)', NEW p \in Procs, Step(p)
      PROVE  Nearer(p)
  <2>1. StepsLeft(p) \in Nat /\ StepsLeft(p)' \in Nat  BY <1>1, <1>2, <1>3
  <2>2. StepsLeft(p)' < StepsLeft(p)
    <3>1. CASE Command(p) \/ Service(p)  BY <1>3, <3>1, CommandNearer DEF Command, Service
    <3>2. CASE Scan(p)  BY <1>3, <3>2, ScanNearer DEF Scan
    <3>3. CASE Load(p)  BY <1>3, <3>3, LoadNearer DEF Load
    <3>4. CASE Export(p)  BY <1>3, <3>4, ExportNearer DEF Export
    <3>5. CASE Fault(p)
      BY <1>3, <3>5, CommandNearer, ScanNearer, LoadNearer, ExportNearer DEF Fault
    <3>6. CASE Kill(p)  BY <1>3, <3>6, KilledNearer DEF Kill
    <3> QED  BY <1>3, <3>1, <3>2, <3>3, <3>4, <3>5, <3>6 DEF Step
  <2>3. ASSUME NEW q \in Procs, q # p  PROVE StepsLeft(q)' = StepsLeft(q)
    <3>1. pc'[q] = pc[q]  BY <1>3, <2>3, OthersStay
    <3>2. CommandDoes(p) \/ UNCHANGED commandVars  BY <1>3, Split
    <3>3. own'[q] = own[q]  BY <1>3, <2>3, <3>2, OthersKeepOwn
    <3> QED  BY <3>1, <3>3 DEF StepsLeft
  <2> QED  BY <2>1, <2>2, <2>3 DEF Nearer
<1>4. /\ ControlOK /\ CommandOK /\ (ControlOK /\ CommandOK)' /\ [Next]_vars
      => [\E p \in Procs : Nearer(p)]_vars
  BY <1>3, Steps
<1> QED  BY <1>4, CommandIsOK, PTL DEF Spec

-----------------------------------------------------------------------------

\* The shared files and what the programs keep have their types, and every
\* process is at a point of the program it was started with.
THEOREM SharedTypes == Spec => []SharedTypeOK
<1>1. ControlOK /\ CommandOK /\ ScanInv /\ CacheInv => SharedTypeOK
  BY DEF ControlOK, CommandOK, ScanInv, CacheInv, SharedTypeOK
<1> QED  BY <1>1, CommandIsOK, ScanAlways, CacheAlways, PTL
=============================================================================
