----------------------------- MODULE SharedFiles -----------------------------
(***************************************************************************)
(* One machine on which analyses, trainings, threat scans, loads of        *)
(* community signatures and exports run at once, each in a process of its  *)
(* own, meet in the model file, the audit log, the scan file and the       *)
(* signature file, and may be killed.                                      *)
(*                                                                         *)
(* The scans, loads and exports are public operations of the library which *)
(* no command of this repository calls yet; each is run as a process.      *)
(***************************************************************************)
EXTENDS AnalyzeCommand, ThreatScan, CommunityCache, SyslogExport

CONSTANT Plans  \* what the processes may run: functions from Procs to programs

vars == <<processVars, commandVars, scanVars, cacheVars, syslogVars>>

\* A process without a program is "done" from the beginning.
Programs ==
    CommandPrograms \cup ScanPrograms \cup ExportPrograms \cup [name : {"load", "done"}]

ASSUME SharedAssumption ==
    /\ MaxFaults \in Nat
    /\ Pieces \in Nat \ {0}
    /\ MaxLayers \in Nat
    /\ Replies \subseteq Answers
    /\ Plans \subseteq [Procs -> Programs]
    /\ Procs \cap {None, "bundled", "mixed", "empty", "torn"} = {}

Init ==
    /\ program \in Plans
    /\ pc = [p \in Procs |-> program[p].name]
    /\ faults = 0
    /\ CommandInit
    /\ ScanInit
    /\ CacheInit
    /\ SyslogInit

\* A step of one program leaves the files of the others alone.
Command(p) == CommandStep(p) /\ UNCHANGED <<scanVars, cacheVars, syslogVars>>
Service(p) == ServiceReplies(p) /\ UNCHANGED <<scanVars, cacheVars, syslogVars>>
Scan(p) == ScanStep(p) /\ UNCHANGED <<commandVars, cacheVars, syslogVars>>
Load(p) == LoadStep(p) /\ UNCHANGED <<commandVars, scanVars, syslogVars>>
Export(p) == ExportStep(p) /\ UNCHANGED <<commandVars, scanVars, cacheVars>>

Fault(p) ==
    \/ (SaveFails(p) \/ LogFails(p)) /\ UNCHANGED <<scanVars, cacheVars, syslogVars>>
    \/ ScanFileFails(p) /\ UNCHANGED <<commandVars, cacheVars, syslogVars>>
    \/ LoadFails(p) /\ UNCHANGED <<commandVars, scanVars, syslogVars>>
    \/ SendFails(p) /\ UNCHANGED <<commandVars, scanVars, cacheVars>>

Kill(p) ==
    /\ Killed(p)
    /\ CommandKilled(p)
    /\ ScanKilled(p)
    /\ LoadKilled(p)
    /\ ExportKilled(p)

Next ==
    \E p \in Procs :
        Command(p) \/ Service(p) \/ Scan(p) \/ Load(p) \/ Export(p) \/ Fault(p) \/ Kill(p)

\* The processes are scheduled.  A service need not answer, yara may run for
\* ever and a syslog server need not read, so nothing is assumed of these.
Spec ==
    /\ Init
    /\ [][Next]_vars
    /\ \A p \in Procs : WF_vars(Command(p)) /\ WF_vars(Load(p))

-----------------------------------------------------------------------------
(* Properties.                                                             *)

\* Where a process may be that runs a program of this name.
PointsOf(name) ==
    Ended \cup {name} \cup
    IF name = "analyze"
    THEN {"detect", "deepen", "open_log", "write_entry", "narrate", "asking", "answered", "print"}
    ELSE IF name = "train" THEN {"read_data", "save_model", "write_model"}
    ELSE IF name = "scan" THEN {"open_scan", "fill_scan", "run_yara", "remove_scan"}
    ELSE IF name = "load" THEN {"read_local", "download", "create_local", "fill_local"}
    ELSE IF name = "export" THEN {"newline"} ELSE {}

\* The types of the shared files and of what the programs keep; a process is
\* at a point of the program it was started with.
SharedTypeOK ==
    /\ program \in [Procs -> Programs]
    /\ DOMAIN pc = Procs
    /\ \A p \in Procs : pc[p] \in PointsOf(program[p].name)
    /\ faults \in 0..MaxFaults
    /\ CommandTypeOK
    /\ ScanTypeOK
    /\ CacheTypeOK

\* What an analysis has appended to the audit log is never lost or changed by
\* a later one of any process (audit.rs, ensure_audit_file: O_APPEND).
AuditLogOnlyGrows == [][IsPrefix(log, log')]_log

InOrder(p) ==
    \A i, j \in DOMAIN log :
        i < j /\ log[i].proc = p /\ log[j].proc = p => log[i].number < log[j].number

\* Whatever the AI provider did meanwhile, a result that is printed is in the
\* audit log in full and in order, and is the one that was logged but for its
\* narrative, unless an error of the log was ignored (cli.rs, run_with_cli).
PrintedResultsAreLogged ==
    \A p \in Procs : own[p].printed # NoResult /\ own[p].logs =>
        /\ \A n \in 1..Pieces : \E i \in DOMAIN log : log[i] = [proc |-> p, number |-> n]
        /\ InOrder(p)
        /\ own[p].entry = [own[p].printed EXCEPT !.narrative = NoResult.narrative]

\* A printed result is calibrated by a model that some training has saved in
\* full, or not calibrated, whatever trainings wrote, failed or were killed
\* while the model file was read (calibration.rs, save_model and default_model).
\* The exception takes two trainings that were at the file at once, one of them
\* cut short over what the other had written: if that parses, it is a model.
CalibratedByASavedModel ==
    \A p \in Procs :
        \/ own[p].printed.model \in {None} \cup saved
        \/ /\ own[p].printed.model = "mixed"
           /\ \E q \in Procs : own[q].overlaps
           /\ \E q \in Procs : program[q].name = "train" /\ pc[q] \in {"failed", "killed"}

\* A cloud service is never sent the key of another one, whichever of the
\* environment and cryptotrace.toml name a provider or a key (cli.rs,
\* load_ai_provider), provided each key is given for its own provider.
KeyGoesToItsService ==
    \A p \in Procs : own[p].request.key \in {None, own[p].request.service}

\* narrative.rs:8: "invalid fields get safe defaults"; SECURITY.md:89:
\* "Per-field JSON validation prevents hallucination".  So a printed field is
\* the default, or a text that its validator accepts and in which every CVE
\* reference is well formed.
InvalidFieldsGetDefaults ==
    \A p \in Procs : \A f \in DOMAIN own[p].printed.narrative :
        LET text == own[p].printed.narrative[f] IN
        \/ text = Default
        \/ /\ Validate(f, text) # NoText
           /\ \A i \in DOMAIN text.words : text.words[i] # "fake"

\* A scan that shared the file with no other scan has had yara read its own
\* bytes and no others, though others were killed or failed with the file in
\* any state before, and YARA reports only malicious ones (threat_intel.rs,
\* scan_yara).
LoneScansSeeTheirBytes ==
    \A p \in Procs : scans[p].met = {} /\ scans[p].read # Absent =>
        /\ scans[p].read = Bytes(p)
        /\ [source |-> "YARA", malicious |-> TRUE] \in scans[p].reports => program[p].malicious

\* Signatures that are returned are a file the provider has served, unless a
\* store was going on, or was cut short or overlapped by another one before
\* (community.rs, load_community_signatures).
WholeUnlessDisturbed ==
    \A p \in Procs :
        loads[p].returned \in {Absent} \cup Versions \/ loads[p].disturbed

\* The CVE ids of a CEF line, which are not escaped, have no symbol that means
\* something to a receiver there.
IdsArePlain(p) ==
    program[p].format = "cef" =>
        \A i \in DOMAIN program[p].result.weakness_cve :
            program[p].result.weakness_cve[i] \notin {"\\", "=", "nl"}

\* What a receiver has of an export, of any values over any transport, is one
\* line which reads back to the fields of the result (siem.rs, escape_cef,
\* escape_leef_value and send_tcp), provided the CVE ids are plain, as the ones
\* in signatures/cve_map.yaml are: siem.rs:51 takes them as they
\* are, and one with a newline splits the event (NewlinesSplitEvents).
ExportsReadBack ==
    \A p \in Procs : \A line \in Received(p) :
        IdsArePlain(p) =>
            ReadLine(line) = [header |-> Header(program[p].format, program[p].result),
                              fields |-> FieldsOf(program[p].format, program[p].result)]

\* Every analysis, training and load ends, though services never answer and
\* processes are killed (providers/mod.rs: each client has a timeout).
CommandsEnd ==
    \A p \in Procs : program[p].name \in {"analyze", "train", "load"} ~> pc[p] \in Ended
=============================================================================
