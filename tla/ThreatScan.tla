----------------------------- MODULE ThreatScan -----------------------------
(***************************************************************************)
(* composite_threat_scan (src/intelligence/threat_intel.rs): VirusTotal is *)
(* asked about the hash, and the bytes are put into one file that all      *)
(* scans of the machine share, for the yara command to read.               *)
(*                                                                         *)
(* A file is its bytes, each known by the process it came from; an inode   *)
(* is known by the process that created it, so that a scan goes on writing *)
(* to a file another one has removed.                                      *)
(***************************************************************************)
EXTENDS Processes

VARIABLES
    scanFile,  \* the inode that cryptotrace_yara_scan.bin names, if any
    inodes,    \* what is in each inode
    scans      \* what a scan keeps: its descriptor, its reports, and (history)
               \* what yara read for it and the scans that were at the file with it

scanVars == <<scanFile, inodes, scans>>

NewScan == [fd |-> None, reports |-> {}, read |-> Absent, met |-> {}]

ScanPrograms ==
    [name : {"scan"}, malicious : BOOLEAN, size : Nat \ {0}, vt : BOOLEAN, rules : BOOLEAN]

Reports == [source : {"VirusTotal", "YARA"}, malicious : BOOLEAN]

ScanTypeOK ==
    /\ scanFile \in {None} \cup Procs
    /\ inodes \in [Procs -> Seq(Procs)]
    /\ scans \in [Procs -> [fd : {None} \cup Procs, reports : SUBSET Reports,
                            read : Seq(Procs) \cup {Absent}, met : SUBSET Procs]]

ScanInit ==
    /\ scanFile = None
    /\ inodes = [p \in Procs |-> <<>>]
    /\ scans = [p \in Procs |-> NewScan]

Bytes(p) == [i \in 1..program[p].size |-> p]

AtTheFile(p) == pc[p] \in {"fill_scan", "run_yara", "remove_scan"}

\* query_virustotal: an error is a warning, and the scan goes on.
VirusTotal(p) ==
    /\ Goes(p, "scan", IF program[p].rules THEN "open_scan" ELSE "done")
    /\ \E reports \in {{}} \cup
            IF program[p].vt
            THEN {{[source |-> "VirusTotal", malicious |-> b]} : b \in BOOLEAN}
            ELSE {} :
        scans' = [scans EXCEPT ![p].reports = reports]
    /\ UNCHANGED <<scanFile, inodes>>

\* Slip: opened for writing without truncating.
OpenedAsItIs(inode) == inodes[inode]

\* fs::write opens with O_TRUNC.
OpenedEmpty(inode) == <<>>

OpenScanFile(p) ==
    LET inode == IF scanFile = None THEN p ELSE scanFile IN
    /\ Goes(p, "open_scan", "fill_scan")
    /\ scanFile' = inode
    /\ inodes' = [inodes EXCEPT ![inode] = IF scanFile = None THEN <<>> ELSE OpenedEmpty(inode)]
    /\ scans' = [q \in Procs |->
                    IF q = p THEN [scans[p] EXCEPT !.fd = inode, !.met = {r \in Procs : AtTheFile(r)}]
                    ELSE IF AtTheFile(q) THEN [scans[q] EXCEPT !.met = @ \cup {p}]
                    ELSE scans[q]]

FillScanFile(p) ==
    /\ Goes(p, "fill_scan", "run_yara")
    /\ inodes' = [inodes EXCEPT ![scans[p].fd] = Overwrite(@, Bytes(p))]
    /\ UNCHANGED <<scanFile, scans>>

\* The scan file cannot be written: the error is a warning, no YARA report.
ScanFileFails(p) ==
    /\ \/ Faulty(p, "open_scan", "done") /\ UNCHANGED inodes
       \/ /\ Faulty(p, "fill_scan", "done")
          /\ \E left \in Beginnings(inodes[scans[p].fd], Bytes(p)) :
                inodes' = [inodes EXCEPT ![scans[p].fd] = left]
    /\ UNCHANGED <<scanFile, scans>>

\* yara says nothing of a file that is gone or of rules it cannot use, and its
\* exit status is not looked at; of a mixture of files it may say anything.
Matches(bytes) ==
    {FALSE} \cup {program[q].malicious : q \in {q \in Procs : program[q].name = "scan" /\ bytes = Bytes(q)}}
            \cup (IF \E i, j \in DOMAIN bytes : bytes[i] # bytes[j] THEN BOOLEAN ELSE {})

RunYara(p) ==
    LET bytes == IF scanFile = None THEN <<>> ELSE inodes[scanFile] IN
    /\ Goes(p, "run_yara", "remove_scan")
    /\ \E matches \in Matches(bytes) :
        scans' = [scans EXCEPT
                     ![p].read = bytes,
                     ![p].reports = IF matches
                                    THEN @ \cup {[source |-> "YARA", malicious |-> TRUE]}
                                    ELSE @]
    /\ UNCHANGED <<scanFile, inodes>>

\* remove_file: by name, whoever's file that is by now.
RemoveScanFile(p) ==
    /\ Goes(p, "remove_scan", "done")
    /\ scanFile' = None
    /\ UNCHANGED <<inodes, scans>>

ScanStep(p) ==
    \/ VirusTotal(p) \/ OpenScanFile(p) \/ FillScanFile(p) \/ RunYara(p) \/ RemoveScanFile(p)

\* What a scan that is killed may leave in the file.
ScanKilled(p) ==
    /\ inodes' \in IF pc[p] = "fill_scan"
                   THEN {[inodes EXCEPT ![scans[p].fd] = left] :
                            left \in Beginnings(inodes[scans[p].fd], Bytes(p))}
                   ELSE {inodes}
    /\ UNCHANGED <<scanFile, scans>>
=============================================================================
