--------------------------- MODULE CommunityCache ---------------------------
(***************************************************************************)
(* load_community_signatures (src/providers/community.rs): the signature   *)
(* file of a provider is downloaded once and read from disk ever after.    *)
(*                                                                         *)
(* The file is its bytes, each known by the version it came from.          *)
(***************************************************************************)
EXTENDS Processes

CONSTANT Versions  \* what the provider may serve, each as its bytes

\* What a file may consist of.
Parts == {None} \cup UNION {{version[i] : i \in DOMAIN version} : version \in Versions}

ASSUME CacheAssumption == Versions \subseteq Seq(Parts)

VARIABLES
    sigFile,    \* signatures/community/<path>
    loads,      \* what a load keeps: the download, what it returned, and
                \* (history) whether the file was disturbed when it read it
    disturbed   \* history: a store was cut short, or two went on at once

cacheVars == <<sigFile, loads, disturbed>>

NewLoad == [data |-> Absent, returned |-> Absent, disturbed |-> FALSE]

CacheTypeOK ==
    /\ sigFile \in Seq(Parts)
    /\ loads \in [Procs -> [data : {Absent} \cup Versions, returned : Seq(Parts),
                            disturbed : BOOLEAN]]
    /\ disturbed \in BOOLEAN

CacheInit ==
    /\ sigFile = Absent
    /\ loads = [p \in Procs |-> NewLoad]
    /\ disturbed = FALSE

Storing(p) == pc[p] = "fill_local"

\* local_path.exists(): a directory without the file and one with it.
CheckLocal(p) ==
    /\ Goes(p, "load", IF sigFile = Absent THEN "download" ELSE "read_local")
    /\ UNCHANGED cacheVars

ReadLocal(p) ==
    /\ Goes(p, "read_local", "done")
    /\ loads' = [loads EXCEPT ![p].returned = sigFile,
                              ![p].disturbed = disturbed \/ \E q \in Procs : Storing(q)]
    /\ UNCHANGED <<sigFile, disturbed>>

\* The whole body, held in memory.
Download(p) ==
    /\ Goes(p, "download", "create_local")
    /\ \E version \in Versions : loads' = [loads EXCEPT ![p].data = version]
    /\ UNCHANGED <<sigFile, disturbed>>

\* Slip: the file is created before the answer is known to be good.
DownloadFailsIntoTheFile(p) ==
    /\ Goes(p, "download", "failed")
    /\ sigFile' = IF sigFile = Absent THEN <<>> ELSE sigFile
    /\ UNCHANGED <<loads, disturbed>>

\* No connection, a timeout, a status that is no success, a body cut short.
DownloadFails(p) ==
    /\ Goes(p, "download", "failed")
    /\ UNCHANGED cacheVars

CreateLocal(p) ==
    /\ Goes(p, "create_local", "fill_local")
    /\ sigFile' = <<>>
    /\ disturbed' = (disturbed \/ \E q \in Procs : Storing(q))
    /\ UNCHANGED loads

FillLocal(p) ==
    /\ Goes(p, "fill_local", "done")
    /\ sigFile' = Overwrite(sigFile, loads[p].data)
    /\ loads' = [loads EXCEPT ![p].returned = loads[p].data]
    /\ UNCHANGED disturbed

\* What a store that fails or is killed leaves: a beginning that every later
\* load takes for the file.
CutShort(p) ==
    /\ sigFile' \in Beginnings(sigFile, loads[p].data)
    /\ disturbed' = TRUE
    /\ UNCHANGED loads

\* The file cannot be read, or not be created or written.
LoadFails(p) ==
    \/ Faulty(p, "read_local", "failed") /\ UNCHANGED cacheVars
    \/ Faulty(p, "create_local", "failed") /\ UNCHANGED cacheVars
    \/ Faulty(p, "fill_local", "failed") /\ CutShort(p)

LoadStep(p) ==
    \/ CheckLocal(p) \/ ReadLocal(p) \/ Download(p) \/ DownloadFails(p)
    \/ CreateLocal(p) \/ FillLocal(p)

LoadKilled(p) == IF Storing(p) THEN CutShort(p) ELSE UNCHANGED cacheVars
=============================================================================
