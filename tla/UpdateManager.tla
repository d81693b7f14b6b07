--------------------------- MODULE UpdateManager ---------------------------
(***************************************************************************)
(* The signature database of src/update.rs: `cryptotrace update` commands  *)
(* (import from a file, with or without a detached signature, and          *)
(* rollback) over the registry, its backup and the provenance log.         *)
(*                                                                         *)
(* A file's content is a release (a registry with entries), "empty" (one   *)
(* without), "garbage", "torn" (a copy that was cut short) or "absent".    *)
(* fs::copy is two steps, since it truncates its target before it fills    *)
(* it; a command may fail or be killed between any two steps.              *)
(***************************************************************************)
EXTENDS Naturals, Sequences, FiniteSets

CONSTANTS
    Procs,        \* the processes that run update commands
    Releases,     \* registries that have a version and entries
    KeySet,       \* TRUE if a trusted public key was configured
    MaxCommands,  \* bound on the number of commands
    MaxFaults     \* bound on the I/O errors and killed processes

ASSUME UpdateAssumption ==
    /\ KeySet \in BOOLEAN
    /\ MaxCommands \in Nat
    /\ MaxFaults \in Nat
    /\ Releases \cap {"absent", "torn", "garbage", "empty", "none", "0.0.0"} = {}

VARIABLES
    registry,  \* default.yaml
    backup,    \* backup.yaml
    package,   \* the file to import
    sig,       \* its detached signature file
    log,       \* provenance.jsonl: entries and newlines in the order written
    pc,        \* where the command of a process is
    cmd,       \* which command it runs
    valid,     \* the content apply_update has read and validated
    version,   \* what current_version returned
    outcome,   \* how the process' latest command ended
    commands,  \* commands started so far
    faults,    \* faults so far
    before,    \* history: the registry when the command started
    replaced,  \* history: what the last successful import replaced
    history    \* history: the successful commands, in order

files == <<registry, backup, package, sig>>
ghosts == <<before, replaced, history>>
vars == <<registry, backup, package, sig, log, pc, cmd, valid, version, outcome,
          commands, faults, before, replaced, history>>

Packages == Releases \cup {"absent", "garbage", "empty"}
Stored == Releases \cup {"absent", "torn"}
Commands == {"import", "verified_import", "rollback"}
NoSignature == [kind |-> "unreadable", good |-> FALSE]
Signatures == {NoSignature} \cup [kind : {"ed25519", "gpg"}, good : BOOLEAN]

Init ==
    /\ registry \in {"absent"} \cup Releases
    /\ backup = "absent"
    /\ package = "absent"
    /\ sig = NoSignature
    /\ log = <<>>
    /\ pc = [p \in Procs |-> "idle"]
    /\ cmd = [p \in Procs |-> "none"]
    /\ valid = [p \in Procs |-> "none"]
    /\ version = [p \in Procs |-> "none"]
    /\ outcome = [p \in Procs |-> "none"]
    /\ commands = 0
    /\ faults = 0
    /\ before = [p \in Procs |-> "none"]
    /\ replaced = "none"
    /\ history = <<>>

Goto(p, point) == pc' = [pc EXCEPT ![p] = point]

\* The command returns an error.
Fail(p, why) ==
    /\ Goto(p, "idle")
    /\ outcome' = [outcome EXCEPT ![p] = why]

-----------------------------------------------------------------------------
(* The user: puts a package and a signature in place while no command runs *)
(* and starts commands.                                                    *)

Deliver ==
    /\ \A p \in Procs : pc[p] = "idle"
    /\ package' \in Packages
    /\ sig' \in Signatures
    /\ UNCHANGED <<registry, backup, log, pc, cmd, valid, version, outcome, commands, faults,
                   ghosts>>

FirstPoint(c) == CASE c = "import" -> "backup"
                   [] c = "verified_import" -> "key"
                   [] c = "rollback" -> "rollback"

Start(p, c) ==
    /\ pc[p] = "idle"
    /\ commands < MaxCommands
    /\ commands' = commands + 1
    /\ cmd' = [cmd EXCEPT ![p] = c]
    /\ Goto(p, FirstPoint(c))
    /\ valid' = [valid EXCEPT ![p] = "none"]
    /\ version' = [version EXCEPT ![p] = "none"]
    /\ outcome' = [outcome EXCEPT ![p] = "none"]
    /\ before' = [before EXCEPT ![p] = registry]
    /\ UNCHANGED <<files, log, faults, replaced, history>>

-----------------------------------------------------------------------------
(* apply_verified_update, up to its call of apply_update.                  *)

LoadKey(p) ==
    /\ pc[p] = "key"
    /\ IF KeySet THEN Goto(p, "verify") /\ UNCHANGED outcome ELSE Fail(p, "no_key")
    /\ UNCHANGED <<files, log, cmd, valid, version, commands, faults,
                   ghosts>>

\* Slip: a bad signature is reported and the import goes on.
VerifyEd25519Ignored(p) ==
    /\ pc[p] = "verify"
    /\ Goto(p, "backup")
    /\ UNCHANGED <<files, log, cmd, valid, version, outcome, commands, faults,
                   ghosts>>

\* Both files could be read: the answer is final, good or bad.
VerifyEd25519(p) ==
    /\ pc[p] = "verify"
    /\ package # "absent" /\ sig.kind # "unreadable"
    /\ IF sig.kind = "ed25519" /\ sig.good
       THEN Goto(p, "backup") /\ UNCHANGED outcome
       ELSE Fail(p, "bad_signature")
    /\ UNCHANGED <<files, log, cmd, valid, version, commands, faults,
                   ghosts>>

\* One of them could not be read: only then is gpg asked.
VerifyUnreadable(p) ==
    /\ pc[p] = "verify"
    /\ Goto(p, "gpg")
    /\ UNCHANGED <<files, log, cmd, valid, version, outcome, commands, faults,
                   ghosts>>

VerifyGpg(p) ==
    /\ pc[p] = "gpg"
    /\ \/ /\ package # "absent" /\ sig.kind = "gpg" /\ sig.good
          /\ Goto(p, "backup")
          /\ UNCHANGED outcome
       \/ Fail(p, "gpg_rejected")
    /\ UNCHANGED <<files, log, cmd, valid, version, commands, faults,
                   ghosts>>

-----------------------------------------------------------------------------
(* apply_update.                                                           *)

\* Slip: the backup is made only when there is none yet.
BackupOnlyOnce(p) ==
    /\ pc[p] = "backup"
    /\ IF registry = "absent" \/ backup # "absent"
       THEN Goto(p, "read") /\ UNCHANGED backup
       ELSE Goto(p, "backing") /\ backup' = "torn"
    /\ UNCHANGED <<registry, package, sig, log, cmd, valid, version, outcome, commands, faults,
                   ghosts>>

\* Slip: the registry is renamed to the backup instead of copied.
BackupByRename(p) ==
    /\ pc[p] = "backup"
    /\ Goto(p, "read")
    /\ backup' = IF registry = "absent" THEN backup ELSE registry
    /\ registry' = "absent"
    /\ UNCHANGED <<package, sig, log, cmd, valid, version, outcome, commands, faults, ghosts>>

\* Slip: the backup file is created before the registry is known to exist.
BackupCreatedFirst(p) ==
    /\ pc[p] = "backup"
    /\ backup' = "torn"
    /\ Goto(p, IF registry = "absent" THEN "read" ELSE "backing")
    /\ UNCHANGED <<registry, package, sig, log, cmd, valid, version, outcome, commands, faults,
                   ghosts>>

\* The registry is copied before the package has been looked at.
Backup(p) ==
    /\ pc[p] = "backup"
    /\ IF registry = "absent"
       THEN Goto(p, "read") /\ UNCHANGED backup
       ELSE Goto(p, "backing") /\ backup' = "torn"
    /\ UNCHANGED <<registry, package, sig, log, cmd, valid, version, outcome, commands, faults,
                   ghosts>>

Backed(p) ==
    /\ pc[p] = "backing"
    /\ backup' = registry
    /\ Goto(p, "read")
    /\ UNCHANGED <<registry, package, sig, log, cmd, valid, version, outcome, commands, faults,
                   ghosts>>

\* Slip: a registry without signatures is not refused.
ReadAcceptsEmpty(p) ==
    /\ pc[p] = "read"
    /\ IF package \in Releases \cup {"empty"}
       THEN /\ valid' = [valid EXCEPT ![p] = package]
            /\ Goto(p, "install")
            /\ UNCHANGED outcome
       ELSE Fail(p, "invalid") /\ UNCHANGED valid
    /\ UNCHANGED <<files, log, cmd, version, commands, faults,
                   ghosts>>

\* Unreadable, malformed and empty registries are refused.
Read(p) ==
    /\ pc[p] = "read"
    /\ IF package \in Releases
       THEN /\ valid' = [valid EXCEPT ![p] = package]
            /\ Goto(p, "install")
            /\ UNCHANGED outcome
       ELSE Fail(p, "invalid") /\ UNCHANGED valid
    /\ UNCHANGED <<files, log, cmd, version, commands, faults,
                   ghosts>>

Install(p) ==
    /\ pc[p] = "install"
    /\ registry' = "torn"
    /\ Goto(p, "installing")
    /\ UNCHANGED <<backup, package, sig, log, cmd, valid, version, outcome, commands, faults,
                   ghosts>>

Installed(p) ==
    /\ pc[p] = "installing"
    /\ registry' = package
    /\ replaced' = before[p]
    /\ history' = Append(history, [action |-> cmd[p], version |-> package, signed |-> sig.good])
    /\ Goto(p, "version")
    /\ UNCHANGED <<backup, package, sig, log, cmd, valid, version, outcome, commands,
                   faults, before>>

-----------------------------------------------------------------------------
(* rollback.                                                               *)

\* Slip: the backup is moved over the registry instead of copied.
RollbackByRename(p) ==
    /\ pc[p] = "rollback"
    /\ IF backup = "absent"
       THEN Fail(p, "no_backup") /\ UNCHANGED <<registry, backup>>
       ELSE Goto(p, "version") /\ registry' = backup /\ backup' = "absent" /\ UNCHANGED outcome
    /\ UNCHANGED <<package, sig, log, cmd, valid, version, commands, faults, ghosts>>

Rollback(p) ==
    /\ pc[p] = "rollback"
    /\ IF backup = "absent"
       THEN Fail(p, "no_backup") /\ UNCHANGED registry
       ELSE Goto(p, "restoring") /\ registry' = "torn" /\ UNCHANGED outcome
    /\ UNCHANGED <<backup, package, sig, log, cmd, valid, version, commands, faults,
                   ghosts>>

Restored(p) ==
    /\ pc[p] = "restoring"
    /\ registry' = backup
    /\ history' = Append(history, [action |-> cmd[p], version |-> backup, signed |-> FALSE])
    /\ Goto(p, "version")
    /\ UNCHANGED <<backup, package, sig, log, cmd, valid, version, outcome, commands,
                   faults, before, replaced>>

-----------------------------------------------------------------------------
(* current_version and log_provenance, which end every successful command. *)

\* What a torn registry still says of its version is not known.
ReadVersion(p) ==
    /\ pc[p] = "version"
    /\ \E v \in IF registry \in Releases THEN {registry} ELSE {"0.0.0"} \cup Releases :
          version' = [version EXCEPT ![p] = v]
    /\ Goto(p, "log")
    /\ UNCHANGED <<files, log, cmd, valid, outcome, commands, faults, ghosts>>

\* An error on reading the registry is no error of the command.
VersionUnreadable(p) ==
    /\ pc[p] = "version"
    /\ faults < MaxFaults
    /\ faults' = faults + 1
    /\ version' = [version EXCEPT ![p] = "0.0.0"]
    /\ Goto(p, "log")
    /\ UNCHANGED <<files, log, cmd, valid, outcome, commands, ghosts>>

\* Slip: the entry of a rollback names the version it started from.
EntryOfStart(p) == [action |-> cmd[p], version |-> before[p]]

Entry(p) == [action |-> cmd[p], version |-> version[p]]

\* writeln! on an unbuffered file: the entry and the newline are two writes.
\* An error on opening the log is ignored.
WriteEntry(p) ==
    /\ pc[p] = "log"
    /\ \/ log' = Append(log, Entry(p)) /\ Goto(p, "newline") /\ UNCHANGED outcome
       \/ Fail(p, "ok") /\ UNCHANGED log
    /\ UNCHANGED <<files, cmd, valid, version, commands, faults,
                   ghosts>>

Newline == [action |-> "newline", version |-> "none"]

WriteNewline(p) ==
    /\ pc[p] = "newline"
    /\ log' = Append(log, Newline)
    /\ Fail(p, "ok")
    /\ UNCHANGED <<files, cmd, valid, version, commands, faults,
                   ghosts>>

-----------------------------------------------------------------------------
(* Faults: an I/O error in one of the copies or reads, a killed process.   *)

Fallible == {"backup", "backing", "read", "install", "installing", "rollback", "restoring"}
            \cup IF KeySet THEN {"key"} ELSE {}

IoError(p) ==
    /\ pc[p] \in Fallible
    /\ faults < MaxFaults
    /\ faults' = faults + 1
    /\ Fail(p, "io_error")
    /\ UNCHANGED <<files, log, cmd, valid, version, commands, ghosts>>

Killed(p) ==
    /\ pc[p] # "idle"
    /\ faults < MaxFaults
    /\ faults' = faults + 1
    /\ Fail(p, "killed")
    /\ UNCHANGED <<files, log, cmd, valid, version, commands, ghosts>>

Next ==
    \/ Deliver
    \/ \E p \in Procs :
        \/ \E c \in Commands : Start(p, c)
        \/ LoadKey(p) \/ VerifyEd25519(p) \/ VerifyUnreadable(p) \/ VerifyGpg(p)
        \/ Backup(p) \/ Backed(p) \/ Read(p) \/ Install(p) \/ Installed(p)
        \/ Rollback(p) \/ Restored(p)
        \/ ReadVersion(p) \/ VersionUnreadable(p) \/ WriteEntry(p) \/ WriteNewline(p)
        \/ IoError(p) \/ Killed(p)

Spec == Init /\ [][Next]_vars

-----------------------------------------------------------------------------
(* Properties.                                                             *)

Points == {"idle", "key", "verify", "gpg", "backup", "backing", "read", "install",
           "installing", "rollback", "restoring", "version", "log", "newline"}

Outcomes == {"none", "ok", "no_key", "bad_signature", "gpg_rejected", "invalid",
             "no_backup", "io_error", "killed"}

\* The type invariant.  It says among other things that the registry is never
\* "empty" or "garbage": whatever command or fault, such a package stays out.
TypeOK ==
    /\ registry \in Stored
    /\ backup \in Stored
    /\ package \in Packages
    /\ sig \in Signatures
    /\ pc \in [Procs -> Points]
    /\ cmd \in [Procs -> Commands \cup {"none"}]
    /\ valid \in [Procs -> Releases \cup {"none"}]
    /\ version \in [Procs -> Releases \cup {"none", "0.0.0"}]
    /\ outcome \in [Procs -> Outcomes]
    /\ commands \in Nat
    /\ faults \in Nat
    /\ before \in [Procs -> Stored \cup {"none"}]
    /\ replaced \in Stored \cup {"none"}

Imports == {"import", "verified_import"}

\* From the moment an import truncates the registry, until the next command,
\* the backup holds exactly what the import replaces: an import interrupted or
\* finished can be undone.
ReplacedRegistryIsKept ==
    \A p \in Procs :
        /\ cmd[p] \in Imports
        /\ \/ pc[p] \in {"installing", "version", "log", "newline"}
           \/ pc[p] = "idle" /\ outcome[p] = "ok"
        /\ before[p] # "absent"
        => backup = before[p]

\* An import that is refused, for its key, its signature or its content, has
\* left the registry as it found it.
RefusedImportChangesNothing ==
    \A p \in Procs :
        outcome[p] \in {"no_key", "bad_signature", "gpg_rejected", "invalid"} =>
            registry = before[p]

\* A signed import never installs a package whose signature is not good,
\* whichever of the two verifiers answered.
VerifiedImportsAreSigned ==
    \A i \in 1..Len(history) :
        history[i].action = "verified_import" => history[i].signed

\* read_provenance: a line is used if it is exactly one entry.
EndsBefore(i) == i = 1 \/ log[i - 1] = Newline

ReadableAt == {i \in 1..Len(log) :
                 /\ log[i] # Newline
                 /\ EndsBefore(i)
                 /\ i = Len(log) \/ log[i + 1] = Newline}

Describes(entry, done) ==
    /\ entry.action = done.action
    /\ done.version \in Releases => entry.version \in {done.version, "0.0.0"}

\* The provenance log may miss commands (a fault, a log that cannot be opened)
\* but what can be read of it did happen, in that order: its lines can be
\* matched one to one, without crossing, with the commands that succeeded.
LogTellsWhatHappened ==
    \E match \in [ReadableAt -> 1..Len(history)] :
        /\ \A i \in ReadableAt : Describes(log[i], history[match[i]])
        /\ \A i, j \in ReadableAt : i < j => match[i] < match[j]

\* Without faults no copy stays half done.
OnlyFaultsTearFiles ==
    faults = 0 /\ (\A p \in Procs : pc[p] = "idle") => "torn" \notin {registry, backup}

\* The two files as a store that changes in single steps: a copy over the
\* registry counts when it is complete, a copy to the backup when it starts.
Overwriting(p) == pc[p] \in {"installing", "restoring"}

StoredCurrent ==
    IF \E p \in Procs : Overwriting(p)
    THEN before[CHOOSE p \in Procs : Overwriting(p)]
    ELSE registry

StoredKept == IF \E p \in Procs : pc[p] = "backing" THEN registry ELSE backup

Store == INSTANCE RegistryStore WITH current <- StoredCurrent, kept <- StoredKept

\* Commands run one at a time implement RegistryStore, whatever fails or is
\* killed in between: apply_update and rollback change the registry once or not
\* at all, replace only what has just been kept, and a copy that is cut short
\* costs no more than the file it was to fill.
ImplementsStore == Store!Spec

\* docs/CLI_REFERENCE.md:74: "Roll back to the previous signature database
\* version", that is, the one the last successful import replaced.
RollbackRestoresPrevious ==
    \A p \in Procs :
        /\ cmd[p] = "rollback" /\ outcome[p] = "ok"
        /\ replaced \notin {"none", "absent"}
        => registry = replaced
=============================================================================
