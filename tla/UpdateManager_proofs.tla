------------------------ MODULE UpdateManager_proofs ------------------------
(***************************************************************************)
(* Proofs about UpdateManager, for any releases and any number of commands *)
(* and faults.  The types and the signatures of imports hold for any       *)
(* number of processes; what the backup and a refusal promise needs the    *)
(* commands to run one at a time, which is the assumption OneAtATime.      *)
(***************************************************************************)
EXTENDS UpdateManager, TLAPS

\* The files a process has validated stay in place until its command ends:
\* packages and signatures are only delivered while no command runs.
PackageInv ==
    \A p \in Procs :
        pc[p] \in {"install", "installing"} => package \in Releases /\ valid[p] = package

LEMMA TypeInit == Init => TypeOK /\ PackageInv
  BY UpdateAssumption DEF Init, TypeOK, PackageInv, Stored, Packages, Signatures, NoSignature,
     Points, Outcomes

\* One step of one process.
Step(p) ==
    \/ \E c \in Commands : Start(p, c)
    \/ LoadKey(p) \/ VerifyEd25519(p) \/ VerifyUnreadable(p) \/ VerifyGpg(p)
    \/ Backup(p) \/ Backed(p) \/ Read(p) \/ Install(p) \/ Installed(p)
    \/ Rollback(p) \/ Restored(p)
    \/ ReadVersion(p) \/ VersionUnreadable(p) \/ WriteEntry(p) \/ WriteNewline(p)
    \/ IoError(p) \/ Killed(p)

LEMMA Steps == [Next]_vars <=> Deliver \/ (\E p \in Procs : Step(p)) \/ UNCHANGED vars
  BY DEF Next, Step

\* The types are kept by every step.
LEMMA TypeStep == TypeOK /\ PackageInv /\ [Next]_vars => TypeOK'
<1> SUFFICES ASSUME TypeOK, PackageInv, [Next]_vars PROVE TypeOK'
  OBVIOUS
<1> USE UpdateAssumption DEF TypeOK, Goto, Fail, files, ghosts
<1>1. CASE Deliver  BY <1>1 DEF Deliver
<1>2. ASSUME NEW p \in Procs, Step(p) PROVE TypeOK'
  <2> USE DEF Points, Outcomes
  <2>1. ASSUME NEW c \in Commands, Start(p, c) PROVE TypeOK'
    <3>1. FirstPoint(c) \in Points  BY <2>1 DEF FirstPoint, Commands
    <3> QED  BY <2>1, <3>1 DEF Start
  <2>2. CASE LoadKey(p)  BY <2>2 DEF LoadKey
  <2>3. CASE VerifyEd25519(p)  BY <2>3 DEF VerifyEd25519
  <2>4. CASE VerifyUnreadable(p)  BY <2>4 DEF VerifyUnreadable
  <2>5. CASE VerifyGpg(p)  BY <2>5 DEF VerifyGpg
  <2>6. CASE Backup(p)  BY <2>6 DEF Backup, Stored
  <2>7. CASE Backed(p)  BY <2>7 DEF Backed
  <2>8. CASE Read(p)  BY <2>8 DEF Read
  <2>9. CASE Install(p)  BY <2>9 DEF Install, Stored
  <2>10. CASE Installed(p)  BY <2>10 DEF Installed, Stored, PackageInv
  <2>11. CASE Rollback(p)  BY <2>11 DEF Rollback, Stored
  <2>12. CASE Restored(p)  BY <2>12 DEF Restored
  <2>13. CASE ReadVersion(p) \/ VersionUnreadable(p)  BY <2>13 DEF ReadVersion, VersionUnreadable
  <2>14. CASE WriteEntry(p)  BY <2>14 DEF WriteEntry
  <2>15. CASE WriteNewline(p)  BY <2>15 DEF WriteNewline
  <2>16. CASE IoError(p)  BY <2>16 DEF IoError
  <2>17. CASE Killed(p)  BY <2>17 DEF Killed
  <2> QED
    BY <1>2, <2>1, <2>2, <2>3, <2>4, <2>5, <2>6, <2>7, <2>8, <2>9, <2>10, <2>11, <2>12,
       <2>13, <2>14, <2>15, <2>16, <2>17 DEF Step
<1>3. CASE UNCHANGED vars  BY <1>3 DEF vars
<1> QED  BY Steps, <1>1, <1>2, <1>3

-----------------------------------------------------------------------------
(* The other processes.                                                    *)

\* A step of p touches neither the package and its signature nor the command
\* of another process.
Frame(p) ==
    /\ UNCHANGED <<package, sig>>
    /\ \A q \in Procs \ {p} :
         /\ pc'[q] = pc[q] /\ cmd'[q] = cmd[q] /\ valid'[q] = valid[q]
         /\ outcome'[q] = outcome[q] /\ before'[q] = before[q]

LEMMA StepFrame == ASSUME TypeOK, NEW p \in Procs, Step(p) PROVE Frame(p)
<1> USE DEF TypeOK, Goto, Fail, files, ghosts, Frame
<1>1. ASSUME NEW c \in Commands, Start(p, c) PROVE Frame(p)  BY <1>1 DEF Start
<1>2. CASE LoadKey(p) \/ VerifyEd25519(p) \/ VerifyUnreadable(p) \/ VerifyGpg(p)
  BY <1>2 DEF LoadKey, VerifyEd25519, VerifyUnreadable, VerifyGpg
<1>3. CASE Backup(p) \/ Backed(p)  BY <1>3 DEF Backup, Backed
<1>4. CASE Read(p) \/ Install(p)  BY <1>4 DEF Read, Install
<1>5. CASE Installed(p)  BY <1>5 DEF Installed
<1>6. CASE Rollback(p) \/ Restored(p)  BY <1>6 DEF Rollback, Restored
<1>7. CASE ReadVersion(p) \/ VersionUnreadable(p)  BY <1>7 DEF ReadVersion, VersionUnreadable
<1>8. CASE WriteEntry(p) \/ WriteNewline(p)  BY <1>8 DEF WriteEntry, WriteNewline
<1>9. CASE IoError(p) \/ Killed(p)  BY <1>9 DEF IoError, Killed
<1> QED  BY <1>1, <1>2, <1>3, <1>4, <1>5, <1>6, <1>7, <1>8, <1>9 DEF Step

LEMMA PackageStep == TypeOK /\ PackageInv /\ [Next]_vars => PackageInv'
<1> SUFFICES ASSUME TypeOK, PackageInv, [Next]_vars, NEW q \in Procs
             PROVE  PackageInv!(q)'
  BY DEF PackageInv
<1> USE DEF PackageInv
<1>1. CASE Deliver  BY <1>1 DEF Deliver
<1>2. ASSUME NEW p \in Procs, Step(p) PROVE PackageInv!(q)'
  <2> USE DEF TypeOK, Goto, Fail, files
  <2>1. CASE q # p  BY <1>2, <2>1, StepFrame DEF Frame
  <2>2. CASE q = p
    <3> USE <2>2
    <3>1. ASSUME NEW c \in Commands, Start(p, c) PROVE PackageInv!(q)'
      <4>1. FirstPoint(c) \in {"backup", "key", "rollback"}  BY DEF FirstPoint, Commands
      <4> QED  BY <3>1, <4>1 DEF Start
    <3>2. CASE LoadKey(p) \/ VerifyEd25519(p) \/ VerifyUnreadable(p) \/ VerifyGpg(p)
      BY <3>2 DEF LoadKey, VerifyEd25519, VerifyUnreadable, VerifyGpg
    <3>3. CASE Backup(p) \/ Backed(p)  BY <3>3 DEF Backup, Backed
    <3>4. CASE Read(p) \/ Install(p)  BY <3>4 DEF Read, Install
    <3>5. CASE Installed(p)  BY <3>5 DEF Installed
    <3>6. CASE Rollback(p) \/ Restored(p)  BY <3>6 DEF Rollback, Restored
    <3>7. CASE ReadVersion(p) \/ VersionUnreadable(p)  BY <3>7 DEF ReadVersion, VersionUnreadable
    <3>8. CASE WriteEntry(p) \/ WriteNewline(p)  BY <3>8 DEF WriteEntry, WriteNewline
    <3>9. CASE IoError(p) \/ Killed(p)  BY <3>9 DEF IoError, Killed
    <3> QED  BY <1>2, <3>1, <3>2, <3>3, <3>4, <3>5, <3>6, <3>7, <3>8, <3>9 DEF Step
  <2> QED  BY <2>1, <2>2
<1>3. CASE UNCHANGED vars  BY <1>3 DEF vars
<1> QED  BY Steps, <1>1, <1>2, <1>3

\* Whatever is imported, interrupted or rolled back, by any number of
\* processes: the registry holds a release, is torn or is not there.
THEOREM TypeCorrect == Spec => [](TypeOK /\ PackageInv)
<1>1. TypeOK /\ PackageInv /\ [Next]_vars => TypeOK' /\ PackageInv'
  BY TypeStep, PackageStep
<1> QED  BY <1>1, TypeInit, PTL DEF Spec

-----------------------------------------------------------------------------
(* Signatures.                                                             *)

Checked == {"backup", "backing", "read", "install", "installing"}

\* A signed import that has passed the verifiers has a good signature file,
\* which stays there until it is done.
SignedInv ==
    \A p \in Procs : cmd[p] = "verified_import" /\ pc[p] \in Checked => sig.good = TRUE

Entries == [action : Commands \cup {"none"}, version : Stored \cup Packages, signed : BOOLEAN]

HistoryInv ==
    /\ history \in Seq(Entries)
    /\ \A i \in 1..Len(history) :
         history[i].action = "verified_import" => history[i].signed = TRUE

LEMMA SignedStep == TypeOK /\ SignedInv /\ [Next]_vars => SignedInv'
<1> SUFFICES ASSUME TypeOK, SignedInv, [Next]_vars, NEW q \in Procs
             PROVE  SignedInv!(q)'
  BY DEF SignedInv
<1> USE DEF SignedInv, Checked
<1>1. CASE Deliver  BY <1>1 DEF Deliver
<1>2. ASSUME NEW p \in Procs, Step(p) PROVE SignedInv!(q)'
  <2> USE DEF TypeOK, Goto, Fail, files
  <2>1. CASE q # p  BY <1>2, <2>1, StepFrame DEF Frame
  <2>2. CASE q = p
    <3> USE <2>2
    <3>1. ASSUME NEW c \in Commands, Start(p, c) PROVE SignedInv!(q)'
      <4>1. c = "verified_import" => FirstPoint(c) = "key"  BY DEF FirstPoint
      <4> QED  BY <3>1, <4>1 DEF Start
    <3>2. CASE LoadKey(p)  BY <3>2 DEF LoadKey
    <3>3. CASE VerifyEd25519(p)  BY <3>3 DEF VerifyEd25519
    <3>4. CASE VerifyUnreadable(p)  BY <3>4 DEF VerifyUnreadable
    <3>5. CASE VerifyGpg(p)  BY <3>5 DEF VerifyGpg
    <3>6. CASE Backup(p) \/ Backed(p)  BY <3>6 DEF Backup, Backed
    <3>7. CASE Read(p) \/ Install(p)  BY <3>7 DEF Read, Install
    <3>8. CASE Installed(p)  BY <3>8 DEF Installed
    <3>9. CASE Rollback(p) \/ Restored(p)  BY <3>9 DEF Rollback, Restored
    <3>10. CASE ReadVersion(p) \/ VersionUnreadable(p)  BY <3>10 DEF ReadVersion, VersionUnreadable
    <3>11. CASE WriteEntry(p) \/ WriteNewline(p)  BY <3>11 DEF WriteEntry, WriteNewline
    <3>12. CASE IoError(p) \/ Killed(p)  BY <3>12 DEF IoError, Killed
    <3> QED
      BY <1>2, <3>1, <3>2, <3>3, <3>4, <3>5, <3>6, <3>7, <3>8, <3>9, <3>10, <3>11, <3>12
      DEF Step
  <2> QED  BY <2>1, <2>2
<1>3. CASE UNCHANGED vars  BY <1>3 DEF vars
<1> QED  BY Steps, <1>1, <1>2, <1>3

\* Only rollbacks are at the points of rollback.
RestoringInv ==
    \A p \in Procs : pc[p] \in {"rollback", "restoring"} => cmd[p] = "rollback"

LEMMA RestoringStep == TypeOK /\ RestoringInv /\ [Next]_vars => RestoringInv'
<1> SUFFICES ASSUME TypeOK, RestoringInv, [Next]_vars, NEW q \in Procs
             PROVE  RestoringInv!(q)'
  BY DEF RestoringInv
<1> USE DEF RestoringInv
<1>1. CASE Deliver  BY <1>1 DEF Deliver
<1>2. ASSUME NEW p \in Procs, Step(p) PROVE RestoringInv!(q)'
  <2> USE DEF TypeOK, Goto, Fail, files
  <2>1. CASE q # p  BY <1>2, <2>1, StepFrame DEF Frame
  <2>2. CASE q = p
    <3> USE <2>2
    <3>1. ASSUME NEW c \in Commands, Start(p, c) PROVE RestoringInv!(q)'
      <4>1. FirstPoint(c) = "rollback" => c = "rollback"  BY DEF FirstPoint, Commands
      <4>2. FirstPoint(c) # "restoring"  BY DEF FirstPoint, Commands
      <4> QED  BY <3>1, <4>1, <4>2 DEF Start
    <3>2. CASE LoadKey(p) \/ VerifyEd25519(p) \/ VerifyUnreadable(p) \/ VerifyGpg(p)
      BY <3>2 DEF LoadKey, VerifyEd25519, VerifyUnreadable, VerifyGpg
    <3>3. CASE Backup(p) \/ Backed(p)  BY <3>3 DEF Backup, Backed
    <3>4. CASE Read(p) \/ Install(p)  BY <3>4 DEF Read, Install
    <3>5. CASE Installed(p)  BY <3>5 DEF Installed
    <3>6. CASE Rollback(p) \/ Restored(p)  BY <3>6 DEF Rollback, Restored
    <3>7. CASE ReadVersion(p) \/ VersionUnreadable(p)  BY <3>7 DEF ReadVersion, VersionUnreadable
    <3>8. CASE WriteEntry(p) \/ WriteNewline(p)  BY <3>8 DEF WriteEntry, WriteNewline
    <3>9. CASE IoError(p) \/ Killed(p)  BY <3>9 DEF IoError, Killed
    <3> QED  BY <1>2, <3>1, <3>2, <3>3, <3>4, <3>5, <3>6, <3>7, <3>8, <3>9 DEF Step
  <2> QED  BY <2>1, <2>2
<1>3. CASE UNCHANGED vars  BY <1>3 DEF vars
<1> QED  BY Steps, <1>1, <1>2, <1>3

Recorded(p) == Installed(p) \/ Restored(p)

LEMMA HistoryFrame ==
    ASSUME NEW p \in Procs, Step(p), ~Recorded(p) PROVE history' = history
<1> USE DEF ghosts
<1>1. ASSUME NEW c \in Commands, Start(p, c) PROVE history' = history  BY <1>1 DEF Start
<1>2. CASE LoadKey(p) \/ VerifyEd25519(p) \/ VerifyUnreadable(p) \/ VerifyGpg(p)
  BY <1>2 DEF LoadKey, VerifyEd25519, VerifyUnreadable, VerifyGpg
<1>3. CASE Backup(p) \/ Backed(p) \/ Read(p) \/ Install(p) \/ Rollback(p)
  BY <1>3 DEF Backup, Backed, Read, Install, Rollback
<1>4. CASE ReadVersion(p) \/ VersionUnreadable(p) \/ WriteEntry(p) \/ WriteNewline(p)
  BY <1>4 DEF ReadVersion, VersionUnreadable, WriteEntry, WriteNewline
<1>5. CASE IoError(p) \/ Killed(p)  BY <1>5 DEF IoError, Killed
<1> QED  BY <1>1, <1>2, <1>3, <1>4, <1>5 DEF Step, Recorded

LEMMA HistoryStep ==
    TypeOK /\ SignedInv /\ RestoringInv /\ HistoryInv /\ [Next]_vars => HistoryInv'
<1> SUFFICES ASSUME TypeOK, SignedInv, RestoringInv, HistoryInv, [Next]_vars PROVE HistoryInv'
  OBVIOUS
<1>1. ASSUME NEW p \in Procs, Installed(p) PROVE HistoryInv'
  <2> DEFINE entry == [action |-> cmd[p], version |-> package, signed |-> sig.good]
  <2>1. history' = Append(history, entry)  BY <1>1 DEF Installed
  <2>2. sig.good \in BOOLEAN
    <3>1. CASE sig = NoSignature  BY <3>1, Zenon DEF NoSignature
    <3>2. CASE sig \in [kind : {"ed25519", "gpg"}, good : BOOLEAN]  BY <3>2, Zenon
    <3> QED  BY <3>1, <3>2 DEF TypeOK, Signatures
  <2>3. entry \in Entries  BY <2>2 DEF TypeOK, Entries
  <2>4. entry.action = "verified_import" => entry.signed = TRUE
    BY <1>1 DEF SignedInv, Checked, Installed
  <2> HIDE DEF entry
  <2> QED  BY <2>1, <2>3, <2>4 DEF HistoryInv
<1>2. ASSUME NEW p \in Procs, Restored(p) PROVE HistoryInv'
  <2> DEFINE entry == [action |-> cmd[p], version |-> backup, signed |-> FALSE]
  <2>1. history' = Append(history, entry)  BY <1>2 DEF Restored
  <2>2. cmd[p] = "rollback"  BY <1>2 DEF RestoringInv, Restored
  <2>3. entry \in Entries  BY DEF TypeOK, Entries
  <2>4. entry.action # "verified_import"  BY <2>2
  <2> HIDE DEF entry
  <2> QED  BY <2>1, <2>3, <2>4 DEF HistoryInv
<1>3. CASE UNCHANGED history  BY <1>3 DEF HistoryInv
<1>4. Deliver \/ UNCHANGED vars => UNCHANGED history  BY DEF Deliver, ghosts, vars
<1> QED  BY Steps, <1>1, <1>2, <1>3, <1>4, HistoryFrame DEF Recorded

ImportInv == TypeOK /\ PackageInv /\ SignedInv /\ RestoringInv /\ HistoryInv

\* Whatever faults occur and however many processes import: a signed import
\* installs only a package whose signature one of the two verifiers accepted.
THEOREM SignedImports == Spec => []VerifiedImportsAreSigned
<1>1. Init => ImportInv
  <2>1. Init => SignedInv /\ RestoringInv /\ HistoryInv
    BY DEF Init, SignedInv, RestoringInv, HistoryInv
  <2> QED  BY <2>1, TypeInit DEF ImportInv
<1>2. ImportInv /\ [Next]_vars => ImportInv'
  BY TypeStep, PackageStep, SignedStep, RestoringStep, HistoryStep DEF ImportInv
<1>3. ImportInv => VerifiedImportsAreSigned
  BY DEF ImportInv, HistoryInv, VerifiedImportsAreSigned
<1> QED  BY <1>1, <1>2, <1>3, PTL DEF Spec

-----------------------------------------------------------------------------
(* One command at a time: what is in the backup, what a refusal leaves.    *)

\* Two `cryptotrace update` processes never overlap.  Nothing in update.rs
\* makes sure of it: there is no lock on any of the files.
OneAtATime == \A p, q \in Procs : p = q

BeforeInstall == {"key", "verify", "gpg", "backup", "backing", "read", "install"}
BackupMade == {"read", "install", "installing", "version", "log", "newline"}
Refusals == {"no_key", "bad_signature", "gpg_rejected", "invalid"}

\* Until an import truncates the registry, and after it was refused, the
\* registry is what the command found.
UntouchedInv ==
    \A p \in Procs :
        /\ pc[p] \in BeforeInstall => registry = before[p]
        /\ outcome[p] \in Refusals => pc[p] = "idle" /\ registry = before[p]

\* From the copy on, the backup is what the command found, if there was any.
KeptInv ==
    \A p \in Procs :
        /\ cmd[p] \in Imports
        /\ pc[p] \in BackupMade \/ (pc[p] = "idle" /\ outcome[p] = "ok")
        /\ before[p] # "absent"
        => backup = before[p]

SerialInv == UntouchedInv /\ KeptInv

LEMMA SerialStep ==
    ASSUME OneAtATime PROVE TypeOK /\ RestoringInv /\ SerialInv /\ [Next]_vars => SerialInv'
<1> SUFFICES ASSUME TypeOK, RestoringInv, SerialInv, [Next]_vars, NEW q \in Procs
             PROVE  UntouchedInv!(q)' /\ KeptInv!(q)'
  BY DEF SerialInv, UntouchedInv, KeptInv
<1> USE DEF SerialInv, UntouchedInv, KeptInv, BeforeInstall, BackupMade, Refusals, Imports
<1> DEFINE Goal == UntouchedInv!(q)' /\ KeptInv!(q)'
<1>1. CASE Deliver  BY <1>1 DEF Deliver, ghosts
<1>2. ASSUME NEW p \in Procs, Step(p) PROVE Goal
  <2>1. p = q  BY DEF OneAtATime
  <2> USE <2>1 DEF TypeOK, Goto, Fail, files, ghosts
  <2>2. ASSUME NEW c \in Commands, Start(p, c) PROVE Goal
    <3>1. FirstPoint(c) \notin BackupMade \cup {"idle"}  BY DEF FirstPoint, Commands
    <3> QED  BY <2>2, <3>1 DEF Start
  <2>3. CASE LoadKey(p)  BY <2>3 DEF LoadKey
  <2>4. CASE VerifyEd25519(p)  BY <2>4 DEF VerifyEd25519
  <2>5. CASE VerifyUnreadable(p)  BY <2>5 DEF VerifyUnreadable
  <2>6. CASE VerifyGpg(p)  BY <2>6 DEF VerifyGpg
  <2>7. CASE Backup(p)  BY <2>7 DEF Backup
  <2>8. CASE Backed(p)  BY <2>8 DEF Backed
  <2>9. CASE Read(p)  BY <2>9 DEF Read
  <2>10. CASE Install(p)  BY <2>10 DEF Install
  <2>11. CASE Installed(p)  BY <2>11 DEF Installed
  <2>12. CASE Rollback(p)  BY <2>12 DEF Rollback, RestoringInv
  <2>13. CASE Restored(p)  BY <2>13 DEF Restored, RestoringInv
  <2>14. CASE ReadVersion(p) \/ VersionUnreadable(p)  BY <2>14 DEF ReadVersion, VersionUnreadable
  <2>15. CASE WriteEntry(p)  BY <2>15 DEF WriteEntry
  <2>16. CASE WriteNewline(p)  BY <2>16 DEF WriteNewline
  <2>17. CASE IoError(p)  BY <2>17 DEF IoError
  <2>18. CASE Killed(p)  BY <2>18 DEF Killed
  <2> QED
    BY <1>2, <2>2, <2>3, <2>4, <2>5, <2>6, <2>7, <2>8, <2>9, <2>10, <2>11, <2>12, <2>13,
       <2>14, <2>15, <2>16, <2>17, <2>18 DEF Step
<1>3. CASE UNCHANGED vars  BY <1>3 DEF vars
<1> QED  BY Steps, <1>1, <1>2, <1>3

\* The invariant that both properties follow from.
LEMMA Serial == ASSUME OneAtATime PROVE Spec => [](TypeOK /\ SerialInv)
<1>1. Init => TypeOK /\ PackageInv /\ RestoringInv /\ SerialInv
  BY TypeInit DEF Init, RestoringInv, SerialInv, UntouchedInv, KeptInv, BeforeInstall, Refusals,
     BackupMade
<1>2. TypeOK /\ PackageInv /\ RestoringInv /\ SerialInv /\ [Next]_vars
      => TypeOK' /\ PackageInv' /\ RestoringInv' /\ SerialInv'
  BY TypeStep, PackageStep, RestoringStep, SerialStep
<1> QED  BY <1>1, <1>2, PTL DEF Spec

\* Run alone, an import that has touched the registry can be undone, whatever
\* was interrupted before it: the backup is what it replaced.
THEOREM BackupsAreKept == ASSUME OneAtATime PROVE Spec => []ReplacedRegistryIsKept
<1>1. SerialInv => ReplacedRegistryIsKept
  BY DEF SerialInv, KeptInv, ReplacedRegistryIsKept, BackupMade
<1> QED  BY <1>1, Serial, PTL

\* Run alone, a refused import leaves the registry as it was.
THEOREM RefusalsChangeNothing == ASSUME OneAtATime PROVE Spec => []RefusedImportChangesNothing
<1>1. SerialInv => RefusedImportChangesNothing
  BY DEF SerialInv, UntouchedInv, RefusedImportChangesNothing, Refusals
<1> QED  BY <1>1, Serial, PTL

-----------------------------------------------------------------------------
(* Torn files.                                                             *)

\* Before the first fault a file is torn only while it is being copied to.
TornInv ==
    faults = 0 =>
        /\ registry = "torn" => \E p \in Procs : pc[p] \in {"installing", "restoring"}
        /\ backup = "torn" => \E p \in Procs : pc[p] = "backing"

LEMMA TornStep ==
    ASSUME OneAtATime PROVE TypeOK /\ PackageInv /\ TornInv /\ [Next]_vars => TornInv'
<1> SUFFICES ASSUME TypeOK, PackageInv, TornInv, [Next]_vars PROVE TornInv'
  OBVIOUS
<1>1. CASE Deliver  BY <1>1 DEF Deliver, TornInv
<1>2. ASSUME NEW p \in Procs, Step(p) PROVE TornInv'
  <2> USE DEF TypeOK, TornInv, Goto, Fail, files, ghosts
  <2>1. \A q \in Procs : q = p  BY DEF OneAtATime
  <2>2. ASSUME NEW c \in Commands, Start(p, c) PROVE TornInv'  BY <2>1, <2>2 DEF Start
  <2>3. CASE LoadKey(p) \/ VerifyEd25519(p) \/ VerifyUnreadable(p) \/ VerifyGpg(p)
    BY <2>1, <2>3 DEF LoadKey, VerifyEd25519, VerifyUnreadable, VerifyGpg
  <2>4. CASE Backup(p)  BY <2>1, <2>4 DEF Backup
  <2>5. CASE Backed(p)  BY <2>1, <2>5 DEF Backed
  <2>6. CASE Read(p)  BY <2>1, <2>6 DEF Read
  <2>7. CASE Install(p)  BY <2>1, <2>7 DEF Install
  <2>8. CASE Installed(p)
    BY <2>1, <2>8, UpdateAssumption DEF Installed, PackageInv
  <2>9. CASE Rollback(p)  BY <2>1, <2>9 DEF Rollback
  <2>10. CASE Restored(p)  BY <2>1, <2>10 DEF Restored
  <2>11. CASE ReadVersion(p) \/ WriteEntry(p) \/ WriteNewline(p)
    BY <2>1, <2>11 DEF ReadVersion, WriteEntry, WriteNewline
  <2>12. CASE VersionUnreadable(p) \/ IoError(p) \/ Killed(p)
    BY <2>12 DEF VersionUnreadable, IoError, Killed
  <2> QED
    BY <1>2, <2>2, <2>3, <2>4, <2>5, <2>6, <2>7, <2>8, <2>9, <2>10, <2>11, <2>12 DEF Step
<1>3. CASE UNCHANGED vars  BY <1>3 DEF vars, files, TornInv
<1> QED  BY Steps, <1>1, <1>2, <1>3

\* Run alone and without faults, no command leaves a half copied registry or
\* backup behind, also one that is refused or finds no backup.
THEOREM CopiesAreCompleted == ASSUME OneAtATime PROVE Spec => []OnlyFaultsTearFiles
<1>1. Init => TypeOK /\ PackageInv /\ TornInv
  <2>1. Init => registry # "torn" /\ backup # "torn"
    BY UpdateAssumption DEF Init
  <2> QED  BY <2>1, TypeInit DEF TornInv
<1>2. TypeOK /\ PackageInv /\ TornInv /\ [Next]_vars => TypeOK' /\ PackageInv' /\ TornInv'
  BY TypeStep, PackageStep, TornStep
<1>3. TornInv => OnlyFaultsTearFiles
  BY DEF TornInv, OnlyFaultsTearFiles
<1> QED  BY <1>1, <1>2, <1>3, PTL DEF Spec

-----------------------------------------------------------------------------
(* The provenance log.                                                     *)

LogTypes == log \in Seq([action : Commands \cup {"none", "newline"},
                         version : Releases \cup {"none", "0.0.0"}])

EntriesIn(lines) == {i \in 1..Len(lines) : lines[i] # Newline}

\* The entries can be matched with the first n of the commands done.
Matched(lines, done, n) ==
    \E match \in [EntriesIn(lines) -> 1..n] :
        /\ \A i \in EntriesIn(lines) : Describes(lines[i], done[match[i]])
        /\ \A i, j \in EntriesIn(lines) : i < j => match[i] < match[j]

\* A command that has yet to write its entry is the last in the history, and
\* not matched; the version it has read is that of the registry it left.
Pending(p) ==
    LET n == Len(history) IN
    /\ pc[p] \in {"version", "log"} =>
           n > 0 /\ Matched(log, history, n - 1) /\ history[n].action = cmd[p]
    /\ pc[p] = "version" => history[n].version = registry
    /\ pc[p] = "log" => Describes(Entry(p), history[n])

LogInv ==
    /\ history \in Seq(Entries) /\ LogTypes
    /\ Matched(log, history, Len(history))
    /\ \A p \in Procs : Pending(p)

\* Steps that write nothing to the log, end no copy and read no version.
LEMMA LogQuiet ==
    ASSUME LogInv, history' = history, log' = log,
           \A p \in Procs : pc'[p] \in {"version", "log"} =>
               pc'[p] = pc[p] /\ cmd'[p] = cmd[p] /\ version'[p] = version[p]
                 /\ registry' = registry
    PROVE  LogInv'
<1>1. \A p \in Procs : Pending(p)'
  BY DEF LogInv, Pending, Entry
<1> QED  BY <1>1 DEF LogInv, LogTypes

LEMMA MatchMore ==
    ASSUME NEW lines, NEW done \in Seq(Entries), NEW entry \in Entries, NEW n \in Nat,
           n <= Len(done), Matched(lines, done, n)
    PROVE  Matched(lines, Append(done, entry), n) /\ Matched(lines, Append(done, entry), n + 1)
<1>1. PICK match \in [EntriesIn(lines) -> 1..n] :
        /\ \A i \in EntriesIn(lines) : Describes(lines[i], done[match[i]])
        /\ \A i, j \in EntriesIn(lines) : i < j => match[i] < match[j]
  BY DEF Matched
<1>2. \A i \in EntriesIn(lines) : Append(done, entry)[match[i]] = done[match[i]]
  BY <1>1
<1>3. match \in [EntriesIn(lines) -> 1..(n + 1)]
  BY <1>1
<1> QED  BY <1>1, <1>2, <1>3 DEF Matched

\* A command that succeeds makes the history one longer.
LEMMA LogSucceeds ==
    ASSUME OneAtATime, LogInv, log' = log, cmd' = cmd, NEW p \in Procs, NEW done \in Entries,
           history' = Append(history, done), done.action = cmd[p], done.version = registry',
           pc'[p] = "version"
    PROVE  LogInv'
<1> DEFINE n == Len(history)
<1>1. n \in Nat /\ history' \in Seq(Entries) /\ Len(history') = n + 1 /\ history'[n + 1] = done
  BY DEF LogInv
<1>2. Matched(log', history', n) /\ Matched(log', history', n + 1)
  BY <1>1, MatchMore DEF LogInv
<1>3. Pending(p)'
  BY <1>1, <1>2 DEF Pending
<1>4. \A q \in Procs : q = p  BY DEF OneAtATime
<1>5. LogTypes'  BY DEF LogInv, LogTypes
<1> HIDE DEF n
<1> QED  BY <1>1, <1>2, <1>3, <1>4, <1>5 DEF LogInv

\* What is appended to the log is the entry of the last command, or a newline.
LEMMA LogEntered ==
    ASSUME OneAtATime, LogInv, NEW p \in Procs, pc[p] = "log", history' = history,
           Entry(p) \in [action : Commands \cup {"none", "newline"},
                         version : Releases \cup {"none", "0.0.0"}],
           log' = Append(log, Entry(p)), pc'[p] = "newline"
    PROVE  LogInv'
<1> DEFINE n == Len(history)
           m == Len(log)
<1>1. n \in Nat /\ n > 0 /\ m \in Nat /\ Matched(log, history, n - 1)
      /\ Describes(Entry(p), history[n])
  BY DEF LogInv, Pending, LogTypes
<1>2. Len(log') = m + 1 /\ log'[m + 1] = Entry(p) /\ (\A i \in 1..m : log'[i] = log[i])
      /\ LogTypes'
  BY DEF LogInv, LogTypes
<1>3. EntriesIn(log') \subseteq EntriesIn(log) \cup {m + 1} /\ EntriesIn(log) \subseteq 1..m
  BY <1>1, <1>2 DEF EntriesIn
<1>4. PICK match \in [EntriesIn(log) -> 1..(n - 1)] :
        /\ \A i \in EntriesIn(log) : Describes(log[i], history[match[i]])
        /\ \A i, j \in EntriesIn(log) : i < j => match[i] < match[j]
  BY <1>1 DEF Matched
<1> DEFINE more == [i \in EntriesIn(log') |-> IF i = m + 1 THEN n ELSE match[i]]
<1>5. more \in [EntriesIn(log') -> 1..n]
  BY <1>1, <1>3, <1>4
<1>6. \A i \in EntriesIn(log') : Describes(log'[i], history[more[i]])
  BY <1>1, <1>2, <1>3, <1>4
<1>7. \A i, j \in EntriesIn(log') : i < j => more[i] < more[j]
  <2> TAKE i, j \in EntriesIn(log')
  <2> HAVE i < j
  <2>1. i \in EntriesIn(log)  BY <1>1, <1>3
  <2>2. CASE j = m + 1  BY <1>1, <1>3, <1>4, <2>1, <2>2
  <2>3. CASE j # m + 1  BY <1>1, <1>3, <1>4, <2>1, <2>3
  <2> QED  BY <2>2, <2>3
<1>8. Matched(log', history', Len(history'))
  <2> HIDE DEF more
  <2> QED  BY <1>5, <1>6, <1>7 DEF Matched
<1>9. Pending(p)'  BY DEF Pending
<1>10. \A q \in Procs : q = p  BY DEF OneAtATime
<1> QED  BY <1>2, <1>8, <1>9, <1>10 DEF LogInv

LEMMA LogEnded ==
    ASSUME OneAtATime, LogInv, NEW p \in Procs, history' = history,
           log' = Append(log, Newline), pc'[p] = "idle"
    PROVE  LogInv'
<1>1. Newline \in [action : Commands \cup {"none", "newline"},
                   version : Releases \cup {"none", "0.0.0"}]
  BY DEF Newline
<1>2. LogTypes'  BY <1>1 DEF LogInv, LogTypes
<1>3. EntriesIn(log') = EntriesIn(log) /\ \A i \in EntriesIn(log) : log'[i] = log[i]
  BY <1>1 DEF EntriesIn, LogInv, LogTypes
<1>4. Matched(log', history', Len(history'))
  BY <1>3 DEF Matched, LogInv
<1>5. Pending(p)'  BY DEF Pending
<1>6. \A q \in Procs : q = p  BY DEF OneAtATime
<1> QED  BY <1>2, <1>4, <1>5, <1>6 DEF LogInv

LEMMA LogStep ==
    ASSUME OneAtATime
    PROVE  ImportInv /\ LogInv /\ [Next]_vars => LogInv'
<1> SUFFICES ASSUME ImportInv, LogInv, [Next]_vars  PROVE LogInv'
  OBVIOUS
<1> USE DEF ImportInv
<1>1. CASE Deliver
  <2>1. \A p \in Procs : pc'[p] \notin {"version", "log"}  BY <1>1 DEF Deliver
  <2>2. history' = history /\ log' = log  BY <1>1 DEF Deliver, ghosts
  <2> QED  BY <2>1, <2>2, LogQuiet
<1>2. ASSUME NEW p \in Procs, Step(p)  PROVE LogInv'
  <2>1. \A q \in Procs : q = p  BY DEF OneAtATime
  <2> USE DEF TypeOK, Goto, Fail, files, ghosts
  <2>2. ASSUME history' = history, log' = log, pc'[p] \notin {"version", "log"}  PROVE LogInv'
    BY <2>1, <2>2, LogQuiet
  <2>3. ASSUME NEW c \in Commands, Start(p, c)  PROVE LogInv'
    <3>1. FirstPoint(c) \notin {"version", "log"}  BY DEF FirstPoint, Commands
    <3> QED  BY <2>2, <2>3, <3>1 DEF Start
  <2>4. CASE LoadKey(p) \/ VerifyEd25519(p) \/ VerifyUnreadable(p) \/ VerifyGpg(p)
    BY <2>2, <2>4 DEF LoadKey, VerifyEd25519, VerifyUnreadable, VerifyGpg
  <2>5. CASE Backup(p) \/ Backed(p)  BY <2>2, <2>5 DEF Backup, Backed
  <2>6. CASE Read(p) \/ Install(p) \/ Rollback(p)  BY <2>2, <2>6 DEF Read, Install, Rollback
  <2>7. CASE Installed(p)
    <3> DEFINE done == [action |-> cmd[p], version |-> package, signed |-> sig.good]
    <3>1. /\ history' = Append(history, done) /\ log' = log /\ cmd' = cmd
          /\ registry' = package /\ pc'[p] = "version"
      BY <2>7 DEF Installed
    <3>2. sig.good \in BOOLEAN
      <4>1. CASE sig = NoSignature  BY <4>1, Zenon DEF NoSignature
      <4>2. CASE sig \in [kind : {"ed25519", "gpg"}, good : BOOLEAN]  BY <4>2, Zenon
      <4> QED  BY <4>1, <4>2 DEF Signatures
    <3>3. done \in Entries  BY <3>2 DEF Entries
    <3>4. done.action = cmd[p] /\ done.version = package  OBVIOUS
    <3> HIDE DEF done
    <3> QED  BY <3>1, <3>3, <3>4, LogSucceeds
  <2>8. CASE Restored(p)
    <3> DEFINE done == [action |-> cmd[p], version |-> backup, signed |-> FALSE]
    <3>1. /\ history' = Append(history, done) /\ log' = log /\ cmd' = cmd
          /\ registry' = backup /\ pc'[p] = "version"
      BY <2>8 DEF Restored
    <3>2. done \in Entries  BY DEF Entries
    <3>3. done.action = cmd[p] /\ done.version = backup  OBVIOUS
    <3> HIDE DEF done
    <3> QED  BY <3>1, <3>2, <3>3, LogSucceeds
  <2>9. CASE ReadVersion(p) \/ VersionUnreadable(p)
    <3>1. /\ pc[p] = "version" /\ pc'[p] = "log" /\ history' = history /\ log' = log
          /\ cmd' = cmd /\ registry' = registry
          /\ registry \in Releases => version'[p] \in {registry, "0.0.0"}
      BY <2>9 DEF ReadVersion, VersionUnreadable
    <3> DEFINE n == Len(history)
    <3>2. /\ n > 0 /\ Matched(log, history, n - 1) /\ history[n].action = cmd[p]
          /\ history[n].version = registry
      BY <3>1 DEF LogInv, Pending
    <3>3. Describes(Entry(p)', history[n])
      BY <3>1, <3>2 DEF Describes, Entry
    <3>4. Pending(p)'
      BY <3>1, <3>2, <3>3 DEF Pending
    <3> QED  BY <2>1, <3>1, <3>4 DEF LogInv, LogTypes
  <2>10. CASE WriteEntry(p)
    <3>1. CASE log' = Append(log, Entry(p)) /\ Goto(p, "newline")
      <4>1. Entry(p) \in [action : Commands \cup {"none", "newline"},
                          version : Releases \cup {"none", "0.0.0"}]
        BY DEF Entry
      <4>2. pc[p] = "log" /\ history' = history /\ pc'[p] = "newline"
        BY <2>10, <3>1 DEF WriteEntry
      <4> QED  BY <3>1, <4>1, <4>2, LogEntered
    <3>2. CASE Fail(p, "ok") /\ UNCHANGED log
      BY <2>2, <2>10, <3>2 DEF WriteEntry
    <3> QED  BY <2>10, <3>1, <3>2 DEF WriteEntry
  <2>11. CASE WriteNewline(p)
    <3>1. history' = history /\ log' = Append(log, Newline) /\ pc'[p] = "idle"
      BY <2>11 DEF WriteNewline
    <3> QED  BY <3>1, LogEnded
  <2>12. CASE IoError(p) \/ Killed(p)  BY <2>2, <2>12 DEF IoError, Killed
  <2> QED
    BY <1>2, <2>3, <2>4, <2>5, <2>6, <2>7, <2>8, <2>9, <2>10, <2>11, <2>12 DEF Step
<1>3. CASE UNCHANGED vars  BY <1>3, LogQuiet DEF vars, files, ghosts
<1> QED  BY Steps, <1>1, <1>2, <1>3

\* Run alone, commands leave a log of which every readable line is of a command
\* that succeeded, in their order, whatever failed or was killed in between.
THEOREM LogIsTrue == ASSUME OneAtATime PROVE Spec => []LogTellsWhatHappened
<1>1. Init => ImportInv /\ LogInv
  <2>1. Init => SignedInv /\ RestoringInv /\ HistoryInv
    BY DEF Init, SignedInv, RestoringInv, HistoryInv
  <2>2. ASSUME Init  PROVE LogInv
    <3>1. log = <<>> /\ history = <<>> /\ \A p \in Procs : pc[p] = "idle"
      BY <2>2 DEF Init
    <3>2. EntriesIn(log) = {}  BY <3>1 DEF EntriesIn
    <3>3. [i \in {} |-> 0] \in [{} -> 1..0]  OBVIOUS
    <3>4. Matched(log, history, Len(history))
      BY <3>1, <3>2, <3>3 DEF Matched
    <3> QED  BY <3>1, <3>4 DEF LogInv, LogTypes, Pending
  <2> QED  BY <2>1, <2>2, TypeInit DEF ImportInv
<1>2. ImportInv /\ LogInv /\ [Next]_vars => ImportInv' /\ LogInv'
  BY LogStep, TypeStep, PackageStep, SignedStep, RestoringStep, HistoryStep DEF ImportInv
<1>3. ASSUME LogInv  PROVE LogTellsWhatHappened
  <2>1. PICK match \in [EntriesIn(log) -> 1..Len(history)] :
          /\ \A i \in EntriesIn(log) : Describes(log[i], history[match[i]])
          /\ \A i, j \in EntriesIn(log) : i < j => match[i] < match[j]
    BY <1>3 DEF LogInv, Matched
  <2>2. ReadableAt \subseteq EntriesIn(log)  BY DEF ReadableAt, EntriesIn
  <2> DEFINE read == [i \in ReadableAt |-> match[i]]
  <2>3. read \in [ReadableAt -> 1..Len(history)]  BY <2>1, <2>2
  <2>4. /\ \A i \in ReadableAt : Describes(log[i], history[read[i]])
        /\ \A i, j \in ReadableAt : i < j => read[i] < read[j]
    BY <2>1, <2>2
  <2> HIDE DEF read
  <2> QED  BY <2>3, <2>4 DEF LogTellsWhatHappened
<1> QED  BY <1>1, <1>2, <1>3, PTL DEF Spec

-----------------------------------------------------------------------------
(* The refinement of RegistryStore.                                        *)

\* While a file is copied to it is torn, and what is copied is there.
CopyInv ==
    \A p \in Procs :
        /\ pc[p] = "rollback" => registry = before[p]
        /\ pc[p] \in {"installing", "restoring"} => registry = "torn"
        /\ pc[p] = "restoring" => backup # "absent"
        /\ pc[p] = "backing" => backup = "torn" /\ registry # "absent"
        /\ pc[p] \in BeforeInstall \cup {"backing", "installing"} => cmd[p] \in Imports

\* What the steps of a single process need to know of each other.
StoreInv == ImportInv /\ SerialInv /\ CopyInv

LEMMA CopyStep ==
    ASSUME OneAtATime PROVE ImportInv /\ CopyInv /\ [Next]_vars => CopyInv'
<1> SUFFICES ASSUME ImportInv, CopyInv, [Next]_vars, NEW q \in Procs  PROVE CopyInv!(q)'
  BY DEF CopyInv
<1> USE DEF ImportInv, CopyInv, Imports, BeforeInstall
<1>1. CASE Deliver  BY <1>1 DEF Deliver, ghosts
<1>2. ASSUME NEW p \in Procs, Step(p) PROVE CopyInv!(q)'
  <2>1. p = q  BY DEF OneAtATime
  <2> USE <2>1 DEF TypeOK, Goto, Fail, files, ghosts
  <2>2. ASSUME NEW c \in Commands, Start(p, c) PROVE CopyInv!(q)'
    <3>1. /\ FirstPoint(c) \in {"backup", "key", "rollback"}
          /\ FirstPoint(c) # "rollback" => c \in Imports
      BY DEF FirstPoint, Commands
    <3> QED  BY <2>2, <3>1 DEF Start
  <2>3. CASE LoadKey(p)  BY <2>3 DEF LoadKey
  <2>4. CASE VerifyEd25519(p)  BY <2>4 DEF VerifyEd25519
  <2>5. CASE VerifyUnreadable(p) \/ VerifyGpg(p)  BY <2>5 DEF VerifyUnreadable, VerifyGpg
  <2>6. CASE Backup(p) \/ Backed(p)  BY <2>6 DEF Backup, Backed
  <2>7. CASE Read(p) \/ Install(p) \/ Installed(p)  BY <2>7 DEF Read, Install, Installed
  <2>8. CASE Rollback(p) \/ Restored(p)  BY <2>8 DEF Rollback, Restored
  <2>9. CASE ReadVersion(p) \/ VersionUnreadable(p)  BY <2>9 DEF ReadVersion, VersionUnreadable
  <2>10. CASE WriteEntry(p) \/ WriteNewline(p)  BY <2>10 DEF WriteEntry, WriteNewline
  <2>11. CASE IoError(p) \/ Killed(p)  BY <2>11 DEF IoError, Killed
  <2> QED
    BY <1>2, <2>2, <2>3, <2>4, <2>5, <2>6, <2>7, <2>8, <2>9, <2>10, <2>11 DEF Step
<1>3. CASE UNCHANGED vars  BY <1>3 DEF vars, files, ghosts
<1> QED  BY Steps, <1>1, <1>2, <1>3

\* Where the one process is tells what the store looks like.
LEMMA StoreOf ==
    ASSUME OneAtATime, NEW p \in Procs
    PROVE  /\ StoredCurrent = IF Overwriting(p) THEN before[p] ELSE registry
           /\ StoredKept = IF pc[p] = "backing" THEN registry ELSE backup
<1>1. \A q \in Procs : q = p  BY DEF OneAtATime
<1>2. CASE Overwriting(p)
  <2>1. (CHOOSE q \in Procs : Overwriting(q)) = p  BY <1>1, <1>2
  <2> QED  BY <1>1, <1>2, <2>1 DEF StoredCurrent, StoredKept
<1>3. CASE ~Overwriting(p)
  BY <1>1, <1>3 DEF StoredCurrent, StoredKept
<1> QED  BY <1>2, <1>3

LEMMA StoreOfNext ==
    ASSUME OneAtATime, NEW p \in Procs
    PROVE  /\ StoredCurrent' = IF pc'[p] \in {"installing", "restoring"}
                               THEN before'[p] ELSE registry'
           /\ StoredKept' = IF pc'[p] = "backing" THEN registry' ELSE backup'
<1>1. \A q \in Procs : q = p  BY DEF OneAtATime
<1>2. CASE pc'[p] \in {"installing", "restoring"}
  <2>1. (CHOOSE q \in Procs : Overwriting(q)') = p  BY <1>1, <1>2 DEF Overwriting
  <2> QED  BY <1>1, <1>2, <2>1 DEF StoredCurrent, StoredKept, Overwriting
<1>3. CASE pc'[p] \notin {"installing", "restoring"}
  BY <1>1, <1>3 DEF StoredCurrent, StoredKept, Overwriting
<1> QED  BY <1>2, <1>3

StoreVars == <<StoredCurrent, StoredKept>>

LEMMA StoreStep ==
    ASSUME OneAtATime PROVE StoreInv /\ [Next]_vars => [Store!Next]_StoreVars
<1> SUFFICES ASSUME StoreInv, [Next]_vars  PROVE Store!Next \/ UNCHANGED StoreVars
  OBVIOUS
<1> USE DEF StoreInv, ImportInv, SerialInv
<1>1. CASE Deliver
  <2>1. UNCHANGED <<registry, backup, pc, before>>  BY <1>1 DEF Deliver, ghosts
  <2> QED  BY <2>1 DEF StoreVars, StoredCurrent, StoredKept, Overwriting
<1>2. ASSUME NEW p \in Procs, Step(p)  PROVE Store!Next \/ UNCHANGED StoreVars
  <2> DEFINE current == StoredCurrent
             kept == StoredKept
  <2>1. /\ current = IF pc[p] \in {"installing", "restoring"} THEN before[p] ELSE registry
        /\ kept = IF pc[p] = "backing" THEN registry ELSE backup
    BY StoreOf DEF Overwriting
  <2>2. /\ current' = IF pc'[p] \in {"installing", "restoring"} THEN before'[p] ELSE registry'
        /\ kept' = IF pc'[p] = "backing" THEN registry' ELSE backup'
    BY StoreOfNext
  <2>3. ASSUME current' = current, kept' = kept  PROVE UNCHANGED StoreVars
    BY <2>3 DEF StoreVars
  <2> HIDE DEF current, kept
  <2> USE DEF TypeOK, Goto, Fail, files, ghosts
  <2>4. ASSUME NEW c \in Commands, Start(p, c)  PROVE UNCHANGED StoreVars
    <3>1. FirstPoint(c) \notin {"installing", "restoring", "backing"}
      BY DEF FirstPoint, Commands
    <3> QED  BY <2>1, <2>2, <2>3, <2>4, <3>1 DEF Start
  <2>5. CASE LoadKey(p)  BY <2>1, <2>2, <2>3, <2>5 DEF LoadKey
  <2>6. CASE VerifyEd25519(p)  BY <2>1, <2>2, <2>3, <2>6 DEF VerifyEd25519
  <2>7. CASE VerifyUnreadable(p) \/ VerifyGpg(p)
    BY <2>1, <2>2, <2>3, <2>7 DEF VerifyUnreadable, VerifyGpg
  \* The backup is truncated: from here on the registry counts as kept.
  <2>8. CASE Backup(p)
    <3>1. CASE registry = "absent"  BY <2>1, <2>2, <2>3, <2>8, <3>1 DEF Backup
    <3>2. CASE registry # "absent"
      <4>1. current # "absent" /\ kept' = current /\ current' = current
        BY <2>1, <2>2, <2>8, <3>2 DEF Backup
      <4> QED  BY <4>1 DEF Store!Next, Store!Keep, current, kept
    <3> QED  BY <3>1, <3>2
  <2>9. CASE Backed(p) \/ Read(p)  BY <2>1, <2>2, <2>3, <2>9 DEF Backed, Read
  \* The registry is truncated: it counts as what the command found.
  <2>10. CASE Install(p)
    <3>1. registry = before[p]  BY <2>10 DEF UntouchedInv, BeforeInstall, Install
    <3> QED  BY <2>1, <2>2, <2>3, <2>10, <3>1 DEF Install
  <2>11. CASE Installed(p)
    <3>1. pc[p] = "installing" /\ package \in Releases
      BY <2>11 DEF Installed, PackageInv
    <3>2. cmd[p] \in Imports  BY <3>1 DEF CopyInv
    <3>3. current = "absent" \/ kept = current
      BY <2>1, <3>1, <3>2 DEF KeptInv, BackupMade
    <3>4. current' \in Releases /\ kept' = kept
      BY <2>1, <2>2, <2>11, <3>1 DEF Installed
    <3> QED
      BY <3>3, <3>4 DEF Store!Next, Store!Replace, Store!Covered, current, kept
  <2>12. CASE Rollback(p)
    <3>1. registry = before[p]  BY <2>12 DEF CopyInv, Rollback
    <3> QED  BY <2>1, <2>2, <2>3, <2>12, <3>1 DEF Rollback
  <2>13. CASE Restored(p)
    <3>1. kept # "absent" /\ current' = kept /\ kept' = kept
      BY <2>1, <2>2, <2>13 DEF Restored, CopyInv
    <3> QED  BY <3>1 DEF Store!Next, Store!Restore, current, kept
  <2>14. CASE ReadVersion(p) \/ VersionUnreadable(p)
    BY <2>1, <2>2, <2>3, <2>14 DEF ReadVersion, VersionUnreadable
  <2>15. CASE WriteEntry(p) \/ WriteNewline(p)
    BY <2>1, <2>2, <2>3, <2>15 DEF WriteEntry, WriteNewline
  \* A command stops: a copy that is under way is cut short.
  <2>16. CASE IoError(p) \/ Killed(p)
    <3>1. UNCHANGED <<registry, backup, before>> /\ pc'[p] = "idle"
      BY <2>16 DEF IoError, Killed
    <3>2. CASE pc[p] = "backing"
      <4>1. current # "absent" /\ kept = current /\ kept' = "torn" /\ current' = current
        BY <2>1, <2>2, <3>1, <3>2 DEF CopyInv
      <4> QED  BY <4>1 DEF Store!Next, Store!LoseKept, current, kept
    <3>3. CASE pc[p] \in {"installing", "restoring"}
      <4>1. current = "absent" \/ kept # "absent"
        BY <2>1, <3>3 DEF CopyInv, KeptInv, BackupMade
      <4>2. current' = "torn" /\ kept' = kept
        BY <2>1, <2>2, <3>1, <3>3 DEF CopyInv
      <4> QED  BY <4>1, <4>2 DEF Store!Next, Store!LoseCurrent, current, kept
    <3>4. CASE pc[p] \notin {"backing", "installing", "restoring"}
      BY <2>1, <2>2, <2>3, <3>1, <3>4
    <3> QED  BY <3>2, <3>3, <3>4
  <2> QED
    BY <1>2, <2>4, <2>5, <2>6, <2>7, <2>8, <2>9, <2>10, <2>11, <2>12, <2>13, <2>14, <2>15,
       <2>16 DEF Step
<1>3. CASE UNCHANGED vars
  BY <1>3 DEF vars, files, ghosts, StoreVars, StoredCurrent, StoredKept, Overwriting
<1> QED  BY Steps, <1>1, <1>2, <1>3

\* Run alone, imports and rollbacks implement RegistryStore, for any number of
\* them and of faults: every change of the two files is one step of the store.
THEOREM UpdatesImplementStore == ASSUME OneAtATime PROVE Spec => ImplementsStore
<1>1. Init => StoreInv /\ Store!Init
  <2>1. Init => SignedInv /\ RestoringInv /\ HistoryInv /\ SerialInv /\ CopyInv
    BY DEF Init, SignedInv, RestoringInv, HistoryInv, SerialInv, UntouchedInv, KeptInv,
       BeforeInstall, Refusals, BackupMade, CopyInv
  <2>2. Init => Store!Init
    BY DEF Init, Store!Init, StoredCurrent, StoredKept, Overwriting
  <2> QED  BY <2>1, <2>2, TypeInit DEF StoreInv, ImportInv
<1>2. StoreInv /\ [Next]_vars => StoreInv'
  BY TypeStep, PackageStep, SignedStep, RestoringStep, HistoryStep, SerialStep, CopyStep
  DEF StoreInv, ImportInv
<1>3. StoreInv /\ [Next]_vars => [Store!Next]_StoreVars
  BY StoreStep
<1> QED  BY <1>1, <1>2, <1>3, PTL DEF Spec, ImplementsStore, Store!Spec, StoreVars
=============================================================================
