# CryptoTrace in TLA+

A verification development for CryptoTrace (the Rust crate in `src/`): TLA+
modules translated from the source, TLC configurations that check them on small
instances, and TLAPS proofs of the main results for every value of the
constants. `PROJECT.json` lists the components, runs, mutants, hazards and
theorems, and maps every definition that models code to its lines.

    tlc -workers 2 -config sandbox_safety.cfg MCSandbox
    tlapm Sandbox_proofs.tla

## 1. The system

CryptoTrace looks at bytes (a file, a string, the standard input of a worker)
and says what they are: a hash, an encoding, an encryption or compression
format, a known file type, or nothing. It is a library with a command line
(`src/main.rs`, `src/cli.rs`) and a second binary, the worker (`src/bin/worker.rs`).

| component | state it keeps | operations | what makes it correct |
|---|---|---|---|
| Sandbox (`sanitization/sandbox.rs`) and worker (`bin/worker.rs`) | the permit count, shared by threads; a child process, two pipes and a writer thread per call | `run_worker`, `wait_with_timeout`, `Drop for CountPermit`; the worker's `main` | permits conserved, workers bounded and reaped, results whole |
| Sandboxed analysis (`analyzers/file.rs`, `workers.rs`, `sanitization/guard.rs`) | none of its own | `analyze_file_sandboxed`, `analyze_bytes_sandboxed` | every analysis ends; no crash, timeout or error of a worker becomes an analysis failure |
| Signature updates (`update.rs`) | `default.yaml`, `backup.yaml`, `provenance.jsonl` on disk | `import_local`, `import_local_verified`, `rollback` | only good packages installed, what is replaced is kept, refusals change nothing, the log is true |
| AI narrative cache (`cache.rs`, `intelligence/prompt.rs`) | a global `LruCache` behind a mutex | `init_cache`, `clear_cache`, `generate_ai_narrative` | capacity, LRU order, narratives about their own input |
| Recursive analysis (`analyzers/recursive.rs`, `core/compression.rs`) | the loop's layers and seen hashes | `analyze_recursive` | a chain without repetitions, both expansion limits, truthful ends |
| Text detectors (`core/hashing.rs`, `core/encoding.rs`) | none | `detect_hash`, `detect_encoding` | the narrowest format wins |
| Detection (`analyzers/file.rs`, `core/confidence.rs`, `intelligence/risk.rs`, `signatures/mod.rs`) | the global calibration model; `cryptotrace.toml` on disk | `analyze_bytes`, `build_detection_result`, `set_model` | a result made from one model and one configuration; the overlay leaves detections alone |
| Calibration training (`core/calibration.rs`) | `model.json` on disk | `train`, `save_model`, `load_model`, `set_model` | a model is one that was saved in full, or the remains of two trainings that met; the regression is numeric and not modelled |
| Command line (`main.rs`, `cli.rs`) | none | `main`, `run_with_cli`, `load_ai_provider` | what is printed is what was logged; keys go where they belong; commands end |
| AI providers (`providers/mod.rs`) and narrative validation (`intelligence/narrative.rs`) | none | `create_provider`, `generate`, `validate_narrative` | any reply or none leaves a result; what a narrative keeps of a reply |
| Audit log (`intelligence/audit.rs`) | `audit.jsonl`, append only | `log_analysis` | nothing that was logged is lost or changed |
| Threat intelligence (`intelligence/threat_intel.rs`) | one scan file with a fixed name, for all processes | `composite_threat_scan`: `query_virustotal`, `scan_yara` | a scan is of its own bytes |
| Community signatures (`providers/community.rs`) | one file per provider | `load_community_signatures` | what is loaded is a whole file the provider served |
| SIEM export (`intelligence/siem.rs`) | none | `send_to_syslog_with_config` | a receiver reads back what was sent, if the CVE ids let it |
| Reports (`reports/*.rs`), formats (`format/mod.rs`), types | none | formatting of a finished result | not modelled |

How they interact:

- the command line calls an analysis; with `--sandbox` it makes a `Sandbox` and
  the analysis runs in a worker process, over pipes, with the same
  `analyze_bytes` on both sides; when the worker fails, the calling thread
  analyzes the bytes itself;
- the threads of a program that share a `Sandbox` share one counter of permits;
- `analyze_bytes` reads a global (the calibration model, which `main` loads at
  the start, training replaces and the worker never has) and a file (the
  configuration, which the user edits);
- `attach_ai_narrative` goes through the global narrative cache, which
  concurrent tasks use without holding its lock while they wait for a provider;
- update commands are processes of their own that meet only in the files;
- so are the other commands and the public operations of the library: `analyze`
  processes meet in the audit log, with `calibrate train` in the model file,
  threat scans in the scan file, loads in the signature file. None of these files
  is locked, and each is rewritten in place or appended to in pieces;
- no command of this repository calls the scans, loads and exports (they are for
  programs that use the library), so the project runs each as a process.

What is hard here, with its lines, is the list `hazards` of `PROJECT.json`:
early returns that hold a shared resource, a process that hangs on a pipe while
its parent polls, a timeout racing an exit, copies that are cut short and then
read by the next command, a backup made too early, a lock released across an
`await`, limits checked at the wrong layer, and results finished in several
steps from state that changes meanwhile.

## 2. Modules

| module | models | stands on |
|---|---|---|
| `SeccompFilter` | operators: the filter program of Linux and the kernel's check of it | |
| `Sandbox` | `run_worker`, its threads, pipes and workers | EXTENDS `SeccompFilter` |
| `WorkerSlots` | abstract: what a sandbox promises its callers | |
| `SandboxedAnalysis` | the analyses over a shared sandbox | EXTENDS `Sandbox` |
| `UpdateManager` | the update commands over their files | |
| `RegistryStore` | abstract: what the update commands promise of registry and backup | |
| `NarrativeCache` | the cache and its tasks | |
| `RecursiveAnalyzer` | the unwrapping loop | |
| `TextFormats` | operators: the hash and encoding detectors | |
| `Detection` | one analysis in a changing world | EXTENDS `TextFormats` |
| `Processes` | operators: processes that are killed, writes in place that are cut short | |
| `Narratives` | operators: the validation of an AI answer | |
| `AnalyzeCommand` | `analyze` and `calibrate train`, from `main` to the printed result | EXTENDS `Processes`, `Narratives` |
| `ThreatScan` | the threat scan over its shared file | EXTENDS `Processes` |
| `CommunityCache` | the signature file that is downloaded once | EXTENDS `Processes` |
| `SyslogExport` | the export lines, the two transports, a receiver | EXTENDS `Processes` |
| `SharedFiles` | all of these on one machine | EXTENDS the four before it |
| `..._proofs` (eight) | theorems | EXTEND the module they are about |
| `MC...` | the constants of the runs | EXTEND the module they instantiate |

Definitions whose comment begins with "Slip:" are no part of the model: each is
a plausible mistake in the definition after it, used to show that a property
would notice (the list `mutants`).

### Sandbox

`pc[t]` is the point `run_worker` has reached in thread `t`; a thread makes one
call at a time.

- `Disabled`, `Acquire`: the early return of a disabled sandbox, and
  `CountSemaphore::acquire`, which refuses at once when no permit is left
  (`MaxConcurrent = 0` is a sandbox without a semaphore).
- `Spawn`, `SpawnFails`, `AssignJob`, `AssignJobFails`: from the command to the
  writer thread. The job object (Windows only) comes between the spawn and the
  writer thread; its `?` drops the `Child`, which neither kills nor reaps it, so
  the worker becomes an orphan.
- `SeesRunning`, `Sleep`, `Kill`, `WaitFails`, `SeesExit`: the loop of
  `wait_with_timeout`, with the poll and what follows it as separate steps, so
  that a worker may finish between the poll and the kill.
- `Collect`, `Join`: `wait_with_output` after the exit, then the join of the
  writer thread and the exit status.
- `Return`: the permit's `Drop`, with its cap at the capacity.
- `WriteUnit`, `CloseStdin`: the writer thread; a dead reader ends it.
- `ReadUnit`, `ReadEof`, `Compute`, `WriteOutput`, `Exit`, `Crash`: the worker.

Payloads are units and a pipe holds `PipeCap` of them, which is all that matters
for blocking. Time is the number of polls. The worker writes a line to stderr at
most, so that pipe is left out.

`Platform` is what the program was built for. `PostSpawn` says that there is a
job object (Windows), `CanExec` that the `pre_exec` hook lets the child go on.
On Linux the hook installs the filter of `SeccompFilter`, where `Program` is what
`install_seccomp_blacklist` builds and `Accepted` the kernel's rule that no jump
may leave a program. As built, every comparison jumps `n + 1` instructions ahead
whatever its own place, so the kernel refuses the program, the hook fails and no
worker starts: with `Platform = "linux"` every call is a refusal or a spawn error,
and every analysis is done by the calling thread. The runs therefore use the
platforms where there is more to see. Were the offset right, the filter would
still stop the child's own `execve`, which comes after it.

`WorkerSlots` is the promise: a call takes one of `MaxConcurrent` slots or is
refused while all are taken, and keeps its slot until it has its answer.
`ImplementsSlots` is the refinement, with the slots of the threads that hold a
permit and the answer abstracted to ok or error.

### SandboxedAnalysis

`stage[t]` is where the analysis is. `Begin` takes a file through the guard
(`Guard`) or bytes directly, `Call` begins `run_worker`, `Proceed` is any step of
`Sandbox`, `Receive` is the match on its result, `Fallback` the analysis in the
thread itself, and `Take` ends it. An answer is known by who gave it: a worker
never loads a calibration model, so its results are provisional even where the
same analysis in the calling process would be calibrated. The parse of an output
is no part of what the fallback covers (`file.rs:89-94`, `108-110`). The worker of
this version prints a result or exits with an error, so its outputs parse; a thread
in `Foreign` has a `worker_path` that leads to another program, one of another
version or one that was taken over, which may exit with 0 and print something else:
`Receive` then answers `parse_error`. The output of a disabled sandbox is the input
itself, which is parsed as a result and rejected or, if it happens to be one,
believed; the command line passes only enabled sandboxes.

### UpdateManager

A file is what it holds: a release, an empty or a malformed registry, a torn
copy, or absent. `fs::copy` truncates before it fills, so `Backup`/`Backed`,
`Install`/`Installed` and `Rollback`/`Restored` are two steps each. `LoadKey`,
`VerifyEd25519`, `VerifyUnreadable` and `VerifyGpg` are the verification, whose
three outcomes (good, bad, error) decide whether gpg is asked. `ReadVersion`,
`VersionUnreadable`, `WriteEntry`, `WriteNewline` end a successful command: the version is read back
from disk, and `writeln!` on an unbuffered file writes the entry and the newline
separately. `IoError` and `Killed` may strike wherever the code has a `?` or
anywhere at all; `MaxFaults` bounds how often. `Deliver` is the user, who changes
the package and the signature only while no command runs. Opening the log may
fail without a fault being counted, since the code ignores it.

`before`, `replaced` and `history` are history variables for the properties.

`RegistryStore` is the promise for commands run one at a time: a current registry
and a kept one, `Keep`, `Replace` (only of what is kept, or of nothing), `Restore`,
and a cut short copy that costs the file it was to fill. `ImplementsStore` is the
refinement: a copy over the registry counts when it is complete (until then the
store holds what the command found), a copy to the backup when it starts. The
store does not promise that what was kept survives the next `Keep`: an import that
is refused, or one after a torn install, overwrites the only good copy, as in
divergence 2 below.

### NarrativeCache

`present`, `value` and `used` are the entries of `LruCache`, `clock` the time of
the next access. `Hit`, `Miss`, `Answered`, `ProviderFails`, `Store` are the
steps of `generate_ai_narrative` between which the lock is free. `InsertEntry`
evicts the oldest entry of a full cache, even if the key is already there, as
the code does. `Instant`s are taken to be distinct.

### RecursiveAnalyzer

A blob is what the detectors say of it, its length and what it decodes to;
`Init` chooses all of that, so that every world of blobs is a behaviour,
including data that decodes to itself through any number of layers. The early
returns of an iteration are actions of their own in the order of the code
(`DepthReached`, `TimedOut`, `Cycle`, `NothingFound`, `BombFound`), and `Unwrap`
is an iteration that pushes a layer. `Decoded` has the decompressor's own limit,
whose error the code drops.

### TextFormats and Detection

The detectors look at which characters a string has, at how many, and at a few
shapes. So a string is a count for each of 17 character classes, the coarsest
that every alphabet is a union of, a shape (UUID, URL escapes, Adobe brackets,
the prefixes of key derivation functions) and the score Base64 decoding gives.
`Exists` says which combinations are strings. One class holds all characters beyond
ASCII, each as one byte; `detect_base91` casts characters to bytes and takes some of
these for symbols of its own (`encoding.rs:301`), which `IsBase91` leaves out. No
property depends on it. `HashOf` and `EncodingOf` are
`detect_hash` and `detect_encoding`.

`Detection` is `analyze_bytes` in three steps: `ReadOverrides` reads the
configuration, `Build` reads the calibration model under its lock and fills in
the result, `Overlay` lets the signature registry decide where nothing else was
found. `SetModel` and `EditConfig` are the others, who may act in between.
Confidences are in thousandths, entropies in tenths.

### Processes, SharedFiles

`program[p]` is what process `p` runs, `pc[p]` where it is (at first, the name of
its program), and a process runs one program. `Overwrite` is a write to a file
that was opened without `O_APPEND`: from its beginning, over what others have put
there since it was truncated, whose tail stays if it was longer. `Beginnings` is
what a write leaves that fails or is killed. `SharedFiles` lets the processes
take the steps of their programs in any order; `Fault` is an error of a system
call, `Kill` a kill at any point with what it leaves in the files, and
`MaxFaults` bounds both.

### AnalyzeCommand, Narratives

The steps of `analyze` are those of `main` and `run_with_cli`: `LoadModel`,
`Detect` (in a worker, which has no model, or in the process itself; the analysis
as such is `Detection` and `SandboxedAnalysis`), `Deepen` for `--deep`, `OpenLog`
and `WriteEntry`, `AskService`/`NoNarrative`, `Receive`/`RequestFails`,
`PrintResult`, with `DetectFails` and `DeepenFails` for the two `?` that end the
command before anything is logged. What `--deep` unwraps is the text of the
input's SHA-256 (`cli.rs:192`), so of its result only the number of layers is
kept. `writeln!` on a `File` with a JSON value is many small writes; an entry is
`Pieces` of them, each of which goes to the end of the file, and what fails is
ignored (`LogFails`).

`Config` is `load_ai_provider`: the environment hides the file, and the model
name stays `gpt-4o` wherever no other is given, also for Anthropic and local
models (`cli.rs:474-485`). `Request` is `create_provider` with what the three
providers send; a provider without its key sends nothing. A reply has the shape
of some service or of none, since the HTTP status is not looked at, and a
provider finds the content only in its own shape. The content goes through
`Validated`. A text is its words (ordinary, well-formed CVE number, something
that begins like one) and what the validators ask of it. Where a validator
refuses a text, `extract_field` keeps it all the same (`narrative.rs:71`,
`unwrap_or`), although line 8 of that file promises a safe default.

A training reads its data, refuses bad or empty ones, and rewrites `model.json`
in place: `TruncateModel`, `WriteModel`. A model is known by the process that
trained it; a file is a model, empty, torn or absent, and the last three load as
none. A write that fails or is killed leaves what `Remains` says: of an empty file a
first part, which is no JSON (torn); of one that another training has filled since
both truncated it, its own beginning with that one's end. The two texts have one
layout, so this may parse, with some weights of each: the model `mixed`, which
no training saved. `overlaps` is history: a training that truncated the file while
another one was about to write it.

### ThreatScan

`scanFile` is the inode that the fixed name in the temporary directory stands for,
`inodes` what is in each, so that a scan goes on writing to a file that another
one has removed, as it does on Unix. `OpenScanFile`, `FillScanFile` (`fs::write`),
`RunYara`, `RemoveScanFile` are the steps of `scan_yara`. yara's exit status is
not looked at and there is no timeout. `met` is history: the scans that were at
the file while this one was.

### CommunityCache

`CheckLocal`, `ReadLocal` for a file that is there; `Download`, `CreateLocal`,
`FillLocal` for one that is not, with the errors of both (`LoadFails`). A file is its bytes, each known by the version
it is of. `disturbed` is history: a store was cut short, or two went on at once.

### SyslogExport

A line is a sequence of symbols: the characters that mean something to a receiver
and words without any. The hash, the numbers and the drivers are such words, as the
program makes them itself. The CVE ids are not: they are free strings of
`signatures/cve_map.yaml` and `cve-db.json` (`confidence.rs:246-253`,
`risk.rs:54-92`), which `siem.rs:51` joins without any escape (`Joined`, `Written`). `CefFields` and `LeefFields` are the extensions of
`format_cef` and `format_leef`, `Escaped` their escapes (backslashes, where the
comment at `siem.rs:126` says "URL-encoded"), `SendUdp`, `SendTcp` and
`SendNewline` the transports. `Received` and `ReadLine` are a receiver that undoes
what was done; what it has of an export are datagrams and the parts of a
connection that a newline ends (`Lines`). `IdsArePlain` is the condition under which
it reads the result: no id has a backslash, a `=` or a newline. All ids of the
`cve_map.yaml` that is shipped are so (`cve-db.json` is not shipped).

## 3. Runs

| run | instance | what it shows |
|---|---|---|
| `sandbox_safety` | 3 threads, one with a disabled sandbox, 1 permit, Windows (a job object), 1 poll, input of 2 units, output of 0 to 2, pipes of 1 | no permit is lost or made up on any return; at most one worker at a time; none outlives its call; `Ok` only with whole output; `run_worker` implements the slots |
| `sandbox_pipe` | 1 thread, output beyond the pipe | violation: the worker blocks on its stdout until it is killed |
| `analysis_live` | 2 threads, 1 permit, another Unix (no job object), pipes of 1, fairness | every analysis ends; crashes, timeouts and errors of workers are masked, also where one of the workers is another program |
| `analysis_foreign` | 1 thread, whose worker is another program | violation: an output that is no result ends the analysis without the fallback |
| `update_faults` | 1 process, 2 releases, 3 commands, 1 fault | backups, refusals, signatures, torn files, the provenance log, and the refinement of `RegistryStore` |
| `update_rollback` | the same without faults | violation: a refused import overwrites the backup |
| `cache_lru` | 2 tasks, 4 keys, capacity 3, 6 calls | capacity, LRU order, narratives about their input |
| `recursive_worlds` | 3 blobs of 4 lengths, depth 3, limits 2 and 3 | chain, limits, truthful ends |
| `recursive_bomb` | 2 blobs, both limits equal | violation: a bomb ends in `Ok` |
| `detection` | some thousand inputs, a registry of 4 signatures, 1 model | one model per result, explained risks, detections stand, narrowest encoding |
| `shared_files` | 3 processes, some 700 plans of what they run, 1 fault, entries of 2 pieces, 1 layer, fairness | printed results are logged and calibrated by a saved model; keys go to their services; scans, loads and exports are whole; the log only grows; commands end |
| `narrative_fields` | 1 analysis with a narrative and each reply | violation: refused fields are printed as they came |

Why the bounds are enough:

- A permit changes hands between two threads, so two sandboxed threads on one
  permit have every order of acquire, refusal, and release; the third thread is
  there for the other kind of return. Input and output larger than the pipe
  (2 against 1) make both ends block; output 0 and 1 are the cases that do not.
  One poll is enough for a timeout before, at and after the exit.
- Three update commands are enough for import, refused import, rollback, which
  is the shortest way to lose a version; a fault in any of them leaves two
  commands to meet what it left.
- A cache of three with four keys has an oldest, a middle and a newest entry and
  one key to evict for; six calls fill it, touch an entry, and store a key twice.
- Three blobs give cycles of length one to three and chains up to the depth
  limit; lengths 0, 1 and two multiples lie on both sides of both limits.
- The inputs of `detection` are all strings of at most two classes with 2, 8 or
  32 characters each, Base64-like ones with every padding, and one of each
  special shape; with and without a blank after them, and as the first of two
  tokens; at an entropy in each interval that the code distinguishes.
- In `shared_files` a plan says what each of the three processes runs, and there
  is one set of plans for each way in which programs meet, so that the states of
  the plans add up and do not multiply: two analyses in the log, two trainings and
  an analysis at the model file, three scans of files of one and two units at the
  scan file, three loads of versions of one and two units, and alone an analysis
  with each setting and each reply and an export of each value. What is not
  covered is three analyses at once, and programs of different kinds, which share
  no files but the model. One fault leaves two processes to meet what it left.
  Entries of two pieces can be cut into each other; every symbol is met alone, in
  front of and behind every other. In the settings a key of `cryptotrace.toml` is
  one for the provider it names, OpenAI if it names none: anything else is what
  the user asked for.

`CHECK_DEADLOCK FALSE` is set where the program may stop: when the bound on
commands or calls is reached, and when an analysis is over.

### Fairness

`AnalysisSpec` and the `Spec` of `SharedFiles` state some; the others state none
and are checked for safety only.

`AnalysisSpec`: weak fairness for the analyzing threads' own steps, for
`run_worker` within them, and for the writer threads. These are OS threads that
are never blocked for ever but by what the model shows as blocking (a full pipe,
the join), so the scheduler's fairness is enough. Nothing is assumed of a worker:
it may hang in any state, and `AnalysisAnswers` holds because the poll loop counts
up to a timeout whose kill also breaks the pipe the writer thread may be stuck on.
Nothing is assumed of callers either.

`SharedFiles`: weak fairness for the steps of `analyze`, `train` and load
processes. Each is a local system call or a request whose client has a timeout
(30 seconds by default for AI providers, `providers/mod.rs:17-29`, and that of the
download), so that `RequestFails` and `DownloadFails` happen if nothing else does.
Nothing is assumed of services. There is no fairness for scans, as `scan_yara`
waits for the `yara` command without a timeout, nor for exports, as `send_tcp`
connects and writes without one: nothing in the code makes these end.

### Where documentation and code disagree

Each of the five violation runs checks one sentence of the documentation, a
comment or a test, quoted in `findings`:

1. `sandbox.rs:151-152` says the writer thread avoids a deadlock when the
   worker's stdout fills up. Nobody reads stdout before the worker has exited.
2. `docs/CLI_REFERENCE.md:74` says rollback returns to the previous version. The
   backup is made before the package is validated (`update.rs:59`), so a refused
   import makes the current version the "previous" one.
3. `SECURITY.md:64` says a worker that "crashes or is compromised" leaves the main
   pipeline unaffected. A crash does; an output that is no result ends the analysis
   with an error (`file.rs:89`), as its parse is outside the fallback.
4. `tests/compression_bomb_test.rs:3-5` wants `CompressionBomb` for a bomb. The
   decompressor's error is dropped by `.ok()` (`recursive.rs:96`).
5. `narrative.rs:8` says that invalid fields get safe defaults, and `SECURITY.md:89`
   that validation per field prevents hallucination. `unwrap_or` keeps a field its
   validator refuses (line 71), and a malformed CVE number passes behind a
   well-formed one (line 96).

Six more are proved and need no run:

- `docs/CONFIGURATION.md:80` says an algorithm's risk can be overridden, and by
  `SignaturesHaveTheRiskOfTheirCategory` the overlay of the signature registry
  (`file.rs:55-72`) does not look at the rules;
- `siem.rs:50-52` joins CVE ids without an escape, and by `NewlinesSplitEvents` one
  with a newline splits the event, for which `escape_cef` was written;
- `sandbox.rs:78` describes the worker on Linux as a "subprocess with seccomp-bpf",
  and by `NoWorkerOnLinux` none ever starts;
- `README.md:407` shows an MD5 hash whose result has no conflict, and by
  `BareHashesConflict` every hash of hexadecimal digits that is the whole input has
  one;
- `confidence.rs:92` caps the confidence of a hash that is an encoding too at 0.95,
  and by `SharedSignalsAreNotCapped` the pipeline, which does not call this
  function, gives a bare SHA-256 or SHA-512 0.955;
- by `BombsAreNeverReported` divergence 4 is no matter of the input: with the
  limits of the code no analysis ever ends in `CompressionBomb`.

And three can be read off the code, so that a property would only repeat it:

- `SECURITY.md:96` names GPG as the fallback for signatures. It is asked only when a
  file cannot be read, not when the signature is not an Ed25519 one (`update.rs:124`,
  `VerifyEd25519` and `VerifyUnreadable`);
- `docs/CONFIGURATION.md:61` calls `max_concurrent` the "Max concurrent workers". A
  worker that an error of `try_wait` or of the job object leaves behind
  (`sandbox.rs:215`, `149`) is not counted any more: `WorkersBounded` is about
  workers under a call, and the others are in `orphans`;
- the comment at `siem.rs:126` says "URL-encoded" of escapes that are backslashes.

## 4. Proofs

TLAPS (SMT, Zenon, and LS4 for the temporal steps) checks every proof. All
theorems are about the specifications above, for every value of the constants
that satisfies the assumptions named in the modules (`SandboxAssumption`:
naturals, a finite set of threads; `AnalysisAssumption`: which threads analyze files
and which may have another program for a worker; `UpdateAssumption`: a
release is none of the marks for other contents; `DetectionAssumption`: the types of
inputs, models and rules, and a registry whose signatures are finite and of other
categories than "hash" and "encoding", as all of `signatures/default.yaml` are;
`CacheAssumption` and `SharedAssumption`: the types of what services answer and
processes run).

**Sandbox_proofs.** `TypeCorrect` needs no more than the type invariant, which
is inductive only because of the cap in `Return`. `PermitsAreConserved` counts
holders: a lemma on cardinalities says what adding or removing one holder does,
and each action either leaves `held` alone or moves one permit.
`WorkersAreBounded` follows from a strengthening that ties a live worker to a
call that holds a permit and is at a point between the spawn and the return;
it also gives `NoWorkerIsLeftBehind`. `ResultsAreComplete` needs an invariant
about the pipes: the worker computes only after the writer is done and it has
read all that was sent, the writer is done early only if the worker is dead, and
a worker that has exited has written all of its output.
`SandboxImplementsSlots` maps each action to a step or a stutter of
`WorkerSlots` using the invariants on permits and points; it assumes a semaphore
(`MaxConcurrent > 0`). `NoFilterIsAccepted` is about the filter program for any
table of 1 to 254 syscalls (the offset is a `u8`), and `NoWorkerOnLinux` draws
the consequence for `run_worker`. `LargeResultsAreLost` is divergence 1 for every
size: what a worker has written is in its pipe until it exits (`PipeFilled`), so
by `ResultsAreComplete` no result that is larger than a pipe is ever returned.
`CallsRunOut` gives the number of steps a call has left at most (`Remaining`, from
`PollInv`: the polls are counted up to the timeout) and shows that each step of
`run_worker` makes it smaller. This is the part of `AnalysisAnswers` that is no
matter of fairness: a call can only end or be stuck, never go round for ever.

**SandboxedAnalysis_proofs.** `AnalysisUsesSandbox` shows that the composition
makes only steps of `Sandbox` on the sandbox's variables, so that every theorem
above holds of it. `WorkerFailuresAreMasked` adds an invariant that ties the
stage of an analysis to the point of its call and the answer to the outcome; the
one failure it leaves is the foreign output of divergence 3, and by
`OwnWorkersNeverFail` there is none where `Foreign` is empty.
With `LargeResultsAreLost` it gives `LargeResultsAreInProcess`: whatever is larger
than a pipe was found by the calling thread, outside the sandbox.

**UpdateManager_proofs.** `TypeCorrect` carries with it that the package between
validation and copy is the release that was validated (`PackageInv`): nobody
delivers another while a command runs. `SignedImports` adds that a signed import
past its verification has a good signature (`SignedInv`). Both hold for any number
of concurrent processes. `BackupsAreKept` and `RefusalsChangeNothing` do not:
two imports at once can back up each other's half-written files, since nothing
in `update.rs` locks them. They are proved under `OneAtATime`, from the invariant
that an import that has not yet truncated the registry finds it as it was when
it started (`UntouchedInv`) and has it in the backup from then on (`KeptInv`).

`CopiesAreCompleted` follows from an invariant that says who is copying while a
file is torn (`TornInv`). `LogIsTrue` carries a matching of the log's entries with
the commands that succeeded (`LogInv`): a command that has yet to write its entry
is the last of them and unmatched, so that the entry it appends extends the
matching. It also needs `OneAtATime`: of two commands that end together either may
write first, and read a version the other installed. `UpdatesImplementStore` maps each step
to a step of `RegistryStore` or a stutter, from `UntouchedInv`, `KeptInv` and an
invariant on the copies under way (`CopyInv`), again under `OneAtATime`.

**NarrativeCache_proofs.** `LruInv` is the conjunction of the types, of what
entries and calls hold, of the order of the access times, of the capacity and of
the LRU property. The order is what the induction is about: an entry that was used
no later than another is behind it, so that the oldest entry has every other one
before it (`OldestExists`, `TouchOrders`), and their number is the capacity less
one when an eviction happens.

**RecursiveAnalyzer_proofs.** `ChainInv` says that the layers are a chain, that the
loop stands at the innermost data until it returns, that every layer it went on
from was unwrapped within both limits, and what each return means.
`BombsAreNeverReported` follows from the two limits alone: what the decompressor
lets pass expands no more than the analyzer allows.

**Detection_proofs.** `DetInv` says of which model and which overrides a result is
built (`Provenance`), both members of the histories of what was in force; lemmas
say which fields the overlay touches, and when. The heuristic confidence is a sum
over the character classes of an input, a fold: a section on sums over finite sets
expands it to its recursive function and shows by induction on the cardinality
that a part of the characters is never more than all of them. From this
`HeuristicsFit` bounds the confidence by 0.965 for every input, and with it
`DetectionsAreKept`, `RisksAreExplained` and `ResultsAreTyped` need no hypothesis.
`BareHashesConflict` and `SharedSignalsAreNotCapped` are about hashes in
hexadecimal, which the hexadecimal detector accepts as well (`BareIsHex`).
`NarrowestFirst` is about the order of the
detectors and leaves open which strings they accept.

**SharedFiles_proofs.** `ControlOK` ties the point of a process to its program and
`CommandOK` what an analysis keeps to its point; `Split` says that a step is one of
one process that leaves the others' points and programs alone. On these rest:
`PrintedIsLogged` (`LoggedInv`: how many pieces are written at each point, in order
and never overwritten, and that result and entry agree until the narrative comes),
`ModelsAreSaved` (`ModelInv`: a model in the file or in a process was saved, or is
the mixture that a training which was cut short left of two; as long as no two
trainings meet, the file is empty whenever one writes it),
`KeysGoToTheirServices` (`KeyInv`, under `KeysAreOwn`, the assumption on settings
named above), `LoadsAreWhole` (`CacheInv`: undisturbed, the file is absent, whole,
or being written by exactly one load), `LoneScans` (`ScanInv`: the scan file of a
scan that met no other is the one it has open, empty before its write and with its
own bytes after it, whatever was left before), and `ExportsAreReadBack` (`ExportInv`:
what a connection and the datagrams of an export hold at each point, to which
`MessagesReadBack` is applied where the CVE ids are plain). `LogOnlyGrows` is the action property, by cases.
`ProcessesRunOut` is for `CommandsEnd` what `CallsRunOut` is for `AnalysisAnswers`:
every step, a fault, a kill or an answer included, brings one process closer to its
end (`StepsLeft`, in which an entry that is being written counts its pieces) and no
other further from it.

**SyslogExport_proofs.** `ExtensionsReadBack` and `MessagesReadBack` say of every
result whose CVE ids are plain (`PlainIds`), with all other texts of any length and
any symbols, that a receiver reads back what `format_cef` or `format_leef` wrote, and
that no newline is inside the line. `NewlinesSplitEvents` says why the ids must be:
what stands between two newlines has none (`LinesHaveNone`), so no message that has
one inside ever arrives as a line.
Escaping, writing the fields and reading are folds over sequences. Each is
expanded to the recursive function it stands for, and that function is shown to
exist (`FoldExists`), so that its values follow one after the other (`EscapedRun`,
`ExtensionRun`). Induction is by the least counterexample (`Induction`). The
argument is on `Reads(x, a, b)`: reading `x` takes a receiver from state `a` to
state `b`. It is a function of `x` and `a` (`ReadsSame`) and goes
along concatenations (`ReadsConcat`), so that what each symbol, field and header
does to a receiver adds up to the line.

Only model-checked:

- liveness (`AnalysisAnswers`, `CommandsEnd`), which TLAPS does not reach; their
  safety halves are `CallsRunOut` and `ProcessesRunOut`;
- the five violations, which are about single behaviours.

## 5. Not modelled

- Resource limits, the macOS profile (whose effect is up to the system;
  `SpawnFails` stands for it) and the limits of the job object.
- Cryptography, decompression, entropy, regression and the synthetic training data:
  numeric functions of the bytes, present through their results. So are the windows
  of `sliding_entropy.rs`, whose variance is one input of a calibrated prediction.
- Prompts, the texts of threat labels, the reports (HTML, JSON, terminal), the table of
  file formats and argument parsing: input and output, or formatting of a finished
  result.
- The subcommands `version`, `config show`, `cache status` and `cache clear`,
  `calibrate status` and `generate`: they print, or write one new file. (`cache`
  acts on the cache of a process that has just started, which is empty, and `config
  show` prints the defaults.)
- The queries of the registry of community providers (`get`, by category): look-ups.

## 6. Plan

What is left, in this order:

1. More of the formats proved: which strings each detector of `TextFormats` accepts,
   so that `NarrowestFirst` says which of them a text can be taken for.
2. What two update commands at once can do to registry, backup and log, as theorems
   on the interleavings that `OneAtATime` leaves out.
3. `format/mod.rs` and `sliding_entropy.rs` as operators against reference definitions.
