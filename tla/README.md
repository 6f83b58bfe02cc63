# A verification project for TruffleHog

TLA+ models of TruffleHog's scanning core, the TLC runs that check them on
small instances, and theorems about them proved with TLAPS. Every definition is
translated from the Go source under `src/`; `PROJECT.json` maps each one to the
lines it stands for, lists the hazards the properties are aimed at, and records
the disagreements between code and comments the runs exhibit.

1. [Inventory](#inventory): the system's parts
2. [Modules](#modules): what models what
3. [Runs](#runs): what is checked, with which bounds
4. [Fairness and deadlock](#fairness-and-deadlock)
5. [Proofs](#proofs)
6. [Findings](#findings)
7. [Not modelled](#not-modelled)
8. [Plan](#plan)

To check a run: `tlc -config EnginePromise.cfg MCEngine`; to check a proof:
`tlapm EngineProofs.tla`.

## Inventory

TruffleHog reads sources (git, S3, file systems, chat systems, ...) as chunks of
bytes, decodes them, looks for credentials with about nine hundred detectors,
verifies what it finds with the service concerned, and prints it.

    sources ──chunks──> source manager ──chunks──> engine ──results──> dispatcher
       │                     │  │                   │ scanner, overlap,
       │ resume info         │  └── hooks ──> unit  │ detector, notifier
       └──> Progress ──> host│              hook    │ workers
                             └── job progress       └── verification cache

**Engine pipeline** (`pkg/engine/engine.go`). Four stages of goroutines joined
by bounded channels. *Scanner workers* take chunks, decode them
(`iterativeDecode`), match keywords and send each decoded piece to the detector
workers or, when several detectors match it, to the *verification overlap
workers*; those run the detectors without verification and pass what is left to
the detector workers. *Detector workers* send results; *notifier workers*
filter, deduplicate (a shared LRU cache) and dispatch them. `Finish` waits for a
stage and closes the next channel, four times.
State: the channels, a WaitGroup per stage and two per producing worker (released
by the consumers: the messages carry `wgDoneFn`), the cache, the counters.
Hard: shutdown order, WaitGroups released by other goroutines, panics (every
worker defers `common.Recover`), back-pressure.
Correct when: no send on a closed channel, nothing left behind, every secret owed
for an accepted chunk reaches the dispatcher before `Finish` returns, none is
dispatched twice, and `Finish` returns.

**Verification overlap** (same file, `verificationOverlapWorker`). A loop over
detectors, matches and results that keeps two maps and decides what is reported
as an overlap and what is detected again with verification.
Hard: the detectors come in the order of a Go map; keys are added and removed as
the loop goes.
Correct when: a secret detectors of two types share is reported as an overlap and not
verified, and a detector that shares none is run again with verification. (That
it is not verified does not hold: see *Overlap* under [Findings](#findings).)

**Source manager** (`pkg/sources/source_manager.go`). `EnumerateAndScan` runs
jobs under a semaphore. A job with units has an enumerating goroutine, a pool of
goroutines that chunk units, and one consumer per unit that forwards chunks to
the output channel; `Wait` waits for the jobs, closes the channel and then the
hooks.
State: the semaphore, the WaitGroup, `firstErr`, the channels of units and
chunks, the cancel functions.
Hard: failures and cancellation with goroutines in flight, the order of the
deferred calls.
Correct when: no chunk a source handed over is lost or sent after the close,
whatever fails or is cancelled; a unit that fails costs no other unit its chunks;
capacity is conserved, an error is returned exactly when a source failed, hooks are
bracketed.

**Unit hook** (`pkg/sources/job_progress_hook.go`). Counts chunks per unit in a
map and sends finished records on a bounded channel; `Close` may race with
senders. Correct when: the channel is closed once and never written to after,
counts are exact, and nobody blocks for ever.

**Job progress** (`pkg/sources/job_progress.go`). Metrics under a lock, the list
of hooks, the cancellation cause, `Done` and `Err`. Correct when: the metrics
agree with the events, and an error that ended the job is visible in the report.

**S3 scan and checkpointer** (`pkg/sources/s3`). `scanBuckets` visits every
bucket once per role, a page of objects at a time; a bounded pool of jobs
downloads and scans the objects of a page in any order; the `Checkpointer` keeps
a low-water mark over the page and writes it as resume information into
`Progress`; the host saves that and hands it to a later scan.
State: the loop (role, bucket, page, object), the jobs, `completedObjects`,
`lowestIncompleteIdx`, `EncodedResumeInfo`.
Hard: jobs that finish out of order or never, a crash or a cancellation anywhere,
a checkpoint that outlives the role, page or bucket list it was written for, and
one that is read without its lock and written back at every bucket.
Correct when: a scan resumed from any checkpoint misses nothing, and the
checkpoint of a scan that nobody cancels advances.

**Resume information of the repository sources** (`pkg/sources/resume.go`, the
workers of `pkg/sources/github`; GitLab and Hugging Face use the same code). A
set of repository names in progress, encoded as one string; the workers of a pool
add and remove names; `FilterReposToResume` selects from the list of repositories
those recorded and all that follow the last of them. Hard: workers record in any
order, a finished repository keeps its place until another starts, repositories
disappear between scans. Correct when: a resumed scan leaves out no repository
but those a worker was about to start.

**Filesystem source** (`pkg/sources/filesystem`). `scanDir`, `scanSymlink` and
`scanFile` walk a tree; each directory has a pool of workers that scan its files
while the walk goes on below it; the last file whose scan returned is the resume
point of the root (`SetEncodedResumeInfoFor`), which a later scan reads in every
directory it enters. Hard: workers record in any order, links lead upwards or out
of the tree, the resume point may be gone, and the walk reads the resume
information of the scan in progress. Correct when: the walk ends, and a resumed
scan tries every file that no worker had been given.

**File handlers** (`pkg/handlers`) and **chunk reader**
(`pkg/sources/chunker.go`). `HandleFile` detects the type of a file and runs one
of five handlers (default, archive, ar, rpm, apk), each a goroutine that walks the
entries and forwards the chunks a chunk reader, another goroutine, makes of each.
Two bounded channels and one context with a timeout join them. Hard: errors that
cost an entry, the rest of the file or nothing, recovered panics, a timeout with
all three at work, a buffer that goes back to a pool. Correct when: what is reported
of a file is in order and without a gap; of one that is not interrupted it is all but
what a failure of an entry or of the container costs, and the result is an error
exactly for the failures the handler calls fatal; `HandleFile` always returns.

**Verification cache** (`pkg/verificationcache`). Looks every result of a chunk
up by a hash of credential and detector, runs the detector with verification only
when one is missing, and stores what it learns. Shared by the detector workers.
Correct when: a cached answer is one the detector gave, errors are not cached as
answers, and turning the cache on does not change what is reported.

**Git parser and git source** (`pkg/gitparse`, `pkg/sources/git`). `ScanCommits`
reads diffs from a channel and reports them as chunks until there are no more, the
maximum depth is reached, or something fails; its deferred `cancel` is all that
tells the other side to stop. `FromReader` makes the diffs from the lines of
`git log`: what a line is depends on the line before it. To use less memory the
commits are named by `git rev-list`, grouped, logged a group at a time and joined
again: four goroutines in a chain and two kinds of git process. State: the latest
line's state, the commit and the diff in progress; the channels, the group, the
context. Hard: diffs that are given to the wrong commit, a group that is lost, too
many processes at once, leaving in the middle. Correct when: the diffs reported are
those of the history, in order, whichever way the log is read, and all ends with
the scan.

**Buffered read seeker** (`pkg/iobuf`). A seekable view of a stream: what was read
is kept in a buffer and, from a threshold on, in a temporary file. State: index,
buffer, file, bytes read, total size. Hard: every order of reads, seeks and
size queries; a read across the buffer and the file. Correct when: it reads what a
seekable file would. It does for callers that measure before they go back over what is
in the file, and not for others.

**Content writers** (`pkg/writers`): a buffer that spills to a file over a
threshold, and becomes read-only. **Decoders**, **keyword matching** (Aho-Corasick, spans),
**detectors**: pure functions, and HTTP. The other **sources**, **output**,
**analyzers**, **configuration**, **terminal interface**, **updater**, generated
protobuf code.

## Modules

    ScanPromise  <──implements── Engine ── EngineProofs
                                   ↑ outcomes of the overlap pass
    OverlapDecision ── VerificationOverlap ── VerificationOverlapProofs
    ChunkStream  <──implements── SourceManager ── SourceManagerProofs
    UnitHook ── UnitHookProofs            S3Checkpoint ── S3CheckpointProofs
    BufferedReadSeeker ── FileHandler ── FileHandlerProofs
    RepoResume ── RepoResumeProofs        FilesystemScan
    GitParse ── GitLog ── GitLogProofs

An `MC` module gives the constants of the component of the same name values small
enough for TLC. In every module a definition named in a comment as a "Mutant"
stands before the definition it is a faulty variant of; it is used by no
specification and shows that a property can fail.

**Engine** models the pipeline. A goroutine is a process with a program counter;
a channel is a bounded sequence in the module's variables; a step is one channel
operation, one WaitGroup operation or one call on shared state.

| code | model |
|---|---|
| `Sources.Chunks()`, `verificationOverlapChunksChan`, `detectableChunksChan`, `results` | `chunksChan`, `overlapChan`, `detectChan`, `resultsChan`, and `closed` |
| `scannerWorker` | `ScannerRecv`, `ScannerSendOverlap`, `ScannerSendDetect`, `ScannerNext`, `ScannerDrained` (the range loop ends), `ScannerExit` (both Waits) |
| `verificationOverlapWorker` | `OverlapRecv` (the decision), `OverlapSendResult`, `OverlapDecided`, `OverlapSendDetect`, `OverlapChunkDone` (`chunk.verificationOverlapWgDoneFn`), `OverlapDrained`, `OverlapExit` |
| `detectorWorker`, `detectChunk` | `DetectRecv`, `DetectSendResult`, `DetectDone` (`data.wgDoneFn`, the last statement), `DetectDrained` |
| `notifierWorker` | `NotifyRecv`, `NotifyFilter`, `NotifyDrop`, `NotifyKeep`, `NotifyDispatch`, `NotifyDrained` |
| `common.Recover` | `ScannerPanic`, `OverlapPanic`, `DetectPanic`, `NotifyPanic`: what the deferred calls do |
| `Finish` | `FinishSources`, `FinishScanners`, `FinishOverlap`, `FinishDetect`, `FinishNotify` |

What decoders, the matcher and detectors compute is data (`PiecesOf`, `Matching`,
`Detected`), and so are the places where they panic.

**ScanPromise** is what a scan promises with no workers and no channels: chunks are
accepted, keys of secrets are reported, and the scan returns when every key it
owes has been handled. `Engine!Promise` maps a pipeline state to it: accepted is
what the sources have sent, reported is what the dispatcher was given.

**OverlapDecision** holds the decision of `verificationOverlapWorker` as operators
(`BeginMatch`, `TakeResult` and what folds them: `TakeDetector` takes one detector's
matches into the worker's two maps). **VerificationOverlap** is the worker's three
loops, a detector (`Detect`), a match (`Match`), a result (`Result`) at a time with the
detectors in any order, and then `Queue`; MCEngine takes the outcomes for its pieces
from the operators. String similarity (`likelyDuplicate`) is a relation.

**SourceManager** models `EnumerateAndScan` and `Wait`: a thread that submits the
jobs (`Submit`, `Acquire`, `WaitClose`, `WaitHooks`), job goroutines
(`JobStart` ... `JobEnd`, then the deferred calls `JobRelease`, `JobFinish`,
`JobDone` in their order), enumerating goroutines (`Enum...`), producers
(`Unit...`) and consumers (`Consumer...`). A job without units appears with a
single unit that stands for `Source.Chunks`. `CancelParent` and `CancelRun` may
strike at any time; a source whose context is done may then fail, or return nil with
units or chunks left, as `filesystem.go:118-120` and S3's `Chunks` do (`EnumReturn`,
`UnitReturn`). `NoChunkLost` tells what a source kept back from what it handed over:
the latter is always on the output channel when `Wait` closes it. **ChunkStream** is the contract with the engine: its two
actions are the engine's `SourceSend` and `FinishSources`, so that SourceManager
implements the environment Engine assumes.

**UnitHook** models the hook's map, its channel, `inflight`, `closed`, and `Close`;
a caller is one unit, or one job without units, with its goroutine.

**S3Checkpoint** models the legacy (not unit) scan: the loop over roles, buckets and
pages (`BeginRole` ... `EndRole`), the submission of objects (`SubmitSkipped`,
`SubmitJob`, `EndPage`), the jobs (`JobScans`, `JobFails`), and the host
(`Cancel`, `Save`, `Restart`). At every bucket `scanBuckets` passes the resume
information it reads without the lock to `SetProgressComplete`, which writes it back
(`s3.go:407-412`): `ReadResumeInfo` keeps the copy in `held`, and `BeginBucket` or
`SkipBucket` writes it, with the jobs a cancelled page left running free to write in
between; a read in the middle of such a write (`Readable`) may be a string that does
not decode, which every use takes for no checkpoint. (The host's copy,
`job_progress.go:336-343`, is taken under the lock.) `Mark` is `UpdateObjectCompletion`. Objects are
numbered in key order; a checkpoint is a role, a bucket and the last key passed.

**FileHandler** models `HandleFile` with the goroutines it starts. The caller is
`Begin`, `Receive`, `GiveUp` (the two cases of the select in
`handleChunksWithError`), `ReportChunk`, `ReportFails` and `Return` (the deferred
`cancel` and `Close`); the handler is `NextEntry`, `TakeChunk`, `ContentDone`,
`Write`, `PlainSend`, `Measure`, `CloseData`; a chunk reader is `ReadNext` and
`SendChunk`. The five handlers are one machine: they differ in what an entry's
failure costs, which the tables `Ignored`, `Warned`, `Abandoned` and `Ruined`
give (nothing, a warning, the rest of the file without a word, the file with an error;
a warning and the rest of the file where no table speaks). ar and rpm load the file
before they look at the context, and send the error of it themselves (`LoadFails`).
A send outside of a select is a program counter of its own, "plain", since
the context does not end it. The property's `Passes` and `Failed` say what a failure
costs in its own terms, by what broke (the container, the loading, one entry) and not
by how the handler leaves it. They say what the code does, not what its comments do:
a file of an archive or rpm that cannot be opened costs those behind it, and a panic in
an apk brings no error (both under [Findings](#findings)). What a chunk reader reads is
computed through **BufferedReadSeeker**, operators from state to state, one per method:
the header is read and the reader put back as `newFileReader` does (`Sniff`, `Search`)
before `Rest` gives the content, so that a unit lost or repeated by the buffer would
show up as a wrong report. `Read` looks in the buffer (`FromBuffer`), the file
(`FromFile`) and the reader below (`FromReader`); a read across buffer and file
(`Spans`) cuts the caller's slice twice and is `Torn`, or `Panics`.
MCFileHandler evaluates what other callers make of the reader, with
any sequence of calls within the stream (`AfterCalls`). Those that measure go back, and
read at an offset, only while all that was read is in one place (`InOnePlace`): so does
`newFileReader`, which goes back over a header below the threshold, and so do the readers
of zip and 7z files, which ask for the size first.

**RepoResume** models `scan` of the GitHub source: the loop that fills the pool
(`Launch`), a worker (`Start`, `Scan`, `RemoveFromInfo`), the end (`Complete`),
and what the host does (`Cancel`, `Save`, `Crash`, `Restart`). A repository is its
place in the order of names, which is all `FilterReposToResume` looks at; `Filter`
is that function: its loop walks the sorted repositories with the recorded names in
hand, and `NamesLeft` is what is left of them before each (`MoveOn`, one turn).

**FilesystemScan** models the scan of one root. A path is the sequence of its
components, a component a number, so that `Before` is `comparePathsForResume`. The
recursion is a stack of calls: `Enter` is the beginning of `scanDir`; `PassEntry`,
`WalkLink`, `WalkDir`, `WalkFile`, `WalkOther` are the cases of its loop, and
`LeaveDir` waits for its pool; `FollowLink` is `scanSymlink`, `FileEnds` and
`LinkedFileEnds` the return of `scanFile` with what it records. `Stop`, `Begin` and
`Delete` interrupt the scan, resume it and change the tree in between. The history
variables say what the properties need: files ever given to a worker, files tried,
what follows a deleted resume point, and whether a link to a directory or to a
link was followed.

**GitParse** has the parser as operators. `Recognised` is the relation of the
`is...Line` functions, latest state, form of the line and new state; `NewCommit`,
`NewFile`, `NewHunk` and `Effect` are the cases of the loop of `FromReader`, and
`Parse` folds them over a log. `GitLog` is the grammar of what git prints of a
history (external, as far as the parser tells lines apart), and `Expected` what the
history says, read without a parser.
**GitLog** runs them: `RevListWrites`, `RevListEnds`, `RevListDies` are the process;
`ReadHash`, `SendGroup`, `HashesEnd` the goroutine that groups the commits;
`StartLog`, `SendLog` the one that starts a log for each group; `ParserSends`,
`LogIsCut`, `ParserEnds` the goroutine of each `FromReader`, whose log may be cut after
any line when git dies or the context ends; `TakeDiff`, `LogDrained` the goroutine that
joins them; `ScanJoined`, `ScanParsed`, `Return` the loop of `ScanCommits`. With
`groupSize` 0 there is one log and `ScanCommits` reads its parser. A rendezvous on an
unbuffered channel is one step of both sides.

## Runs

| run | instance | shows |
|---|---|---|
| `engine_promise` | 1 scanner, 1 overlap, 2 detector workers, 1 notifier, no panics | the pipeline implements ScanPromise, liveness included; each WaitGroup counts exactly the messages in flight; nothing is left behind; a run that found something reported something |
| `engine_panics` | 2 scanners, 1 overlap, 1 detector worker, 2 notifiers; a panic in each stage, failing dispatches, filtered results | no send on a closed channel; no Wait returns while a message is out; one dispatch per key |
| `engine_finish_returns` | a detector that panics | *violation*: `Finish` does not return |
| `overlap` | 3 detectors, two of them custom detectors of one type | every order of the detectors: an overlap is genuine, a shared secret is reported as one, a detector that shares none is run again |
| `source_manager` | 2 jobs, failures, cancellation | SourceManager implements ChunkStream; slots, chunks and errors are conserved; hooks are bracketed |
| `unit_hook` | 2 units, a job without units, 2 calls of Close | Close and senders never meet on a closed channel; metrics exact; nobody blocks for ever |
| `s3_checkpoint` | 2 roles, 2 buckets, 2 restarts, every failure | no checkpoint makes a later scan pass over an object that was never tried |
| `s3_failed_object` | no restart | *violation*: the checkpoint passes a failed object |
| `file_handler` | 30 files of every handler, entries that fail in every way | the report is a prefix of the content, all of it when nothing interrupts; readers are joined; `HandleFile` returns |
| `repo_resume` | 4 repositories, 1 to 3 workers, 2 restarts, a deletion | a crash forgets only what a worker was about to start; over a history at most one fewer than workers per restart |
| `filesystem_scan` | 5 trees with every kind of link, 2 workers per directory, 2 stops, a deletion | only files given to a worker, or behind a deleted resume point, are missed; the walk ends |
| `git_log` | 3 histories of up to 3 commits, one log or groups of 1 or 2, depths 0 to 2, a failing git, a cancellation at any time | what is reported is what the history says, in order; at most two logs unfinished; everything ends |

**Bounds.** *Engine*: chunk c1 decodes into p1, matched by detector A, and p2,
matched by A and B, which therefore goes through the overlap workers; c2 decodes
into p3, matched by B. A's secret of p1 appears again in p2. That is the least
with two chunks in flight, both routes, an overlap and a repeated key. Every
channel has capacity 1, so that every producer blocks; one more slot only delays
it. `DedupeSize` is 1 in `engine_promise`, so that the cache evicts, and 4 in
`engine_panics`: "one dispatch per key" holds only while the cache evicts
nothing, which is all the code offers. Where one stage has two workers the others have
one, and the two runs choose differently. The workers of a stage are
interchangeable; symmetry is used in `engine_panics` alone, which checks no
liveness.
*Overlap*: two detectors can share a secret and a third can share it with either
or be a custom detector of the same type; secrets s1 and s2 are similar, t
resembles s1 only when it comes after it, since the lengths `likelyDuplicate` lets
through (`engine.go:1045`) depend on the order; at most two matches of at most two results for one of the custom detectors,
at most one match for the others, which is where keys are added and removed again;
a fourth secret u is one that `filterResults` removes. The assumptions
`SharedSecretCostsTheOthers`, `FirstFinderVerifies` and `OverlapIsRedetected` of
MCVerificationOverlap are the cases listed under [Findings](#findings).
*Source manager*: job j1 has a unit with a chunk and an empty one, j2 runs without
units and has one chunk; both jobs may hold a slot (`Limit` 2), one unit is
chunked at a time (`ConcurrentUnits` 1, so that the pool blocks the loop that
drains the unit channel), channels hold one item.
*Unit hook*: one slot and three callers, so that two can be blocked at once;
`MaxChunks` 2 bounds the chunks of a caller.
*S3*: pages of two objects, a bucket of two pages whose second page has a skipped
object, a bucket of one page, a pool of two; `MaxRestarts` 2: a resumed scan may
itself be interrupted and resumed. Buckets may vanish at a restart; new ones do
not appear, since a resumed scan that starts behind a new bucket is expected to
leave it out.
*File handler*: an entry of five chunks crosses the threshold of two units twice,
so that the content is partly in the file and partly in the buffer; otherwise an
entry has at most two chunks and a bad entry stands between two good ones, before
and after which a failure can be noticed; a file that cannot be loaded has no good one.
Both channels hold one item. The assumption `MeasuredReadsAreExact` of MCFileHandler
takes every reader that any calls of a careful caller lead to, over streams of up to six
units, and compares every read of up to four with the stream: six units are three
thresholds, and a read of four takes from the buffer and the stream.
`UnmeasuredReadsAreNot` are the reads of a careless one that go wrong.
*Repositories*: with four names and three workers, two names can be recorded
behind one that is not; each of two restarts may find one repository gone. The
assumptions `FilterIsExact` and `DeletedNameHidesAnother` compare the filter with
its comment for every list and every resume information over six names.
*Filesystem*: a plain tree with three levels, so that a resume point lies below
entries that are skipped and entries that are not; a tree whose links lead to a
file, a link, the directory above, a directory outside, and nowhere
(`MaxSymlinkDepth` 2 admits a link to a link and no more); a root that is a file or
a link. Two workers can be overtaken by each other, and four files in a row fill
the pool.

*Git*: three commits make groups of 1 + 1 + 1 and 2 + 1, the last not full; one of
them is left out by `--diff-filter`, so that a group may have no diff; the first has
more diffs than a parser's channel holds (`DiffCap` 1), so that parsers block.
`PipeCap` 1 lets rev-list block; `MaxTroubles` 1 is one git process that fails, at any
line. `PiecesAreRead` of MCGitLog evaluates, for every stretch of these histories and
every line its log may be cut at, what the theorems assume of the parser.
`ParserReadsTheLog` compares the parser with the history over two commits of every form
(merge, message, notes; added, modified, deleted, binary, empty and mode-only files) and
a third; `NotesHideTheNextCommit` and `LargeDiffEndsTheLog` are its two exceptions.
`MaxDiffSize` is three lines.

## Fairness and deadlock

Engine and SourceManager assume weak fairness of each goroutine: Go's scheduler
runs a goroutine that can run, and a channel or a WaitGroup wakes its waiters.
Sources produce their chunks (or stop early, where the run allows it). A panic,
a failure, a cancellation and a call of `Close` are never fair: nothing has to
fail and nobody has to call. In UnitHook a caller ends its unit, the reader reads
unless it has stopped, and a `Close` in progress goes on. In FileHandler
the goroutines go on, a read returns, and the timer of `maxTimeout` always ends
the context (`WF_vars(Interrupt)`); `ChunkOk` may wait for a reader that never
comes, but not past the end of the context, which it selects on. In
FilesystemScan the walk and the workers go on (`WF_vars(Walk)`,
`WF_vars(SomeFileEnds)`: a pool's worker is a goroutine, and `scanFile` returns by
the timeout of `HandleFile`); a stopped scan need not be started again, and
neither stops nor cancellations are fair. In GitLog every goroutine and every git
process goes on (`WF_vars` of each), neither failures of git nor cancellations are
fair. S3Checkpoint, RepoResume
and VerificationOverlap state no fairness and are checked for safety only.

`CHECK_DEADLOCK FALSE` stands in the runs whose system may stop: Engine when a
panic has left a WaitGroup up (the two runs with panics), VerificationOverlap when
the chunk is done, UnitHook when every caller has ended, FileHandler when the file
has been handled (or a goroutine stays at a plain send), RepoResume when the scan
is complete, FilesystemScan when it has ended or is not started again, GitLog when the scan has
returned. `engine_promise`,
SourceManager and S3Checkpoint are checked for deadlock; the state in which
`Finish` has returned, `Wait` has returned or the scan has ended stutters
(`Returned`, `Finished`), so that any other standstill is an error.

## Proofs

The theorems hold for every value of the constants that satisfies the modules'
named assumptions, which TLC evaluates on every run: disjoint non-empty sets of
workers, functions with the right domains, capacities in `Nat`, `None` outside the
other sets (a message is never `None`, `NoMessageAssumption` of Engine), a finite set
of callers for UnitHook, jobs with units among the jobs, a resemblance in which a
secret resembles itself, a header of FileHandler that is not empty and below the
threshold, histories of no more than `MaxCommits` commits. A theorem that needs more says so in an `ASSUME` of its own,
listed below with the reason. The recipe is the same throughout: an inductive
invariant, one step per action, one part of it at a time, and PTL at the end.

**EngineProofs.**

| theorem | property | under |
|---|---|---|
| `TypeCorrect` | `TypeOK` | |
| `ClosedChannelsAreQuiet` | `NoSendOnClosed` | |
| `WaitsAreLongEnough` | `WaitGroupsCover` | |
| `WaitsAreShortEnough` | `WaitGroupsExact` | `NoDetectorPanics` |
| `FinishLeavesNothing` | `NothingLeftBehind` | `NoWorkerDies` |
| `ExitCodeIsRight` | `FoundMeansReported` | `DispatchPanics = {}` |
| `FindingsAreDispatchedOnce` | `DispatchedOncePerKey` | `CacheHoldsAll` |
| `PromiseIsKept` | the safety part of `ImplementsPromise` | `NoPanics` |

The conditions are about the constants and are those the code needs: a detector that
panics leaves its WaitGroup up (finding 1) and loses its results; a dispatch that
panics takes a counted result with it; an LRU cache that is full forgets a key, and a
forgotten key is dispatched again. `engine_promise` is an instance of all of them but
`CacheHoldsAll`, `engine_panics` of that one.

- *Quiet channels.* `NoSendOnClosed` alone is not inductive: that the overlap channel
  is quiet when `Finish` has closed it follows from the scanners being done, which
  follows from where `Finish` stands. `Hands` says what a worker holds at each
  program counter, `Stages` that a channel is closed only when `Finish` is past it
  and that the workers of the stages it has waited for are done. `Drained` adds that a
  closed channel whose readers are all done is empty: a reader leaves its loop only on
  a closed, empty channel, and nobody sends after the close.
- *WaitGroups.* What a counter shows beyond the messages it stands for is its slack
  (`OverlapSlack`, `DetectSlack`): the counter minus the cardinality of the positions
  of the owner's messages in the channel (`Queued`) and of the workers that hold one
  (`Holding`). No step lowers the slack, since every `Add` comes with its message and
  every `Done` follows one out; without panics no step raises it. `FreeHands` says that
  a worker between messages holds none.
- *One dispatch per key.* `OneWayThrough`: a key that was dispatched or is about to be
  is in the cache, and was let through for one result by one notifier. That the cache
  never evicts is a statement about its size (a sequence of distinct keys that lacks one
  is shorter than the number of keys).
- *The exit code.* `CountedIsKept`: what was counted was dispatched or a notifier has it.
- *The promise.* Two inclusions. Nothing but owed keys is reported: `OnlyPossible`
  follows a possible result through all eight places. Everything owed is reported when
  `Finish` returns: `Owing` says that each key owed is handled or on its way in one of
  the eight places, and `CacheIsBacked` that the notifier that drops a result because of
  the cache drops a copy. With `FinishLeavesNothing` no place is left when `Finish` has
  returned. The theorem states `Promise`'s next-state relation for every step; the
  fairness of ScanPromise is left to TLC.

**VerificationOverlapProofs.** `OverlapsAreGenuine` (`OverlapIsGenuine`),
`SharedAreReported` (`SharedIsReported`), `UnrivalledAreVerified`
(`UnrivalledIsVerified`), for any detectors, types, findings, resemblance and order.
`Met`: the secrets met are found ones, of the detectors that had their turn, and all
that those found; `Noticed`: of two that resemble each other, of different types, one is
an overlap, the later of them, since a secret is compared with all met before;
`UnrivalledStays`: nothing removes a detector without a rival from the keys. The proof
goes through the loops a result at a time. That a shared secret is not verified, and
that an overlap blocks the second pass, are false: `FirstFinderVerifies` and
`OverlapIsRedetected`.

**SourceManagerProofs.** `TypeCorrect`, `OutputIsQuiet`, `SemaphoreIsExact`,
`WaitErrorIsExact`, `NothingIsLost` (`NoChunkLost`), `HooksAreInOrder`
(`HooksAreBracketed`), and `StreamIsKept`, the safety part of `ImplementsStream`.
`Slots`: the semaphore is the cardinality of the jobs between
Acquire and Release, a finite set. `Submission`: a job is new until it has been
submitted, and once `Wait` has closed the output none runs. `OwnUnits`: what travels
through a job's unit channel are its own units. `Inside`: a producer runs beside its
consumer, a consumer and an enumeration run inside a job that is still in its loop or
waits for its consumers; this is where the `wg.Wait` of `runWithUnits` matters, and
what makes the closed channel quiet. `Errors`: the error of a failed job is with the
job or in `firstErr`, so that none is lost between the failure and `Wait`. `Places`
and `ChunkPlaces` follow units and chunks, whatever fails or is cancelled: a unit is
still to be enumerated, in the channel, in the job's hands or with its producer, and a
chunk is in exactly one place from the producer's list to the output. A unit is left
with the enumeration only if that failed or was cancelled (`Unasked`), chunks are left
with a producer only if it failed or was cancelled, and none is left in between when
`Wait` closes the output; none is sent twice, which is what ChunkStream asks. `HookPlaces` ties the hooks fired to the program counters.

**UnitHookProofs.** `CloseIsCoordinated`: `Spec => []CloseInv`. The invariant is
inductive as it stands: `inflight` is the cardinality of the set of callers
between `Register` and `Leave`, the channel is closed only with `closed` set and
`inflight` 0, and at most one `Close` waits. `MetricsChannelIsQuiet` follows: with
`inflight` 0 no caller is about to send. `MetricsArriveExact` (`MetricsAreExact`) and
`OpenHookDropsNothing` (`NothingDroppedBeforeClose`) rest on `Books`: what the map says
of a caller (`Account`), what its record on the channel or with the reader says
(`Record`), and that no two records are of one caller (`Distinct`).

**S3CheckpointProofs.** `TypeCorrect`; `MarkIsSafe` (`MarkStaysBelowPending`): whatever
fails, is cancelled or crashes, the mark of the current page passes only objects that
were scanned or need no scan; `CheckpointsAreSafe` (`CheckpointCoversDone`);
`NothingIsMissed` (`CompleteScanMissesNothing`), over any number of interrupted and
resumed scans; `CheckpointsAdvance` (the action property `CheckpointAdvances`: a
checkpoint falls back in its bucket only where `SkipBucket` writes back an older copy).
`PageInv`: every object of the page already submitted is running, completed or given
up, the completed ones were scanned or are skippable, and every key below the mark is
completed; `LoopInv` relates the page to the loop, which is what the reset of the
checkpointer between pages needs. `Written` says of every checkpoint at hand,
saved, in the progress or in the copy `scanBuckets` holds, that all before its place is done, in the order of roles,
buckets and keys; `PassInv` says the same of the loop's own place while the scan is not
cancelled. "Done" includes an object whose job failed: that the next page's checkpoint
passes it is the finding `FailedIsNotPassed`, and no theorem says otherwise. `Lead`: the
checkpoint is behind the mark of its page and behind the loop, so is the copy while
late jobs run, and without a cancellation the copy is the checkpoint. `Mark` chooses the new mark with `CHOOSE`;
the lemma `LeastElement` shows the choice exists.

**RepoResumeProofs.** `TypeCorrect`, `CrashForgetsFew` (`ForgottenAreUnstarted`),
`RestartsCostFew` (`FewAreForgotten`), for any number of repositories, workers and
restarts. The loop launches in order, so that what it has not reached follows every
name recorded (`InOrder`); a worker that writes names all that is being scanned and is
itself in the pool (`Held`, `PoolFits`), which leaves one fewer than the pool's limit
to forget (`Backs`, of the progress and of what the host saved); `History` adds the
restarts up, and is stated as the property is: while nothing is deleted, or with one
worker. `Filter` is recursive over the sorted repositories: the lemmas
`NamesLeftDef` to `FilterKeeps` unfold the recursive function (its existence is proved
from the order of the numbers, not by the library's induction) and show what the
theorems need: the filter keeps each name that exists and all after the last.

**FileHandlerProofs.** `NoReaderIsLeft` (`ReadersAreJoined`), for any file, entries and
capacities: `OneReader` says that a reader stands only for the entry the handler is at
while the context stands; `WhyDone` and `NilIsLast` that before `HandleFile` has its
result only an interruption ends the context, and that nil comes when the handler is
done and no reader is at work.
`ReadsWhole`: however the type of an entry of any length is detected, a chunk reader
then reads the entry whole. Its invariant is `Base`: what was read of the stream is in
the file up to `disk` and behind that in the buffer, which is below the threshold; or
`OnDisk`, all of it is in the file. `Base` holds of a reader whose index is where its
reading stands, or that was put back with no file behind it (`Held`). The loops of
BufferedReadSeeker are recursive functions, unfolded by `RestLoop`, `FullLoop`,
`UntilLoop` and `ToEndLoop`; that such functions exist is proved from the order of the
numbers. `TypeCorrect` (`TypeOK`) follows: an entry is read as positions of its content.
`AllIsReported` (`ContentIsReported`): what is reported is a prefix of the content and,
undisturbed, all of it, with an error exactly when the file `Failed`: a panic that ended
it, except in apk, or an ar or rpm that could not be loaded. `PassesIs` and `FailsIs`
show that the handlers' tables are what the property says. The inductive
invariant is `Settled`. `Queued`: the messages between handler and caller take what was
reported from one length of the content to another, each chunk being the next; `Going`:
that other length is where the handler stands, given its entry and how many of the
entry's chunks it took; `Running`: what a chunk reader has sent, holds and has to read
is the rest of its entry; `Order` and `Final` are about the caller. The lemmas on
`Joins` unfold `FlattenSeq` of the community modules, and `ContentIs` with them
`Content`, so that an entry ends where the next begins. While the context is done only
`Queued` is kept, which is why an interrupted report is a prefix and no more is claimed.

**GitLogProofs.** `TypeCorrect` (`TypeOK`) and `DiffsAreJoined` (`DiffsAreTheLog`), for
every set of histories, group size, depth and capacity, and any number of failures up to
the bound. Both are under `ParserIsRight`, a promise about constants: of a piece of a
history, whole, the parser gives what the history says of it, of a log that is cut the
start, the last diff perhaps in part, and each diff is of a commit of the piece; and the
commits of a history have hashes of their own, their files paths. What the recursion of
`Parse` computes is out of the prover's reach, so TLC evaluates the promise: it is the
assumption `PiecesAreRead` of MCGitLog. It is true of what the code reads well, and false
of a commit with notes and no diff before another commit, and of a diff over
`maxDiffSize` with something behind it, the exceptions MCGitLog states. So the theorem
says that the goroutines lose, repeat and swap nothing that the parsers give them.
The inductive invariant `Inv` has three parts. `Shape`: types, channel bounds and which
states of the goroutines exclude one another. `Flow`, while no context is done: the
commits are in line. `a`, `b` and `c` cut the history: everything up to `a` was reported;
of the log of commits `a + 1` to `b`, which is the one being read, `t` diffs were
(`Staged`, `BeingRead`), one more may be with the joiner (`Joining`); commits `b + 1` to
`c` are the starter's group, or the log it has not handed over (`Handed`); what follows
is the reader's group (`Gathered`, which also says that without a failure nobody stops
before the last commit). A log gives its diffs in order (`Carries`: sent, in the channel
and to come are one sequence), and what was reported is what `ReportTo` makes of
them, since the first diff of a log is never of the commit ScanCommits saw last (`IsLast`).
`Result`, whatever ends the scan: what was reported has places in the log in its
order (`FitsTo`), without a failure is the start of it, and `scan.depth` counts the commits
begun. `Flow` is needed for `Result` only while a diff is reported, and no diff is once the
context is done; there the invariant keeps what was reached. The lemmas on `Joins` unfold
`FlattenSeq`, those on `Told`, `Begun` and `Report` show how these grow with one commit,
one entry and one diff.
`FewGits` (`FewGitsAtOnce`), for every history, group size and capacity and without a
promise of the parser: the unbuffered channel of logs keeps the goroutine that starts
them at most one ahead of the one that reads them. The invariant is `Shapes /\
OpenLogsAreHeld`: a log that is not finished is the joiner's, or the last one started
while the starter still holds it, waiting to hand it over; `PairIsSmall` turns that into
the bound. That the joiner leaves a log only when its channel is closed is where the
order of the steps matters.

**Model-checked only.**
*Liveness* (`FinishReturns`, `CloseReturns`, `CallersGoOn`, `ReturnsAndCleansUp`,
`ScanEnds`, `EndsAndCleansUp`, and the fairness in `ImplementsPromise` and
`ImplementsStream`): ENABLED and fairness are out of the prover's reach.
*What recursion over data computes*: the promise of the git parser, `ParserIsRight`, which
folds over a log that is itself computed from the history, is checked for bounded inputs
(`PiecesAreRead`, `ParserReadsTheLog`); so is the comparison of `Filter` with its comment,
`FilterIsExact`, and of the reads of BufferedReadSeeker that `ReadsWhole` says nothing of
with the stream, `MeasuredReadsAreExact`. *FilesystemScan*'s `TypeOK` and
`OnlyLaunchedAreLost`: paths are sequences of any length, compared recursively, and the
argument is an induction on the depth of the tree.
Six listed theorems state what no run checks: `CloseInv`, from which
`MetricsChannelIsQuiet` follows, the type invariants of EngineProofs and
S3CheckpointProofs, `ReadsWhole`, `PromiseIsKept` and `StreamIsKept`. The last two are
the safety part of refinements that runs check whole, with their fairness.

## Findings

Each is exhibited by a run that expects a violation.

1. *A detector panic keeps `Finish` from returning* (`FinishReturns`).
   `detectChunk` calls `data.wgDoneFn()` as its last statement
   (`engine.go:1296`) while `common.Recover` is deferred: the panic is swallowed,
   the producer's WaitGroup stays up, `wgDetect.Wait()` never returns.
2. *A failed S3 object is passed by the next page's checkpoint*
   (`FailedIsNotPassed`). The comment on `UpdateObjectCompletion` says a failed
   object holds the checkpoint back; `pageChunker` resets the checkpointer for
   every page (`s3.go:621`).

Seen while modelling, not stated by a run of its own:

- *Overlap*: a secret that several detectors found is verified by the one that had its
  turn first, against the comment on `startWorkers` (`engine.go:748`, "verification is
  disabled for any secrets that have been detected by multiple detectors"): only the
  later finder is removed from the keys to run again (1138, 1157). The assumption
  `FirstFinderVerifies` is an instance; `SharedIsReported` claims the report and nothing
  about verification.
  A detector with an overlap is run again all the same when a later match of it finds
  anything, which puts its key back (1107, against the comment at 1154):
  `OverlapIsRedetected`.
  And a detector that shares one secret may lose its others: it is removed whole from the
  keys to run again (1157), so that secrets only it found in the chunk were seen without
  verification, were not sent, and are not looked for again, though the comment on
  `verificationOverlapChunk` has the chunk "reprocessed with verification enabled":
  `SharedSecretCostsTheOthers`. No property says such a secret is reported.
- *Source manager*: `EndEnumerating` may fire after the hooks were closed: the
  deferred calls of the enumerating goroutine close `unitCh` before it
  (`source_manager.go:549-550`) and nothing waits for that goroutine;
  `HooksAreBracketed` says it is the only hook that can. A job cancelled by
  `CancelRun` records a fatal error in its report while `run` returns nil (356-360
  against 349-351). A source that returns nil from a done context with chunks left
  (`filesystem.go:118-120`) leaves `Wait` without an error: the error tells failed
  sources from others, not whole scans from cut ones.
- *S3*: when the scan is cancelled `pageChunker` returns without waiting for its pool
  (`s3.go:626`), so a job may outlive the channel it sends chunks to; and what
  `scanBuckets` read before such a job's write may be written back over it
  (`s3.go:411`), so that the checkpoint falls back: objects are scanned twice then,
  none is missed (`CheckpointAdvances` names the step, `CheckpointCoversDone` holds).
- *Repositories*: a recorded repository that was deleted can hide one recorded after
  it from `FilterReposToResume` (`resume.go:48` against the comment above it), which
  is the assumption `DeletedNameHidesAnother`.
- *Filesystem*: `scanDir` reads the resume information of the scan in progress
  (`filesystem.go:283`), so that in a scan nobody interrupted, once a link to a
  directory outside the root was followed, directories that sort before the recorded
  file are taken for scanned; `OnlyLaunchedAreLost` fails without its condition on
  `strayed`. A file is recorded also when its scan failed or was given up (comment at
  268), and a deleted resume point lets the rest of its directory be skipped. The
  limit on concurrency is one per directory.
- *File handlers*: one bad file costs an archive the files behind it. `archive.go:59-63`
  says that after an error opening one file processing continues; `extractorHandler`
  returns the error (212), which ends the extraction, and since it is no
  `ErrProcessingFatal` the result is nil. rpm is the same (`rpm.go:32-33` against 115).
  A panic in an apk is not returned, though `apk.go:148` says so: the deferred function
  only logs it (171). `Deserted` and `Fails`, from which `ContentIsReported` takes the
  content and the error it expects, name both.
  The comments list further errors as fatal that are not wrapped in
  `ErrProcessingFatal` and hence end in a warning and nil: an archive of unknown format,
  with too many levels or whose extraction fails (`archive.go:53-57`), an apk whose zip
  or resources cannot be read (`apk.go:146-147`), and an ar or rpm whose next entry
  cannot. `ContentIsReported` takes all of these for the end of the content and no
  error. After a timeout `HandleFile` may return nil with content missing,
  when the channel was closed and the context done at once (`handlers.go:412` on);
  sends outside of a select (`archive.go:86`, `chunker.go:170`) leave a goroutine
  behind when nobody receives; after an early return a chunk reader may read through
  a buffer that is back in the pool. `ContentIsReported`, `ReturnsAndCleansUp` and
  `ReadersAreJoined` are stated so as to say exactly that much.
- *Git*: a maximum depth of N reports only the first diff of the Nth commit, since the
  depth is compared before the commit's hash is (`git.go:896` before 906; the flag says
  "Maximum depth of commits to scan."). No line is taken for a commit after notes, so
  the diffs of the commit that follows one with notes and no diff are given to that one
  (`gitparse.go:889`). A diff over `maxDiffSize` ends the parsing of the whole log
  (866-871), where `WithMaxDiffSize` says it is truncated. A parser whose channel is full
  stays at its send (671) after `ScanCommits` has returned, against the comment above
  `defer cancel()`: git is killed but the goroutine never waits for it;
  `EndsAndCleansUp` says that nothing else is left. A git process that fails midway, or
  that cannot be started for a later group, is only logged: `ScanCommits` returns nil.
- *Buffered read seeker*: a seek back, once there is a file and before the size is known,
  lets `Read` take later data from the buffer (`bufferedreaderseeker.go:145`), look for
  the rest at the wrong offset of the file (156), and cut the caller's slice twice (151,
  168): a wrong read, a short one or a panic. `processDexFile` hands a reader that was
  never measured to a library that reads at offsets (`apk.go:396`), and can meet it above
  the threshold of 16 MB. `Read` sets `sizeKnown` at `io.EOF` (187) without flushing the
  buffer, and then reads from the file alone (123), so that the end of what was read to
  the end is not there the second time; no caller was found that does this above the
  threshold. `UnmeasuredReadsAreNot` is one case of each. A seek or a `ReadAt` past the
  end of a stream still in memory makes the total size too large.

## Not modelled

- Decoders, keyword matching, detectors, analyzers: pure functions of bytes, or
  calls to vendors; nothing a state machine would add. What they return is data.
- Formatting, logging, metrics and configuration of every component.
- In the engine: `NewEngine`, target matching, line numbers, `detectorAvgTime`.
- In the source manager: `Enumerate` and `Scan`, the single-step entry points.
- In the unit hook: `ReportError` and `InProgressSnapshot`, which change no count.
- In the S3 source: unit scans, the count pass, credentials.
- In the file handlers: archives within archives with the limits on depth and size
  (an archive's entries are leaves here), the parsing of formats.
- In the buffered read seeker: readers that can seek, for which it only delegates,
  and `Close`, which appears as FileHandler's `closed`.
- In the filesystem source: the path filter, and `Enumerate`, which lists the
  configured paths; several roots are scanned one after the other with resume
  information of their own.
- In the GitHub source: how repositories are listed and cloned, and comments and
  gists; only what is shared through `resume.go` is modelled.
- In the git parser: the staged changes (the same machine without commits), line
  numbers, quoted paths and dates that cannot be read, which are `ParseFailure` like any
  unknown line. In the git source: cloning and preparing, the path filter, the
  cutting of a diff into chunks, the reading of binaries, and unit scans.
- The components the plan names, until they are written; the remaining sources,
  output, analyzers, configuration, terminal interface, updater and generated code
  are input/output or tables.

## Plan

Done: ScanPromise, Engine, OverlapDecision, VerificationOverlap, ChunkStream,
SourceManager, UnitHook, S3Checkpoint, with the theorems above; then
BufferedReadSeeker, FileHandler, RepoResume, FilesystemScan, GitParse,
GitLog. The
pipeline and its
environment came first, then what survives a crash, then what is inside a source.

To be proved next: FilesystemScan's `TypeOK` and the half of `OnlyLaunchedAreLost` about
scans that follow no link.

To be modelled after that: **VerificationCache** (lookups and stores by several
detector workers, verification errors, eviction, against the detector without a
cache); **JobProgress** (metrics, `Done`, `Err`, cancellation causes, composed with
SourceManager); S3 unit scans; nested archives and their limits; operator modules for
`iterativeDecode` and the buffered file writer.
