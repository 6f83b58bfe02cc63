------------------------------- MODULE GitLog -------------------------------
(***************************************************************************)
(* How the git source scans the history of a repository: ScanCommits reads *)
(* a channel of diffs that RepoPath fills, either from one `git log`, or,  *)
(* to use less memory, from one `git log` for each group of the commits    *)
(* that a `git rev-list` names.  The low-memory form is a chain of         *)
(* goroutines: one reads the commits and groups them, one starts a log for *)
(* each group, one parses each log, one joins their diffs.  All channels   *)
(* are unbuffered, but those of the parsers.                               *)
(*                                                                         *)
(* A write that looks at the context first and then waits for its reader   *)
(* or the context (CancellableWrite) takes that look in the step before.   *)
(***************************************************************************)
EXTENDS GitParse, FiniteSets

CONSTANTS
    Histories,   \* the histories a behaviour may scan
    GroupSizes,  \* commits to a log in the low-memory form, 0 for one log
    Depths,      \* maxDepth, 0 for none
    DiffCap,     \* capacity of a parser's channel
    PipeCap,     \* hashes the pipe from rev-list holds
    MaxTroubles, \* bound on the git processes that fail
    MaxCommits   \* bound on the commits of a history

ASSUME GroupSizeAssumption == GroupSizes \subseteq Nat
ASSUME DepthAssumption == Depths \subseteq Nat
ASSUME LogCapAssumption == {DiffCap, PipeCap} \subseteq Nat \ {0} /\ MaxTroubles \in Nat
ASSUME HistoryAssumption ==
    /\ MaxCommits \in Nat \ {0}
    /\ \A h \in Histories : h \in Seq({h[i] : i \in DOMAIN h}) /\ Len(h) <= MaxCommits

VARIABLES
    history, groupSize, maxDepth,
    cancelled,  \* the caller of ScanCommits has cancelled
    ctxDone,    \* repoCtx is done
    troubles,   \* git processes that failed
    revList,    \* rev-list, and how many hashes it has written
    reader,     \* the goroutine of enumerateCommits: where, hashes read, commitGroup
    starter,    \* the goroutine that starts the logs, and the group it took
    logs,       \* the logs started, with the goroutine that parses each
    joiner,     \* the goroutine that joins the diffs, its log and diff
    scan,       \* ScanCommits: where, depth, lastCommitHash, its result
    scanned     \* what it gave to the reporter

params == <<history, groupSize, maxDepth>>
vars == <<params, cancelled, ctxDone, troubles, revList, reader, starter, logs,
          joiner, scan, scanned>>

LowMemory == groupSize > 0
NoDiff == NoDiffs(NoCommit)

-----------------------------------------------------------------------------
(* What the parser of a log sends for each piece of a history, whole or    *)
(* cut after any of its lines, as its context may do, or git's death.      *)
PiecesOf(h) == {SubSeq(h, i, j) : i, j \in DOMAIN h}
Pieces == (UNION {PiecesOf(h) : h \in Histories}) \cup {<<>>}

Outputs ==
    {[commits |-> g,
      whole |-> Parse(GitLog(g)),
      cuts |-> {Parse(SubSeq(GitLog(g), 1, i)) : i \in 0..Len(GitLog(g))}] : g \in Pieces}

OutputOf(g) == CHOOSE out \in Outputs : out.commits = g

Log(g) ==
    [at |-> "parsing", commits |-> g, sent |-> 0, rest |-> OutputOf(g).whole, chan |-> <<>>]

Init ==
    /\ history \in Histories /\ groupSize \in GroupSizes /\ maxDepth \in Depths
    /\ cancelled = FALSE /\ ctxDone = FALSE /\ troubles = 0
    /\ revList = [at |-> IF LowMemory THEN "running" ELSE "exited", written |-> 0]
    /\ reader = [at |-> IF LowMemory THEN "new" ELSE "done", read |-> 0, group |-> <<>>]
    /\ starter = [at |-> IF LowMemory THEN "range" ELSE "done", group |-> <<>>]
    /\ logs = <<>>
    /\ joiner = [at |-> IF LowMemory THEN "range" ELSE "done", log |-> 1, diff |-> NoDiff]
    /\ scan = [at |-> "open", depth |-> 0,
               last |-> NoCommit, result |-> "none"]
    /\ scanned = <<>>

-----------------------------------------------------------------------------
(* git rev-list.  Its context kills it.                                    *)
RevListWrites ==
    /\ revList.at = "running"
    /\ revList.written < Len(history)
    /\ revList.written - reader.read < PipeCap
    /\ revList' = [revList EXCEPT !.written = @ + 1]
    /\ UNCHANGED <<params, cancelled, ctxDone, troubles, reader, starter, logs, joiner, scan, scanned>>

RevListEnds ==
    /\ revList.at = "running" /\ revList.written = Len(history)
    /\ revList' = [revList EXCEPT !.at = "exited"]
    /\ UNCHANGED <<params, cancelled, ctxDone, troubles, reader, starter, logs, joiner, scan, scanned>>

RevListDies ==
    /\ revList.at = "running"
    /\ \/ ctxDone /\ UNCHANGED troubles
       \/ troubles < MaxTroubles /\ troubles' = troubles + 1
    /\ revList' = [revList EXCEPT !.at = "failed"]
    /\ UNCHANGED <<params, cancelled, ctxDone, reader, starter, logs, joiner, scan, scanned>>

(* ScanCommits returns, and the deferred cancel ends its context.          *)
(* Mutant: it does not.                                                    *)
ReturnOnly(result) == scan' = [scan EXCEPT !.at = "returned", !.result = result] /\ UNCHANGED ctxDone

Return(result) ==
    scan' = [scan EXCEPT !.at = "returned", !.result = result] /\ ctxDone' = TRUE

(* enumerateCommits waits for the first byte.  A rev-list that fails first *)
(* is an error, and no goroutine is started; one that prints nothing       *)
(* leaves closed channels.                                                 *)
PeekFindsCommits ==
    /\ scan.at = "open" /\ LowMemory /\ revList.written > 0
    /\ scan' = [scan EXCEPT !.at = "read"] /\ reader' = [reader EXCEPT !.at = "scan"]
    /\ UNCHANGED <<params, cancelled, ctxDone, troubles, revList, starter, logs, joiner, scanned>>

PeekFindsNothing ==
    /\ scan.at = "open" /\ LowMemory /\ revList.written = 0 /\ revList.at = "exited"
    /\ scan' = [scan EXCEPT !.at = "read"] /\ reader' = [reader EXCEPT !.at = "done"]
    /\ UNCHANGED <<params, cancelled, ctxDone, troubles, revList, starter, logs, joiner, scanned>>

PeekFails ==
    /\ scan.at = "open" /\ LowMemory /\ revList.written = 0 /\ revList.at = "failed"
    /\ Return("error")
    /\ reader' = [reader EXCEPT !.at = "done"] /\ starter' = [starter EXCEPT !.at = "done"]
    /\ joiner' = [joiner EXCEPT !.at = "done"]
    /\ UNCHANGED <<params, cancelled, troubles, revList, logs, scanned>>

(* The form with one log: there is nothing to wait for.                    *)
OpenLog ==
    /\ scan.at = "open" /\ ~LowMemory /\ ~ctxDone
    /\ logs' = <<Log(history)>>
    /\ scan' = [scan EXCEPT !.at = "read"]
    /\ UNCHANGED <<params, cancelled, ctxDone, troubles, revList, reader, starter, joiner, scanned>>

OpenFails ==
    /\ scan.at = "open" /\ ~LowMemory
    /\ \/ ctxDone /\ UNCHANGED troubles
       \/ troubles < MaxTroubles /\ troubles' = troubles + 1
    /\ Return("error")
    /\ UNCHANGED <<params, cancelled, revList, reader, starter, logs, joiner, scanned>>

-----------------------------------------------------------------------------
(* The goroutine of enumerateCommits.                                      *)
ReadHash ==
    /\ reader.at = "scan" /\ reader.read < revList.written /\ ~ctxDone
    /\ LET group == Append(reader.group, history[reader.read + 1])
       IN reader' = [at |-> IF Len(group) = groupSize THEN "send" ELSE "scan",
                     read |-> reader.read + 1, group |-> group]
    /\ UNCHANGED <<params, cancelled, ctxDone, troubles, revList, starter, logs, joiner, scan, scanned>>

(* The last group is sent, unless the context is done.                     *)
(* Mutant: it is forgotten.                                                *)
LastGroupForgotten ==
    /\ reader.at = "scan"
    /\ \/ reader.read = revList.written /\ revList.at # "running"
       \/ reader.read < revList.written /\ ctxDone
    /\ reader' = [reader EXCEPT !.at = "wait"]
    /\ UNCHANGED <<params, cancelled, ctxDone, troubles, revList, starter, logs, joiner, scan, scanned>>

HashesEnd ==
    /\ reader.at = "scan"
    /\ \/ reader.read = revList.written /\ revList.at # "running"
       \/ reader.read < revList.written /\ ctxDone
    /\ reader' = [reader EXCEPT !.at = IF reader.group # <<>> /\ ~ctxDone THEN "send last" ELSE "wait"]
    /\ UNCHANGED <<params, cancelled, ctxDone, troubles, revList, starter, logs, joiner, scan, scanned>>

SendGroup ==
    /\ reader.at \in {"send", "send last"} /\ starter.at = "range"
    /\ starter' = [at |-> "start", group |-> reader.group]
    /\ reader' = [reader EXCEPT !.at = IF @ = "send" THEN "scan" ELSE "wait", !.group = <<>>]
    /\ UNCHANGED <<params, cancelled, ctxDone, troubles, revList, logs, joiner, scan, scanned>>

GiveUpGroup ==
    /\ reader.at \in {"send", "send last"} /\ ctxDone
    /\ reader' = [reader EXCEPT !.at = "wait"]
    /\ UNCHANGED <<params, cancelled, ctxDone, troubles, revList, starter, logs, joiner, scan, scanned>>

(* cmd.Wait, then the deferred close.                                      *)
WaitForRevList ==
    /\ reader.at = "wait" /\ revList.at # "running"
    /\ reader' = [reader EXCEPT !.at = "done"]
    /\ UNCHANGED <<params, cancelled, ctxDone, troubles, revList, starter, logs, joiner, scan, scanned>>

-----------------------------------------------------------------------------
(* The goroutine of repoPathLowMemory that starts the logs.                *)
StartLog ==
    /\ starter.at = "start" /\ ~ctxDone
    /\ logs' = Append(logs, Log(starter.group))
    /\ starter' = [at |-> "send", group |-> <<>>]
    /\ UNCHANGED <<params, cancelled, ctxDone, troubles, revList, reader, joiner, scan, scanned>>

StartFails ==
    /\ starter.at = "start"
    /\ \/ ctxDone /\ UNCHANGED troubles
       \/ troubles < MaxTroubles /\ troubles' = troubles + 1
    /\ starter' = [at |-> "done", group |-> <<>>]
    /\ UNCHANGED <<params, cancelled, ctxDone, revList, reader, logs, joiner, scan, scanned>>

(* Mutant: the joiner is not waited for.                                   *)
StartAhead ==
    /\ starter.at = "send"
    /\ starter' = [starter EXCEPT !.at = "range"]
    /\ joiner' = IF joiner.at = "range" THEN [joiner EXCEPT !.at = "read", !.log = Len(logs)] ELSE joiner
    /\ UNCHANGED <<params, cancelled, ctxDone, troubles, revList, reader, logs, scan, scanned>>

SendLog ==
    /\ starter.at = "send" /\ joiner.at = "range"
    /\ starter' = [starter EXCEPT !.at = "range"]
    /\ joiner' = [joiner EXCEPT !.at = "read", !.log = Len(logs)]
    /\ UNCHANGED <<params, cancelled, ctxDone, troubles, revList, reader, logs, scan, scanned>>

GiveUpLog ==
    /\ starter.at = "send" /\ ctxDone
    /\ starter' = [starter EXCEPT !.at = "done"]
    /\ UNCHANGED <<params, cancelled, ctxDone, troubles, revList, reader, logs, joiner, scan, scanned>>

StarterEnds ==
    /\ starter.at = "range" /\ reader.at = "done"
    /\ starter' = [starter EXCEPT !.at = "done"]
    /\ UNCHANGED <<params, cancelled, ctxDone, troubles, revList, reader, logs, joiner, scan, scanned>>

-----------------------------------------------------------------------------
(* The parser of a log: a plain send, with no look at the context.         *)
(* Mutant: a channel without bound.                                        *)
ParserSendsFreely(i) ==
    /\ logs[i].rest # <<>>
    /\ logs' = [logs EXCEPT ![i].rest = Tail(@), ![i].sent = @ + 1,
                            ![i].chan = Append(@, Head(logs[i].rest))]
    /\ UNCHANGED <<params, cancelled, ctxDone, troubles, revList, reader, starter, joiner, scan, scanned>>

ParserSends(i) ==
    /\ logs[i].rest # <<>> /\ Len(logs[i].chan) < DiffCap
    /\ logs' = [logs EXCEPT ![i].rest = Tail(@), ![i].sent = @ + 1,
                            ![i].chan = Append(@, Head(logs[i].rest))]
    /\ UNCHANGED <<params, cancelled, ctxDone, troubles, revList, reader, starter, joiner, scan, scanned>>

(* The log ends after some line: the context is done, or git died.         *)
LogIsCut(i) ==
    /\ logs[i].at = "parsing"
    /\ \/ ctxDone /\ UNCHANGED troubles
       \/ troubles < MaxTroubles /\ troubles' = troubles + 1
    /\ LET out == OutputOf(logs[i].commits) IN
       \E cut \in out.cuts :
          /\ IsPrefix(SubSeq(out.whole, 1, logs[i].sent), cut)
          /\ logs' = [logs EXCEPT ![i].at = "cut",
                                  ![i].rest = SubSeq(cut, logs[i].sent + 1, Len(cut))]
    /\ UNCHANGED <<params, cancelled, ctxDone, revList, reader, starter, joiner, scan, scanned>>

ParserEnds(i) ==
    /\ logs[i].at # "closed" /\ logs[i].rest = <<>>
    /\ logs' = [logs EXCEPT ![i].at = "closed"]
    /\ UNCHANGED <<params, cancelled, ctxDone, troubles, revList, reader, starter, joiner, scan, scanned>>

-----------------------------------------------------------------------------
(* The goroutine of repoPathLowMemory that joins the diffs.                *)
TakeDiff ==
    /\ joiner.at = "read" /\ logs[joiner.log].chan # <<>>
    /\ joiner' = [joiner EXCEPT !.at = IF ctxDone THEN "done" ELSE "send",
                                !.diff = IF ctxDone THEN NoDiff ELSE Head(logs[joiner.log].chan)]
    /\ logs' = [logs EXCEPT ![joiner.log].chan = Tail(@)]
    /\ UNCHANGED <<params, cancelled, ctxDone, troubles, revList, reader, starter, scan, scanned>>

LogDrained ==
    /\ joiner.at = "read" /\ logs[joiner.log].chan = <<>> /\ logs[joiner.log].at = "closed"
    /\ joiner' = [joiner EXCEPT !.at = "range"]
    /\ UNCHANGED <<params, cancelled, ctxDone, troubles, revList, reader, starter, logs, scan, scanned>>

GiveUpDiff ==
    /\ joiner.at = "send" /\ ctxDone
    /\ joiner' = [joiner EXCEPT !.at = "done", !.diff = NoDiff]
    /\ UNCHANGED <<params, cancelled, ctxDone, troubles, revList, reader, starter, logs, scan, scanned>>

JoinerEnds ==
    /\ joiner.at = "range" /\ starter.at = "done"
    /\ joiner' = [joiner EXCEPT !.at = "done"]
    /\ UNCHANGED <<params, cancelled, ctxDone, troubles, revList, reader, starter, logs, scan, scanned>>

-----------------------------------------------------------------------------
(* ScanCommits takes a diff.  A commit is counted, and its message chunked,*)
(* when its hash is not that of the diff before; a diff with a path is     *)
(* chunked too.  What ChunkOk refuses, once the caller has cancelled, ends *)
(* the scan, but a binary's or a large diff's.                             *)
IsNewCommit(diff) == diff.commit # scan.last

ChunksOf(diff) ==
    (IF IsNewCommit(diff) THEN <<NoDiffs(diff.commit)>> ELSE <<>>)
        \o (IF diff.path # "" THEN <<diff>> ELSE <<>>)

TooDeep == maxDepth > 0 /\ scan.depth >= maxDepth

Scans(diff) ==
    /\ ~cancelled
    /\ scanned' = scanned \o ChunksOf(diff)
    /\ scan' = [scan EXCEPT !.depth = IF IsNewCommit(diff) THEN @ + 1 ELSE @,
                            !.last = diff.commit]
    /\ UNCHANGED ctxDone

Refuses(diff) ==
    /\ cancelled
    /\ UNCHANGED scanned
    /\ \/ (IsNewCommit(diff) \/ (diff.path # "" /\ ~diff.binary)) /\ Return("error")
       \/ ~IsNewCommit(diff) /\ UNCHANGED <<scan, ctxDone>>

Takes(diff) ==
    IF TooDeep THEN Return("nil") /\ UNCHANGED scanned
    ELSE Scans(diff) \/ Refuses(diff)

ScanJoined ==
    /\ scan.at = "read" /\ joiner.at = "send"
    /\ Takes(joiner.diff)
    /\ joiner' = [joiner EXCEPT !.at = "read", !.diff = NoDiff]
    /\ UNCHANGED <<params, cancelled, troubles, revList, reader, starter, logs>>

ScanParsed ==
    /\ scan.at = "read" /\ ~LowMemory /\ logs[1].chan # <<>>
    /\ Takes(Head(logs[1].chan))
    /\ logs' = [logs EXCEPT ![1].chan = Tail(@)]
    /\ UNCHANGED <<params, cancelled, troubles, revList, reader, starter, joiner>>

DiffsEnd ==
    IF LowMemory THEN joiner.at = "done" ELSE logs[1].at = "closed" /\ logs[1].chan = <<>>

ScanEnds ==
    /\ scan.at = "read" /\ DiffsEnd
    /\ Return("nil")
    /\ UNCHANGED <<params, cancelled, troubles, revList, reader, starter, logs, joiner, scanned>>

(* The caller's context, the parent of repoCtx.                            *)
Cancel ==
    /\ ~cancelled /\ scan.at # "returned"
    /\ cancelled' = TRUE /\ ctxDone' = TRUE
    /\ UNCHANGED <<params, troubles, revList, reader, starter, logs, joiner, scan, scanned>>

-----------------------------------------------------------------------------
RevListSteps == RevListWrites \/ RevListEnds \/ RevListDies
RepoPath == PeekFindsCommits \/ PeekFindsNothing \/ PeekFails \/ OpenLog \/ OpenFails
ReaderSteps == ReadHash \/ HashesEnd \/ SendGroup \/ GiveUpGroup \/ WaitForRevList
StarterSteps == StartLog \/ StartFails \/ SendLog \/ GiveUpLog \/ StarterEnds
Parser(i) == ParserSends(i) \/ LogIsCut(i) \/ ParserEnds(i)
JoinerSteps == TakeDiff \/ LogDrained \/ GiveUpDiff \/ JoinerEnds
ScanSteps == RepoPath \/ ScanJoined \/ ScanParsed \/ ScanEnds

Next ==
    \/ RevListSteps \/ ReaderSteps \/ StarterSteps \/ JoinerSteps \/ ScanSteps \/ Cancel
    \/ \E i \in DOMAIN logs : Parser(i)

(* Every goroutine, and every git process, goes on while it can.           *)
LogNumbers == 1..MaxCommits
Fairness ==
    /\ WF_vars(RevListSteps) /\ WF_vars(ReaderSteps) /\ WF_vars(StarterSteps)
    /\ WF_vars(JoinerSteps) /\ WF_vars(ScanSteps)
    /\ \A i \in LogNumbers : WF_vars(i \in DOMAIN logs /\ Parser(i))

Spec == Init /\ [][Next]_vars /\ Fairness

-----------------------------------------------------------------------------
(* The types of the variables, the bounds of the channels among them.      *)
TypeOK ==
    /\ history \in Histories /\ groupSize \in GroupSizes /\ maxDepth \in Depths
    /\ {cancelled, ctxDone} \subseteq BOOLEAN /\ troubles \in 0..MaxTroubles
    /\ revList \in [at : {"running", "exited", "failed"}, written : 0..MaxCommits]
    /\ reader.at \in {"new", "scan", "send", "send last", "wait", "done"}
    /\ reader.read \in 0..revList.written
    /\ starter.at \in {"range", "start", "send", "done"}
    /\ joiner.at \in {"range", "read", "send", "done"} /\ joiner.log \in LogNumbers
    /\ Len(logs) <= MaxCommits
    /\ \A i \in DOMAIN logs :
          logs[i].at \in {"parsing", "cut", "closed"} /\ Len(logs[i].chan) <= DiffCap
    /\ scan.at \in {"open", "read", "returned"} /\ scan.depth \in 0..MaxCommits
    /\ scan.result \in {"none", "nil", "error"}

(* What the history says, up to each of its commits, and how many of them  *)
(* are begun with the first n entries.                                     *)
Tellings ==
    {[history |-> h,
      told |-> [n \in 0..Len(h) |-> Expected(SubSeq(h, 1, n))]] : h \in Histories}

Told(h) == (CHOOSE t \in Tellings : t.history = h).told
All(h) == Told(h)[Len(h)]

Begun(h, n) == Cardinality({i \in DOMAIN h : h[i].shown /\ Len(Told(h)[i - 1]) < n})

PartOf(diff, told) ==
    /\ diff.commit = told.commit /\ diff.path = told.path /\ diff.binary = told.binary
    /\ IsPrefix(diff.text, told.text)

(* ScanCommits reports what the log says, and in its order, whichever form *)
(* the log is read in: without a failure of git, the start of it; with     *)
(* one, parts of it, each once; and if it returns without an error, has no *)
(* depth to keep to, and nobody cancelled, the whole.  With a depth of N   *)
(* it ends in the Nth commit.                                              *)
DiffsAreTheLog ==
    LET all == All(history)
        placeOf == [i \in DOMAIN scanned |-> {k \in DOMAIN all : PartOf(scanned[i], all[k])}]
    IN
    /\ \A i \in DOMAIN scanned : placeOf[i] # {}
    /\ \A i, j \in DOMAIN scanned : i < j => \E k \in placeOf[i], l \in placeOf[j] : k < l
    /\ troubles = 0 => IsPrefix(scanned, all)
    /\ scan.result = "nil" /\ troubles = 0 /\ ~cancelled =>
          IF maxDepth = 0 \/ maxDepth > Begun(history, Len(all)) THEN scanned = all
          ELSE Begun(history, Len(scanned)) = maxDepth

(* The promise of the parser, which the goroutines around it rely on: of a *)
(* piece of a history, whole, it sends what the history says of it, and of *)
(* a log that is cut the start, the last diff perhaps in part.  Report is  *)
(* what ScanCommits makes of diffs that no others come before.             *)
Paths == STRING \cup {""}   \* the provers do not know that "" is a string
DiffRecords == [commit : STRING, path : Paths, binary : BOOLEAN, text : Seq(STRING)]

Reported(diffs, i) ==
    (IF i = 1 \/ diffs[i].commit # diffs[i - 1].commit THEN <<NoDiffs(diffs[i].commit)>> ELSE <<>>)
        \o (IF diffs[i].path # "" THEN <<diffs[i]>> ELSE <<>>)

Report(diffs) == FlattenSeq([i \in DOMAIN diffs |-> Reported(diffs, i)])

Follows(report, all) ==
    Len(report) <= Len(all) /\ \A i \in DOMAIN report : PartOf(report[i], all[i])

ReadsRight(g) ==
    LET out == OutputOf(g) IN
    /\ \A diffs \in out.cuts \cup {out.whole} :
          /\ diffs \in Seq(DiffRecords) /\ Follows(Report(diffs), Expected(g))
          /\ \A i \in DOMAIN diffs : \E j \in DOMAIN g : diffs[i].commit = g[j].hash
    /\ Report(out.whole) = Expected(g)

(* A commit has a hash of its own, and each of its files a path.           *)
TellsRight(c) ==
    /\ Says(c) \in Seq(DiffRecords) /\ Says(c) # <<>>
    /\ \A k \in DOMAIN Says(c) : Says(c)[k].path = "" <=> k = 1

ParserIsRight ==
    /\ \A g \in Pieces : ReadsRight(g)
    /\ \A h \in Histories : \A i \in DOMAIN h :
          /\ TellsRight(h[i]) /\ h[i].hash # NoCommit
          /\ \A j \in DOMAIN h : i # j => h[i].hash # h[j].hash

(* repoPathLowMemory says of its unbuffered channel that it leaves at most *)
(* one git log running and one git log draining.                           *)
FewGitsAtOnce == Cardinality({i \in DOMAIN logs : logs[i].at # "closed"}) <= 2

(* A parser whose send nobody will receive.                                *)
Stuck(i) == logs[i].rest # <<>> /\ Len(logs[i].chan) = DiffCap

(* ScanCommits returns, and what it started ends with it: its deferred     *)
(* cancel ends what waits to write, and rev-list.  Only a parser may stay, *)
(* if the diffs were not all read and its channel is full.                 *)
EndsAndCleansUp ==
    <>[](/\ scan.at = "returned" /\ revList.at # "running"
         /\ reader.at = "done" /\ starter.at = "done" /\ joiner.at = "done"
         /\ \A i \in DOMAIN logs :
               \/ logs[i].at = "closed"
               \/ Stuck(i) /\ (cancelled \/ troubles > 0 \/ maxDepth > 0))
=============================================================================
