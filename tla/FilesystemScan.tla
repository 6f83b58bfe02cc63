---------------------------- MODULE FilesystemScan ----------------------------
(***************************************************************************)
(* The filesystem source's scan of one root path and its sub-unit resume   *)
(* information (pkg/sources/filesystem/filesystem.go).                     *)
(*                                                                         *)
(* A path is the sequence of its components and a component is a number,   *)
(* so os.ReadDir's order of names is the order of numbers.  The recursion  *)
(* of scanDir, scanSymlink and scanFile is a stack of calls; each scanDir  *)
(* has its own pool of workers, which scan files while the walk goes on    *)
(* into the directories that follow.  The filter is not configured, and    *)
(* what a file holds is left to FileHandler.                               *)
(*                                                                         *)
(* A scan may be cancelled, the process may stop at any step, files may be *)
(* deleted while it is stopped, and the next process starts from the       *)
(* resume information the last one recorded.                               *)
(***************************************************************************)
EXTENDS Integers, FiniteSets, SequencesExt

CONSTANTS
    Root,             \* the configured path, rootPath
    Trees,            \* the file systems considered: [kind, target]
    MaxSymlinkDepth,  \* maxSymlinkDepth, 0 when links are not followed
    Concurrency,      \* the limit of each directory's worker pool
    MaxStops,         \* bound on how often the process stops
    MaxDeletions      \* bound on the deletions between two scans

ASSUME ScanAssumption ==
    /\ Concurrency \in Nat \ {0}
    /\ {MaxSymlinkDepth, MaxStops, MaxDeletions} \subseteq Nat

VARIABLES
    tree,       \* the file system: the kind of each path, the target of each link
    info,       \* encodedResumeInfoByID[rootPath], NoPath when absent
    calls,      \* the calls in progress, the innermost last
    mode,       \* "stopped", "scanning" or "ended"
    cancelled,  \* the scan's context is done
    stops,      \* how often the process has stopped
    deletions,  \* how often something was deleted
    launched,   \* history: what was ever handed to scanFile
    tried,      \* history: what scanFile returned from with a live context
    behind,     \* history: what follows a resume point that was deleted
    strayed     \* history: the walk left the order of the root's tree

vars == <<tree, info, calls, mode, cancelled, stops, deletions, launched,
          tried, behind, strayed>>
history == <<behind, strayed>>
outside == <<tree, mode, cancelled, stops, deletions>>

NoPath == <<>>

\* comparePathsForResume(a, b) < 0: component by component, ancestors first.
Before(a, b) ==
    \/ IsStrictPrefix(a, b)
    \/ \E i \in 1..Len(a) :
           /\ i <= Len(b) /\ a[i] < b[i]
           /\ \A j \in 1..(i - 1) : a[j] = b[j]

Exists(p) == p \in DOMAIN tree.kind

\* os.ReadDir: the entries of directory d, sorted by name.
Entries(d) ==
    SetToSortSeq({p \in DOMAIN tree.kind : Len(p) = Len(d) + 1 /\ IsPrefix(d, p)},
                 Before)

DirCall(d, after, depth) ==
    [op |-> "dir", path |-> d, todo |-> Entries(d), after |-> after,
     depth |-> depth, pool |-> {}]
LinkCall(p, depth) == [op |-> "link", path |-> p, depth |-> depth]
FileCall(p) == [op |-> "file", path |-> p]

(***************************************************************************)
(* scanDir's beginning, as it is when the call is made: it reads the       *)
(* resume information of this moment.  A directory that sorts before the   *)
(* resume point and does not hold it is skipped.                           *)
(***************************************************************************)
Passed(d) == info # NoPath /\ ~IsPrefix(d, info) /\ Before(d, info)

Enter(stack, d, depth) ==
    IF Passed(d) THEN stack
    ELSE Append(stack, DirCall(d, IF IsPrefix(d, info) THEN info ELSE NoPath, depth))

Top == calls[Len(calls)]
InOp(op) == mode = "scanning" /\ calls # <<>> /\ Top.op = op
Entry == Head(Top.todo)

\* The calls once the directory being walked has left its next entry behind.
Advanced(after) ==
    [calls EXCEPT ![Len(calls)].todo = Tail(@), ![Len(calls)].after = after]

Init ==
    /\ tree \in Trees
    /\ info = NoPath
    /\ calls = <<>>
    /\ mode = "stopped"
    /\ cancelled = FALSE
    /\ stops = 0 /\ deletions = 0
    /\ launched = {} /\ tried = {} /\ behind = {}
    /\ strayed = FALSE

\* Chunks, or ChunkUnit, for the root path: the scan of a link, of a directory
\* or of a file.  A path that is gone, or not regular, is left alone.
Begin ==
    /\ mode = "stopped"
    /\ mode' = "scanning"
    /\ calls' = IF ~Exists(Root) THEN <<>>
                ELSE CASE tree.kind[Root] = "link" -> <<LinkCall(Root, 0)>>
                       [] tree.kind[Root] = "dir" -> Enter(<<>>, Root, 0)
                       [] tree.kind[Root] = "file" -> <<FileCall(Root)>>
                       [] OTHER -> <<>>
    /\ launched' = launched \cup
                   (IF Exists(Root) /\ tree.kind[Root] = "file" THEN {Root} ELSE {})
    /\ UNCHANGED <<tree, info, cancelled, stops, deletions, tried, history>>

(***************************************************************************)
(* scanDir's loop over the entries.                                        *)
(***************************************************************************)
WalkEntry(kind) ==
    /\ InOp("dir") /\ Top.todo # <<>> /\ Top.after = NoPath
    /\ tree.kind[Entry] = kind

\* A mutant: the directory that holds the resume point is entered, and the
\* loop still skips what follows it.
PassEntryKeepsSkipping ==
    /\ InOp("dir") /\ Top.todo # <<>> /\ Top.after # NoPath
    /\ calls' = IF tree.kind[Entry] = "dir" /\ IsStrictPrefix(Entry, Top.after)
                THEN Enter(Advanced(Top.after), Entry, Top.depth)
                ELSE Advanced(IF Entry = Top.after THEN NoPath ELSE Top.after)
    /\ UNCHANGED <<info, outside, launched, tried, history>>

\* Entries are skipped up to the resume point, or to the directory that holds
\* it, which is entered; from there on the loop skips no more.
PassEntry ==
    /\ InOp("dir") /\ Top.todo # <<>> /\ Top.after # NoPath
    /\ calls' = IF tree.kind[Entry] = "dir" /\ IsStrictPrefix(Entry, Top.after)
                THEN Enter(Advanced(NoPath), Entry, Top.depth)
                ELSE Advanced(IF Entry = Top.after THEN NoPath ELSE Top.after)
    /\ UNCHANGED <<info, outside, launched, tried, history>>

WalkLink ==
    /\ WalkEntry("link")
    /\ calls' = Append(Advanced(NoPath), LinkCall(Entry, Top.depth))
    /\ UNCHANGED <<info, outside, launched, tried, history>>

WalkDir ==
    /\ WalkEntry("dir")
    /\ calls' = Enter(Advanced(NoPath), Entry, Top.depth)
    /\ UNCHANGED <<info, outside, launched, tried, history>>

\* A mutant: the pool has no limit.
WalkFileAtOnce ==
    /\ WalkEntry("file")
    /\ calls' = [Advanced(NoPath) EXCEPT ![Len(calls)].pool = @ \cup {Entry}]
    /\ launched' = launched \cup {Entry}
    /\ UNCHANGED <<info, outside, tried, history>>

\* workerPool.Go: it waits for a free worker of this directory.
WalkFile ==
    /\ WalkEntry("file")
    /\ Cardinality(Top.pool) < Concurrency
    /\ calls' = [Advanced(NoPath) EXCEPT ![Len(calls)].pool = @ \cup {Entry}]
    /\ launched' = launched \cup {Entry}
    /\ UNCHANGED <<info, outside, tried, history>>

WalkOther ==
    /\ WalkEntry("other")
    /\ calls' = Advanced(NoPath)
    /\ UNCHANGED <<info, outside, launched, tried, history>>

\* workerPool.Wait and the return of scanDir.
LeaveDir ==
    /\ InOp("dir") /\ Top.todo = <<>> /\ Top.pool = {}
    /\ calls' = Front(calls)
    /\ UNCHANGED <<info, outside, launched, tried, history>>

(***************************************************************************)
(* scanFile's return in a worker.  The file is recorded as the resume      *)
(* point whether it was scanned, failed, or was given up because the       *)
(* context is done.                                                        *)
(***************************************************************************)
\* A mutant: a worker whose context is done keeps its place in the pool.
FileEndsKeepsPlace(i, f) ==
    /\ mode = "scanning"
    /\ ~cancelled
    /\ calls' = [calls EXCEPT ![i].pool = @ \ {f}]
    /\ info' = f
    /\ tried' = tried \cup {f}
    /\ UNCHANGED <<outside, launched, history>>

FileEnds(i, f) ==
    /\ mode = "scanning"
    /\ calls' = [calls EXCEPT ![i].pool = @ \ {f}]
    /\ info' = f
    /\ tried' = IF cancelled THEN tried ELSE tried \cup {f}
    /\ UNCHANGED <<outside, launched, history>>

(***************************************************************************)
(* scanSymlink: one link followed.  A link to a link is another call, a    *)
(* link to a directory is walked as any directory, a link to a file is     *)
(* scanned by the walk itself.  Links that are not followed, too many in a *)
(* row, or that lead nowhere, end the call.                                *)
(***************************************************************************)
FollowLink ==
    /\ InOp("link")
    /\ LET to    == tree.target[Top.path]
           depth == Top.depth + 1
           leads == depth <= MaxSymlinkDepth /\ Exists(to)
           is(k) == leads /\ tree.kind[to] = k
           rest  == Front(calls)
       IN  /\ calls' = IF is("link") THEN Append(rest, LinkCall(to, depth))
                       ELSE IF is("dir") THEN Enter(rest, to, depth)
                       ELSE IF is("file") THEN Append(rest, FileCall(Top.path))
                       ELSE rest
           /\ launched' = IF is("file") THEN launched \cup {Top.path} ELSE launched
           /\ strayed' = (strayed \/ is("link") \/ is("dir"))
    /\ UNCHANGED <<info, outside, tried, behind>>

\* scanFile's return in the walk: what was scanned through a link is recorded
\* under the link; a root that is a file records nothing.
LinkedFileEnds ==
    /\ InOp("file")
    /\ calls' = Front(calls)
    /\ info' = IF tree.kind[Top.path] = "link" THEN Top.path ELSE info
    /\ tried' = IF cancelled THEN tried ELSE tried \cup {Top.path}
    /\ UNCHANGED <<outside, launched, history>>

\* The root's scan has returned: ClearEncodedResumeInfoFor.
End ==
    /\ mode = "scanning" /\ calls = <<>>
    /\ mode' = "ended"
    /\ info' = IF Exists(Root) /\ tree.kind[Root] \in {"link", "dir"} THEN NoPath ELSE info
    /\ UNCHANGED <<tree, calls, cancelled, stops, deletions, launched, tried, history>>

(***************************************************************************)
(* What happens to a scan from outside.                                    *)
(***************************************************************************)
Cancel ==
    /\ mode = "scanning" /\ ~cancelled
    /\ cancelled' = TRUE
    /\ UNCHANGED <<tree, info, calls, mode, stops, deletions, launched, tried, history>>

\* The process stops; the host keeps the resume information it last had.
Stop ==
    /\ mode = "scanning" /\ stops < MaxStops
    /\ stops' = stops + 1
    /\ mode' = "stopped"
    /\ calls' = <<>>
    /\ cancelled' = FALSE
    /\ UNCHANGED <<tree, info, deletions, launched, tried, history>>

Below(d) == {p \in DOMAIN tree.kind : IsPrefix(d, p)}

\* Something is deleted between two scans, a directory with what it holds.
\* When the resume point goes, what follows it in the nearest directory left
\* above it is behind: no entry of that directory ends the skipping.
Delete(d) ==
    /\ mode = "stopped" /\ deletions < MaxDeletions
    /\ deletions' = deletions + 1
    /\ tree' = [tree EXCEPT !.kind = [p \in DOMAIN @ \ Below(d) |-> @[p]]]
    /\ behind' = IF IsPrefix(d, info)
                 THEN behind \cup {p \in Below(Front(d)) : Before(info, p)}
                 ELSE behind
    /\ UNCHANGED <<info, calls, mode, cancelled, stops, launched, tried, strayed>>

Walk == \/ PassEntry \/ WalkLink \/ WalkDir \/ WalkFile \/ WalkOther \/ LeaveDir
        \/ FollowLink \/ LinkedFileEnds \/ End

SomeFileEnds ==
    \E i \in DOMAIN calls :
        calls[i].op = "dir" /\ \E f \in calls[i].pool : FileEnds(i, f)

Next ==
    \/ Begin
    \/ Walk
    \/ SomeFileEnds
    \/ Cancel
    \/ Stop
    \/ \E d \in DOMAIN tree.kind : d # Root /\ Delete(d)

\* The walk goes on, and scanFile returns.  Nothing says that a stopped scan is
\* started again.
Spec == Init /\ [][Next]_vars /\ WF_vars(Walk) /\ WF_vars(SomeFileEnds)

-----------------------------------------------------------------------------
\* The type invariant.
TypeOK ==
    /\ tree.kind \in [DOMAIN tree.kind -> {"file", "dir", "link", "other"}]
    /\ mode \in {"stopped", "scanning", "ended"}
    /\ mode # "scanning" => calls = <<>>
    /\ {cancelled, strayed} \subseteq BOOLEAN
    /\ stops \in 0..MaxStops /\ deletions \in 0..MaxDeletions
    /\ \A i \in DOMAIN calls :
           calls[i].op = "dir" => /\ Cardinality(calls[i].pool) <= Concurrency
                                  /\ calls[i].depth <= MaxSymlinkDepth
    /\ tried \subseteq launched

\* What a scan of the root owes: the files of its tree, and its links to files.
Owed ==
    {p \in Below(Root) :
        \/ tree.kind[p] = "file"
        \/ /\ tree.kind[p] = "link" /\ MaxSymlinkDepth > 0
           /\ Exists(tree.target[p]) /\ tree.kind[tree.target[p]] = "file"}

\* A scan that ends has tried every file of the tree, over all the processes
\* that worked on it, except files that had been handed to a worker before a
\* stop or a cancellation, and those behind a deleted resume point; as long as
\* no link to a directory was followed.  In particular a scan that is left
\* alone misses nothing, and a stop loses no file that the walk had not reached.
OnlyLaunchedAreLost ==
    (mode = "ended" /\ ~strayed) => Owed \ tried \subseteq launched \cup behind

\* A scan ends unless the process stops: links that lead back to a directory
\* above are followed a bounded number of times, and a cancelled scan goes
\* through what is left of the tree.
ScanEnds == mode = "scanning" ~> mode # "scanning"
=============================================================================
