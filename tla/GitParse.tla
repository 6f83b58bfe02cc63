------------------------------ MODULE GitParse ------------------------------
(***************************************************************************)
(* pkg/gitparse: FromReader turns the lines of a `git log --patch` into    *)
(* diffs.  What a line is taken for depends on its own form and on what    *)
(* the line before it was.  A line is its form and the hash, path or text  *)
(* the parser takes from it.                                               *)
(*                                                                         *)
(* A commit's message, author and notes go out with its diffs, or alone,   *)
(* with a diff of no path, when it has none; the hash stands for them.     *)
(***************************************************************************)
EXTENDS Integers, Sequences, SequencesExt

CONSTANT MaxDiffSize   \* maxDiffSize, in lines

ASSUME SizeAssumption == MaxDiffSize \in Nat

NoCommit == "no commit"

-----------------------------------------------------------------------------
(* The is*Line functions, as <<latest state, form of the line, new state>>. *)
(* Inside a hunk the first character alone decides.                        *)
InHunk == {"HunkLineNumberLine", "HunkContentLine"}
FileHeader == {"ModeLine", "IndexLine", "BinaryFileLine", "ToFileLine"}

CommitLines ==
    {"Initial", "MessageStartLine", "MessageEndLine", "HunkContentLine", "ParseFailure"}
        \cup FileHeader

DiffLines ==
    {"MessageStartLine", "MessageEndLine", "NotesEndLine", "BinaryFileLine",
     "ModeLine", "IndexLine", "HunkContentLine", "ParseFailure"}

CommitHeader ==
    {<<"CommitLine", "merge", "MergeLine">>,
     <<"CommitLine", "author", "AuthorLine">>,
     <<"MergeLine", "author", "AuthorLine">>,
     <<"AuthorLine", "author date", "AuthorDateLine">>,
     <<"AuthorDateLine", "committer", "CommitterLine">>,
     <<"CommitterLine", "committer date", "CommitterDateLine">>,
     <<"CommitterDateLine", "empty", "MessageStartLine">>,
     <<"MessageStartLine", "indented", "MessageLine">>,
     <<"MessageLine", "indented", "MessageLine">>,
     <<"MessageLine", "empty", "MessageEndLine">>,
     <<"MessageEndLine", "notes", "NotesStartLine">>,
     <<"NotesStartLine", "indented", "NotesLine">>,
     <<"NotesLine", "indented", "NotesLine">>,
     <<"NotesLine", "empty", "NotesEndLine">>}

DiffHeader ==
    ({"DiffLine", "ModeLine"} \X {"mode"} \X {"ModeLine"})
        \cup ({"DiffLine", "ModeLine"} \X {"index"} \X {"IndexLine"})
        \cup ({"IndexLine", "ModeLine"} \X {"---"} \X {"FromFileLine"})
        \cup {<<"IndexLine", "binary", "BinaryFileLine">>,
              <<"FromFileLine", "+++", "ToFileLine">>}
        \cup ({"ToFileLine", "HunkContentLine"} \X {"@@"} \X {"HunkLineNumberLine"})

HunkLines ==
    (InHunk \X {"context", "indented", "plus", "+++", "minus", "---", "empty"}
            \X {"HunkContentLine"})
        \cup {<<"HunkContentLine", "no newline", "HunkContentLine">>}

Recognised ==
    (CommitLines \X {"commit"} \X {"CommitLine"})
        \cup (DiffLines \X {"diff"} \X {"DiffLine"})
        \cup CommitHeader \cup DiffHeader \cup HunkLines
        \cup {<<state, "empty", state>> : state \in FileHeader}

(* A line nothing recognises, or whose path or date cannot be read, makes  *)
(* the parser skip to the next commit or diff.                             *)
NewStates(state, form) == {to \in {step[3] : step \in Recognised} : <<state, form, to>> \in Recognised}

NextState(state, form) ==
    IF NewStates(state, form) = {} THEN "ParseFailure"
    ELSE CHOOSE to \in NewStates(state, form) : TRUE

-----------------------------------------------------------------------------
(* What FromReader keeps between two lines: latestState, currentCommit and *)
(* its hasDiffs, currentDiff, the diffs sent, and that it left its loop.   *)
Diff(commit, path, binary, text) ==
    [commit |-> commit, path |-> path, binary |-> binary, text |-> text]

NoDiffs(commit) == Diff(commit, "", FALSE, <<>>)

Start ==
    [latest |-> "Initial", commit |-> NoCommit, hasDiffs |-> FALSE,
     diff |-> NoDiffs(NoCommit), sent |-> <<>>, over |-> FALSE]

HasContent(diff) == diff.text # <<>> \/ diff.binary

SendDiff(p) ==
    IF HasContent(p.diff)
    THEN [p EXCEPT !.sent = Append(@, [p.diff EXCEPT !.commit = p.commit])]
    ELSE p

(* A commit that is left, with none of its diffs sent, goes out alone.     *)
LeaveCommit(p) ==
    IF p.commit # NoCommit /\ ~p.hasDiffs /\ ~HasContent(p.diff)
    THEN [p EXCEPT !.sent = Append(@, NoDiffs(p.commit))]
    ELSE p

NewCommit(p, hash) ==
    [LeaveCommit(SendDiff(p)) EXCEPT
        !.commit = hash, !.hasDiffs = FALSE, !.diff = NoDiffs(hash)]

NewFile(p) ==
    [SendDiff(p) EXCEPT
        !.hasDiffs = @ \/ HasContent(p.diff), !.diff = NoDiffs(p.commit)]

(* A hunk is a diff of its own, with the path of the file; sending the one *)
(* before it does not set hasDiffs.                                        *)
NewHunk(p) ==
    [SendDiff(p) EXCEPT !.diff = Diff(p.commit, p.diff.path, FALSE, <<>>)]

Effect(p, line, new) ==
    CASE new = "CommitLine" -> NewCommit(p, line.what)
      [] new = "DiffLine" -> NewFile(p)
      [] new = "HunkLineNumberLine" -> NewHunk(p)
      [] new = "ToFileLine" /\ line.form = "+++" -> [p EXCEPT !.diff.path = line.what]
      [] new = "BinaryFileLine" /\ line.form = "binary" /\ line.what # "" ->
            [p EXCEPT !.diff.path = line.what, !.diff.binary = TRUE]
      [] new = "HunkContentLine" /\ line.form \in {"plus", "+++"} ->
            [p EXCEPT !.diff.text = Append(@, line.what)]
      [] new = "HunkContentLine" /\ line.form \in {"context", "indented"} ->
            [p EXCEPT !.diff.text = Append(@, "")]
      [] OTHER -> p

(* The loop ends with the line that makes a diff too large.                *)
Sized(p, new) ==
    [p EXCEPT !.latest = new, !.over = Len(p.diff.text) > MaxDiffSize]

ReadLine(p, line) ==
    IF p.over THEN p
    ELSE Sized(Effect(p, line, NextState(p.latest, line.form)),
               NextState(p.latest, line.form))

cleanupParse(p) == LeaveCommit(SendDiff(p)).sent

Parse(lines) == cleanupParse(FoldLeft(ReadLine, Start, lines))

-----------------------------------------------------------------------------
(* What `git log --patch --pretty=fuller --notes` prints.  A commit is     *)
(*   [hash, merge, message (its lines), notes, files, shown]               *)
(* where shown tells whether --diff-filter leaves any of it, and a file is *)
(*   [change, path, hunks], a hunk being a sequence of lines; a binary      *)
(* without a path is one that is removed.                                  *)
Line(form, what) == [form |-> form, what |-> what]
Lines(forms) == [i \in DOMAIN forms |-> Line(forms[i], "")]

FileHeaderOf(file) ==
    CASE file.change \in {"added", "deleted"} -> Lines(<<"diff", "mode", "index", "---">>)
      [] file.change = "modified" -> Lines(<<"diff", "index", "---">>)
      [] file.change = "binary" ->
            Lines(<<"diff", "mode", "index">>) \o <<Line("binary", file.path)>>
      [] file.change = "empty" -> Lines(<<"diff", "mode", "index">>)
      [] file.change = "mode" -> Lines(<<"diff", "mode", "mode">>)

ToFileOf(file) ==
    CASE file.change \in {"added", "modified"} -> <<Line("+++", file.path)>>
      [] file.change = "deleted" -> <<Line("+++", "")>>
      [] OTHER -> <<>>

FileLines(file) ==
    FileHeaderOf(file) \o ToFileOf(file)
        \o FlattenSeq([i \in DOMAIN file.hunks |-> Lines(<<"@@">>) \o file.hunks[i]])

MergeLines(c) == IF c.merge THEN Lines(<<"merge">>) ELSE <<>>
NotesLines(c) == IF c.notes THEN Lines(<<"notes", "indented", "empty">>) ELSE <<>>
MessageLines(c) ==
    IF c.message = 0 THEN <<>>
    ELSE [i \in 1..c.message |-> Line("indented", "")] \o Lines(<<"empty">>)

CommitText(c) ==
    <<Line("commit", c.hash)>> \o MergeLines(c)
        \o Lines(<<"author", "author date", "committer", "committer date", "empty">>)
        \o MessageLines(c) \o NotesLines(c)
        \o FlattenSeq([i \in DOMAIN c.files |-> FileLines(c.files[i])])

(* An empty line stands between a commit's diffs and the next commit.      *)
Shown(h) == SelectSeq(h, LAMBDA c : c.shown)
Separator(h, i) ==
    IF i < Len(h) /\ h[i].files # <<>> THEN Lines(<<"empty">>) ELSE <<>>

Printed(h) ==
    FlattenSeq([i \in DOMAIN h |-> CommitText(h[i]) \o Separator(h, i)])

GitLog(h) == Printed(Shown(h))

-----------------------------------------------------------------------------
(* What the log says, read off the history itself: each commit, and what   *)
(* each hunk of each of its files adds, an empty line for one that stays.  *)
Added(hunk) ==
    LET kept == SelectSeq(hunk, LAMBDA l : l.form \in {"plus", "+++", "context", "indented"})
    IN [i \in DOMAIN kept |-> kept[i].what]

HunksOf(c, file) ==
    SelectSeq([i \in DOMAIN file.hunks |-> Diff(c.hash, file.path, FALSE, Added(file.hunks[i]))],
              HasContent)

ContentsOf(c, file) ==
    CASE file.change \in {"added", "modified"} -> HunksOf(c, file)
      [] file.change = "binary" /\ file.path # "" -> <<Diff(c.hash, file.path, TRUE, <<>>)>>
      [] OTHER -> <<>>

Says(c) ==
    <<NoDiffs(c.hash)>>
        \o FlattenSeq([i \in DOMAIN c.files |-> ContentsOf(c, c.files[i])])

Expected(h) ==
    FlattenSeq([i \in DOMAIN h |-> IF h[i].shown THEN Says(h[i]) ELSE <<>>])
=============================================================================
