------------------------------ MODULE MCGitLog ------------------------------
(***************************************************************************)
(* Bounded instance of GitLog.  The first commit of the longest history    *)
(* changes two files, one in two hunks of which the last only removes; the *)
(* second is left out by --diff-filter; the third has a binary and a       *)
(* change of mode.  Another history ends in a merge, with no diff.         *)
(***************************************************************************)
EXTENDS GitLog

Commit(hash, files) ==
    [hash |-> hash, merge |-> FALSE, message |-> 1, notes |-> FALSE,
     files |-> files, shown |-> TRUE]
File(change, path, hunks) == [change |-> change, path |-> path, hunks |-> hunks]
Plus(text) == Line("plus", text)
Minus == Line("minus", "")
Kept == Line("context", "")

(* A removed or an added line may look like a header within a hunk.        *)
TwoFiles ==
    Commit("c1", <<File("added", "f", <<<<Plus("a"), Line("+++", "b")>>, <<Minus>>>>),
                   File("modified", "g", <<<<Kept, Line("---", ""), Plus("c")>>>>)>>)
LeftOut == [Commit("c2", <<File("mode", "f", <<>>)>>) EXCEPT !.shown = FALSE]
Merge == [Commit("c2", <<>>) EXCEPT !.merge = TRUE, !.message = 0]
Binary == Commit("c3", <<File("binary", "h", <<>>), File("mode", "f", <<>>)>>)
Small == Commit("c4", <<File("added", "k", <<<<Plus("d")>>>>)>>)

MCHistories == {<<>>, <<TwoFiles, LeftOut, Binary>>, <<Small, Merge>>}

-----------------------------------------------------------------------------
(* FromReader over two commits of any of the forms below and a third, with *)
(* and without a message, notes or a merge: without notes on a commit that *)
(* shows no diff, it finds exactly what the log says.                      *)
FileLists ==
    {<<>>,
     <<File("added", "f", <<<<Plus("a"), Minus, Line("no newline", "")>>, <<Minus, Kept>>>>)>>,
     <<File("deleted", "f", <<<<Minus>>>>), File("modified", "g", <<<<Plus("b")>>, <<Minus>>>>)>>,
     <<File("binary", "h", <<>>), File("empty", "f", <<>>), File("mode", "g", <<>>)>>,
     <<File("mode", "g", <<>>), File("binary", "", <<>>)>>}

Bodies == {<<FALSE, 0, FALSE>>, <<TRUE, 2, FALSE>>, <<FALSE, 1, TRUE>>}

CommitsNamed(hash) ==
    {[hash |-> hash, merge |-> b[1], message |-> b[2], notes |-> b[3],
      files |-> fs, shown |-> TRUE] : b \in Bodies, fs \in FileLists}

ASSUME ParserReadsTheLog ==
    \A c \in CommitsNamed("c1"), d \in CommitsNamed("c2") :
        LET h == <<c, d, Small>> IN
        (\A i \in 1..2 : h[i].notes => h[i].files # <<>>)
            => Report(Parse(GitLog(h))) = Expected(h)

(* What the theorems about GitLog rest on.                                 *)
ASSUME PiecesAreRead == ParserIsRight

(* isCommitLine takes no line after notes: when the commit with the notes  *)
(* shows no diff, the next commit's diffs are given to it.                 *)
ASSUME NotesHideTheNextCommit ==
    LET noted == [Commit("c1", <<>>) EXCEPT !.notes = TRUE]
    IN Report(Parse(GitLog(<<noted, Small>>)))
         = <<NoDiffs("c1"), Diff("c1", "k", FALSE, <<"d">>)>>

(* A diff over maxDiffSize is sent, and the rest of the log is not read.   *)
ASSUME LargeDiffEndsTheLog ==
    LET lines == [i \in 1..(MaxDiffSize + 1) |-> Plus("a")]
        large == Commit("c1", <<File("added", "f", <<lines>>)>>)
    IN Report(Parse(GitLog(<<large, Small>>)))
         = <<NoDiffs("c1"), Diff("c1", "f", FALSE, [i \in 1..(MaxDiffSize + 1) |-> "a"])>>
=============================================================================
