--------------------------- MODULE MCS3Checkpoint ---------------------------
(* Two roles over two buckets: one of two pages, with an object that is    *)
(* skipped in its second page, and one of a single page.                   *)
EXTENDS S3Checkpoint, TLC

MCSize == (1 :> 4) @@ (2 :> 1)
MCSkippable == {<<1, 3>>}
MCUnreadable == {<<1, 2>>}
MCUnlistable == {2}
MCUnusable == {2}
=============================================================================
