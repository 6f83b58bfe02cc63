---------------------------- MODULE ScanPromise ----------------------------
(***************************************************************************)
(* What one scan promises to the user of the engine, with no workers and   *)
(* no channels: chunks are accepted, the keys of the secrets found in them *)
(* are reported, and the scan returns only when every key it owes has been *)
(* handled.  After it has returned nothing is reported any more.           *)
(*                                                                         *)
(* Which detector reports a secret that several detectors find depends on  *)
(* the order of a Go map, so a chunk has keys it must report whatever the  *)
(* order and keys it may report in some order.                             *)
(***************************************************************************)
CONSTANTS Chunks,   \* what the sources may produce
          Keys,     \* identities of findings (the key of the dedupe cache)
          Must,     \* chunk -> keys owed for it whatever the schedule (part of May)
          May       \* chunk -> keys some schedule reports for it

VARIABLES accepted,  \* chunks taken from the sources
          reported,  \* keys handed to the dispatcher
          returned   \* the scan is over

vars == <<accepted, reported, returned>>

Owed == UNION {Must[c] : c \in accepted}
Possible == UNION {May[c] : c \in accepted}

Init ==
    /\ accepted = {}
    /\ reported = {}
    /\ returned = FALSE

Accept(c) ==
    /\ ~returned
    /\ c \in Chunks \ accepted
    /\ accepted' = accepted \cup {c}
    /\ UNCHANGED <<reported, returned>>

Report(k) ==
    /\ ~returned
    /\ k \in Possible \ reported
    /\ reported' = reported \cup {k}
    /\ UNCHANGED <<accepted, returned>>

Return ==
    /\ ~returned
    /\ Owed \subseteq reported
    /\ returned' = TRUE
    /\ UNCHANGED <<accepted, reported>>

Next ==
    \/ \E c \in Chunks : Accept(c)
    \/ \E k \in Keys : Report(k)
    \/ Return

ReportOwed(k) == k \in Owed /\ Report(k)

Fairness ==
    /\ WF_vars(Return)
    /\ \A k \in Keys : WF_vars(ReportOwed(k))

Spec == Init /\ [][Next]_vars /\ Fairness
=============================================================================
