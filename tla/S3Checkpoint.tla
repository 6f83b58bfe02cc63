--------------------------- MODULE S3Checkpoint ---------------------------
(***************************************************************************)
(* The resumable scan of pkg/sources/s3: scanBuckets goes through the      *)
(* buckets once per role, a page of objects at a time; a pool of jobs      *)
(* scans the objects of a page in any order; the Checkpointer keeps the    *)
(* low water mark of the page and writes it, with its bucket and role, to  *)
(* Progress.EncodedResumeInfo.  The host saves that progress now and then, *)
(* and after a crash or a cancellation a new scan starts from what it has. *)
(*                                                                         *)
(* Buckets and keys are numbered in their sorted order.  A bucket may be   *)
(* gone when a scan starts again; new ones do not appear.                  *)
(***************************************************************************)
EXTENDS Integers, FiniteSets

CONSTANTS
    NRoles,      \* roles are visited in order, 1..NRoles
    NBuckets,    \* sorted buckets 1..NBuckets
    Size,        \* bucket -> number of objects; keys are 1..Size[b]
    Skippable,   \* <<bucket, key>> the scan never downloads (skipReason)
    PageSize,    \* objects per page
    PoolLimit,   \* limit of s.jobPool
    Unreadable,  \* <<bucket, key>> whose download may fail
    Unlistable,  \* buckets whose listing may fail
    Unusable,    \* roles that may be refused the list of buckets
    MayCancel,   \* may the context be cancelled?
    MaxRestarts, \* bound on crashes and restarts
    None

Roles == 1..NRoles
Buckets == 1..NBuckets

ASSUME S3Assumption ==
    /\ NRoles \in Nat \ {0} /\ NBuckets \in Nat \ {0}
    /\ Size \in [Buckets -> Nat]
    /\ PageSize \in Nat \ {0} /\ PoolLimit \in Nat \ {0}
    /\ MaxRestarts \in Nat

VARIABLES
    pc,          \* where the scanning goroutine is
    role, bucket,\* its loop variables
    live,        \* the buckets this scan lists
    pos,         \* the resume position of the pass: a checkpoint, or None
    listed,      \* last key of the bucket listed so far
    page,        \* the page being scanned: its role, bucket and keys
    next,        \* next key of the page to submit
    jobs,        \* keys of the page whose jobs are running
    completed, low,  \* the checkpointer: completedObjects, lowestIncompleteIdx
    info,        \* Progress.EncodedResumeInfo: a checkpoint, or None
    held,        \* the copy of it scanBuckets read to write it back
    saved,       \* what the host has saved of it
    cancelled, restarts,
    scanned, failed  \* objects scanned, objects tried in vain, by any scan

scanVars == <<pc, role, bucket, live, pos, listed, held>>
pageVars == <<page, next, jobs>>
markVars == <<completed, low>>
hostVars == <<saved, cancelled, restarts>>
histVars == <<scanned, failed>>
vars == <<scanVars, pageVars, markVars, info, hostVars, histVars>>

Checkpoints == [role : Roles, bucket : Buckets, startAfter : Nat]
Objects == UNION {Roles \X {b} \X (1..Size[b]) : b \in Buckets}
PageObject(k) == <<page.role, page.bucket, k>>

(* The first listed bucket from b on; NBuckets + 1 when there is none.     *)
From(b) ==
    LET later == {c \in live : c >= b}
    IN IF later = {} THEN NBuckets + 1
       ELSE CHOOSE c \in later : \A d \in later : c <= d

NoPage == [role |-> 1, bucket |-> 1, first |-> 1, last |-> 0]

Init ==
    /\ pc = "role" /\ role = 1 /\ bucket = 1
    /\ live = Buckets
    /\ pos = None /\ listed = 0
    /\ page = NoPage /\ next = 1 /\ jobs = {}
    /\ completed = {} /\ low = 1
    /\ info = None /\ held = None /\ saved = None
    /\ cancelled = FALSE /\ restarts = 0
    /\ scanned = {} /\ failed = {}

-----------------------------------------------------------------------------
(* The scanning goroutine *)

(* What a read of the resume information without its lock may return: a    *)
(* write at the same time, by a job that still runs, can leave the pointer *)
(* of one string with the length of another, which is no JSON and counts   *)
(* as no checkpoint (ResumePoint).                                         *)
Readable == {info} \cup IF jobs = {} THEN {} ELSE {None}

(* scanBuckets: determineResumePosition searches the bucket list for the   *)
(* checkpoint's bucket, whatever its role.                                 *)
BeginRole ==
    /\ pc = "role"
    /\ pos' \in Readable
    /\ bucket' = IF pos' = None THEN From(1) ELSE From(pos'.bucket)
    /\ pc' = "bucket"
    /\ UNCHANGED <<role, live, listed, held, pageVars, markVars, info, hostVars, histVars>>

(* visitRoles cannot make a client for the role or list its buckets: the   *)
(* scan returns the error, and no later role is visited.                   *)
RoleRefused ==
    /\ pc = "role"
    /\ role \in Unusable \/ cancelled
    /\ pc' = "aborted"
    /\ UNCHANGED <<role, bucket, live, pos, listed, held, pageVars, markVars, info, hostVars, histVars>>

(* The mark of the checkpoint applies to its own bucket and role only.     *)
StartAfter ==
    IF pos # None /\ pos.bucket = bucket /\ pos.role = role THEN pos.startAfter ELSE 0

(* At every bucket scanBuckets evaluates s.EncodedResumeInfo, without the  *)
(* lock, as the argument of SetProgressComplete, ...                       *)
ReadResumeInfo ==
    /\ pc = "bucket" /\ bucket \in Buckets
    /\ held' \in Readable
    /\ pc' = "write"
    /\ UNCHANGED <<role, bucket, live, pos, listed, pageVars, markVars, info, hostVars, histVars>>

(* ... which writes it back under the lock; then scanBucket begins, ...    *)
BeginBucket ==
    /\ pc = "write" /\ ~cancelled
    /\ info' = held
    /\ listed' = StartAfter
    /\ pc' = "list"
    /\ UNCHANGED <<role, bucket, live, pos, held, pageVars, markVars, hostVars, histVars>>

(* ... or finds its context done.                                          *)
SkipBucket ==
    /\ pc = "write" /\ cancelled
    /\ info' = held
    /\ bucket' = From(bucket + 1)
    /\ pc' = "bucket"
    /\ UNCHANGED <<role, live, pos, listed, held, pageVars, markVars, hostVars, histVars>>

(* Mutant: the resume information outlives the pass of its role.           *)
EndRoleKeepsInfo ==
    /\ pc = "bucket" /\ bucket \notin Buckets
    /\ IF role < NRoles THEN role' = role + 1 /\ pc' = "role"
                        ELSE role' = role /\ pc' = "done"
    /\ UNCHANGED <<bucket, live, pos, listed, held, pageVars, markVars, info, hostVars, histVars>>

(* The end of a pass clears the resume information; visitRoles goes on.    *)
EndRole ==
    /\ pc = "bucket" /\ bucket \notin Buckets
    /\ info' = None
    /\ IF role < NRoles THEN role' = role + 1 /\ pc' = "role"
                        ELSE role' = role /\ pc' = "done"
    /\ UNCHANGED <<bucket, live, pos, listed, held, pageVars, markVars, hostVars, histVars>>

(* NextPage, and pageChunker's checkpointer.Reset().                       *)
NextPage ==
    /\ pc = "list" /\ ~cancelled
    /\ listed < Size[bucket]
    /\ page' = [role |-> role, bucket |-> bucket, first |-> listed + 1,
                last |-> IF listed + PageSize < Size[bucket]
                         THEN listed + PageSize ELSE Size[bucket]]
    /\ next' = listed + 1
    /\ completed' = {} /\ low' = listed + 1
    /\ pc' = "page"
    /\ UNCHANGED <<role, bucket, live, pos, listed, held, jobs, info, hostVars, histVars>>

(* The listing is over, is refused (its remaining objects are not seen),   *)
(* or ends with the context.                                               *)
EndBucket ==
    /\ pc = "list"
    /\ \/ (listed >= Size[bucket] \/ cancelled) /\ UNCHANGED failed
       \/ /\ bucket \in Unlistable /\ ~cancelled
          /\ failed' = failed \cup {<<role, bucket, k>> : k \in listed + 1 .. Size[bucket]}
    /\ bucket' = From(bucket + 1)
    /\ pc' = "bucket"
    /\ UNCHANGED <<role, live, pos, listed, held, pageVars, markVars, info, hostVars, scanned>>

(* Mutant: any completed object moves the mark behind itself.              *)
MarkHighest(k) ==
    /\ completed' = completed \cup {k}
    /\ low' = IF k < low THEN low ELSE k + 1
    /\ info' = [role |-> page.role, bucket |-> page.bucket, startAfter |-> low' - 1]

(* Mutant: the checkpoint is the object completed last.                    *)
MarkLatest(k) ==
    /\ completed' = completed \cup {k}
    /\ low' = IF k # low THEN low
              ELSE CHOOSE n \in k + 1 .. page.last + 1 :
                       /\ n \notin completed'
                       /\ k + 1 .. n - 1 \subseteq completed'
    /\ info' = [role |-> page.role, bucket |-> page.bucket, startAfter |-> k]

(* UpdateObjectCompletion: the mark moves over the completed objects that  *)
(* follow each other; what lies below it becomes the checkpoint.           *)
Mark(k) ==
    /\ completed' = completed \cup {k}
    /\ low' = IF k # low THEN low
              ELSE CHOOSE n \in k + 1 .. page.last + 1 :
                       /\ n \notin completed'
                       /\ k + 1 .. n - 1 \subseteq completed'
    /\ info' = IF low' > page.first
               THEN [role |-> page.role, bucket |-> page.bucket, startAfter |-> low' - 1]
               ELSE info

(* An object the scan never downloads is completed where it is submitted.  *)
SubmitSkipped ==
    /\ pc = "page" /\ ~cancelled
    /\ next <= page.last /\ <<page.bucket, next>> \in Skippable
    /\ Mark(next)
    /\ next' = next + 1
    /\ UNCHANGED <<scanVars, page, jobs, hostVars, histVars>>

(* Mutant: an object is completed when its job is started.                 *)
SubmitJobMarks ==
    /\ pc = "page" /\ ~cancelled
    /\ next <= page.last /\ <<page.bucket, next>> \notin Skippable
    /\ Cardinality(jobs) < PoolLimit
    /\ jobs' = jobs \cup {next}
    /\ Mark(next)
    /\ next' = next + 1
    /\ UNCHANGED <<scanVars, page, hostVars, histVars>>

SubmitJob ==
    /\ pc = "page" /\ ~cancelled
    /\ next <= page.last /\ <<page.bucket, next>> \notin Skippable
    /\ Cardinality(jobs) < PoolLimit
    /\ jobs' = jobs \cup {next}
    /\ next' = next + 1
    /\ UNCHANGED <<scanVars, page, markVars, info, hostVars, histVars>>

(* jobPool.Wait() after the last object; a context done before that makes  *)
(* pageChunker return without waiting.                                     *)
EndPage ==
    /\ pc = "page"
    /\ IF next <= page.last THEN cancelled ELSE jobs = {}
    /\ listed' = page.last
    /\ pc' = "list"
    /\ UNCHANGED <<role, bucket, live, pos, held, pageVars, markVars, info, hostVars, histVars>>

-----------------------------------------------------------------------------
(* The jobs *)

JobScans(k) ==
    /\ k \in jobs
    /\ jobs' = jobs \ {k}
    /\ scanned' = scanned \cup {PageObject(k)}
    /\ Mark(k)
    /\ UNCHANGED <<scanVars, page, next, hostVars, failed>>

(* A failed download or file, too many errors under the prefix, or a done  *)
(* context: the object is not completed.                                   *)
JobFails(k) ==
    /\ k \in jobs
    /\ \/ /\ <<page.bucket, k>> \in Unreadable /\ ~cancelled
          /\ failed' = failed \cup {PageObject(k)}
       \/ cancelled /\ UNCHANGED failed
    /\ jobs' = jobs \ {k}
    /\ UNCHANGED <<scanVars, page, next, markVars, info, hostVars, scanned>>

-----------------------------------------------------------------------------
(* The host *)

Cancel ==
    /\ MayCancel /\ ~cancelled /\ pc \notin {"done", "aborted"}
    /\ cancelled' = TRUE
    /\ UNCHANGED <<scanVars, pageVars, markVars, info, saved, restarts, histVars>>

Save ==
    /\ saved # info
    /\ saved' = info
    /\ UNCHANGED <<scanVars, pageVars, markVars, info, cancelled, restarts, histVars>>

(* A crash, or a scan after a cancelled one: a new process starts from the *)
(* saved progress; buckets may have been deleted.                          *)
Restart ==
    /\ restarts < MaxRestarts
    /\ pc # "done" \/ cancelled
    /\ restarts' = restarts + 1
    /\ live' \in SUBSET live
    /\ pc' = "role" /\ role' = 1 /\ bucket' = 1
    /\ pos' = None /\ listed' = 0 /\ held' = None
    /\ page' = NoPage /\ next' = 1 /\ jobs' = {}
    /\ completed' = {} /\ low' = 1
    /\ info' = saved
    /\ cancelled' = FALSE
    /\ UNCHANGED <<saved, histVars>>

Finished == pc \in {"done", "aborted"} /\ jobs = {} /\ UNCHANGED vars

ScanStep ==
    \/ BeginRole \/ RoleRefused \/ ReadResumeInfo \/ BeginBucket \/ SkipBucket \/ EndRole
    \/ NextPage \/ EndBucket \/ SubmitSkipped \/ SubmitJob \/ EndPage

JobStep == \E k \in jobs : JobScans(k) \/ JobFails(k)

Next == ScanStep \/ JobStep \/ Cancel \/ Save \/ Restart \/ Finished

Spec == Init /\ [][Next]_vars

-----------------------------------------------------------------------------
(* Type correctness of the scan and the checkpointer. *)
TypeOK ==
    /\ pc \in {"role", "bucket", "write", "list", "page", "done", "aborted"}
    /\ role \in Roles /\ bucket \in 1..NBuckets + 1 /\ live \subseteq Buckets
    /\ pos \in Checkpoints \cup {None} /\ listed \in Nat
    /\ page \in [role : Roles, bucket : Buckets, first : Nat, last : Nat]
    /\ next \in page.first .. page.last + 1
    /\ jobs \subseteq page.first .. page.last
    /\ completed \subseteq page.first .. page.last
    /\ low \in page.first .. page.last + 1
    /\ {info, held, saved} \subseteq Checkpoints \cup {None}
    /\ cancelled \in BOOLEAN /\ restarts \in 0..MaxRestarts
    /\ scanned \subseteq Objects /\ failed \subseteq Objects

Owed(o) == <<o[2], o[3]>> \notin Skippable

(* A scan that ends without being cancelled, however often it was          *)
(* interrupted and resumed from whatever the host had saved, has scanned   *)
(* every object of every listed bucket for every role, or tried it in      *)
(* vain: no checkpoint ever made it pass over an object.                   *)
CompleteScanMissesNothing ==
    pc = "done" /\ ~cancelled =>
        \A o \in Objects : o[2] \in live /\ Owed(o) => o \in scanned \cup failed

(* Within a page the checkpoint stays below every object that is not done: *)
(* all it passes over has been scanned, and nothing it passes is running.  *)
MarkStaysBelowPending ==
    \A k \in page.first .. low - 1 :
        k \notin jobs /\ (Owed(PageObject(k)) => PageObject(k) \in scanned)

(* What a checkpoint, the current one or a saved one, says is done: the    *)
(* passes of the earlier roles and, in its role, the objects up to it.     *)
Covered(c) ==
    {o \in Objects : \/ o[1] < c.role
                     \/ /\ o[1] = c.role
                        /\ o[2] < c.bucket \/ (o[2] = c.bucket /\ o[3] <= c.startAfter)}

(* Whatever checkpoint the host holds, and whoever wrote it (the last job  *)
(* of a cancelled scan, a scan that was itself resumed), all that it says  *)
(* is done has been scanned or tried in vain.                              *)
CheckpointCoversDone ==
    \A c \in {info, saved} \ {None} :
        \A o \in Covered(c) : o[2] \in live /\ Owed(o) => o \in scanned \cup failed

(* While a scan runs its checkpoint does not fall back in a bucket, with   *)
(* one exception: once the context is done the pool is not waited for, and *)
(* what scanBuckets read at the next bucket may be written back over what  *)
(* a late job has written since.                                           *)
CheckpointAdvances ==
    [][info # None /\ info' # None /\ restarts' = restarts
         /\ info.role = info'.role /\ info.bucket = info'.bucket
       => info'.startAfter >= info.startAfter \/ SkipBucket]_vars

(* The comment on UpdateObjectCompletion: "While this may result in        *)
(* re-scanning some objects when resuming, it guarantees no objects are    *)
(* missed in case of interruption" and, of an object 6 that failed, "This  *)
(* ensures object 6 is not missed": the checkpoint never passes an object  *)
(* whose download failed.                                                  *)
FailedIsNotPassed ==
    info # None =>
        \A k \in 1..info.startAfter :
            <<info.role, info.bucket, k>> \in failed => <<info.role, info.bucket, k>> \in scanned
=============================================================================
