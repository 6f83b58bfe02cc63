------------------------- MODULE S3CheckpointProofs -------------------------
(***************************************************************************)
(* Proofs about S3Checkpoint: for any roles, buckets, pages, pool limit,   *)
(* failures and restarts, the checkpoint of a page never passes an object  *)
(* that is not done.  The argument: an object enters completed only when   *)
(* it is skipped or after its job scanned it, the keys below next are the  *)
(* only ones that can be running or completed, and low moves over          *)
(* completed keys alone.  From that: every checkpoint at hand or saved     *)
(* stands behind what is done, so that no resumed scan misses an object,   *)
(* and one falls back only where an older copy of it is written back.      *)
(***************************************************************************)
EXTENDS S3Checkpoint, WellFoundedInduction, TLAPS

(* Arithmetic of the mark: what lies below the new mark m lies below the   *)
(* key k just completed, is k, or lies between them.                       *)
LEMMA BelowMark ==
    ASSUME NEW f \in Nat, NEW l \in Nat, NEW k \in f..l, NEW m \in k + 1 .. l + 1
    PROVE  /\ m \in f .. l + 1
           /\ \A i \in f .. m - 1 : i \in f .. k - 1 \/ i = k \/ i \in k + 1 .. m - 1
  OBVIOUS

(* The last key below a mark that has left the first key of its page; keys *)
(* begin with 1.                                                           *)
LEMMA LastBelowMark ==
    ASSUME NEW f \in Nat, NEW l \in Nat, NEW m \in f .. l + 1, m > f \/ f >= 1
    PROVE  m - 1 \in Nat /\ m - 1 < m
  OBVIOUS

USE DEF Roles

(* The keys of the page that have been submitted are running, completed or *)
(* given up; what is completed is done; the mark is above completed keys.  *)
PageInv ==
    /\ page \in [role : Roles, bucket : Buckets, first : Nat, last : Nat]
    /\ page.last <= Size[page.bucket] /\ page.first >= 1
    /\ next \in page.first .. page.last + 1
    /\ jobs \subseteq page.first .. next - 1
    /\ completed \subseteq page.first .. next - 1
    /\ jobs \cap completed = {}
    /\ \A k \in completed : Owed(PageObject(k)) => PageObject(k) \in scanned
    /\ low \in page.first .. page.last + 1
    /\ page.first .. low - 1 \subseteq completed

(* The loop variables of the scan; a listing is of a real bucket, and but  *)
(* for a cancelled scan no job outlives its page.                          *)
LoopInv ==
    /\ pc \in {"role", "bucket", "write", "list", "page", "done", "aborted"}
    /\ role \in Roles /\ bucket \in 1..NBuckets + 1 /\ live \subseteq Buckets
    /\ pc \in {"write", "list", "page"} => bucket \in Buckets
    /\ pc # "page" /\ ~cancelled => jobs = {}
    /\ listed \in Nat
    /\ pos \in Checkpoints \cup {None}
    /\ info \in Checkpoints \cup {None} /\ saved \in Checkpoints \cup {None}
    /\ held \in Checkpoints \cup {None}
    /\ cancelled \in BOOLEAN /\ restarts \in 0..MaxRestarts
    /\ scanned \subseteq Objects /\ failed \subseteq Objects

IInv == PageInv /\ LoopInv

(* A set of natural numbers that is not empty has a least element.         *)
LEMMA LeastElement ==
    ASSUME NEW S, S \subseteq Nat, S # {}
    PROVE  \E m \in S : \A n \in S : m <= n
  <1>1. PICK x \in S : \A y \in S : <<y, x>> \notin OpToRel(<, Nat)
    BY NatLessThanWellFounded, WFMin, Zenon
  <1>2. \A y \in S : ~ (y < x)
    BY <1>1 DEF OpToRel
  <1> QED
    BY <1>2

(* From returns the first listed bucket from b on, or the end of the list. *)
LEMMA FromType ==
    ASSUME live \subseteq Buckets, NEW b \in Nat
    PROVE  /\ From(b) \in 1..NBuckets + 1
           /\ From(b) = NBuckets + 1 \/ From(b) >= b
           /\ \A c \in live : c < From(b) => c < b
  <1> DEFINE later == {c \in live : c >= b}
  <1>0. NBuckets + 1 \in 1..NBuckets + 1 /\ Buckets \subseteq 1..NBuckets + 1
    BY S3Assumption DEF Buckets
  <1>1. CASE later = {}
    <2>1. \A c \in live : c < b
      <3>1. Buckets \subseteq Nat
        BY S3Assumption DEF Buckets
      <3> QED BY <1>1, <3>1
    <2> QED BY <1>0, <1>1, <2>1 DEF From
  <1>2. CASE later # {}
    <2>1. later \subseteq live /\ live \subseteq Nat
      <3>1. Buckets \subseteq Nat
        BY S3Assumption DEF Buckets
      <3> QED
        BY <3>1, Zenon
    <2>2. \E c \in later : \A d \in later : c <= d
      <3> HIDE DEF later
      <3> QED
        BY <1>2, <2>1, LeastElement
    <2>3. From(b) = CHOOSE c \in later : \A d \in later : c <= d
      BY <1>2 DEF From
    <2>4. From(b) \in later /\ \A d \in later : From(b) <= d
      <3> HIDE DEF later
      <3> QED
        BY <2>2, <2>3
    <2>5. From(b) \in Buckets
      <3> HIDE DEF later
      <3> QED
        BY <2>1, <2>4, Zenon
    <2>6. ASSUME NEW c \in live, c < From(b) PROVE c < b
      <3>1. c \in Nat /\ From(b) \in Nat
        BY <2>1, <2>4
      <3>2. c \in later => From(b) <= c
        BY <2>4
      <3> QED BY <2>6, <3>1, <3>2
    <2> QED
      BY <1>0, <2>4, <2>5, <2>6
  <1> QED
    BY <1>1, <1>2

(* An object of the page is an object of its bucket.                       *)
LEMMA PageObjectType ==
    ASSUME PageInv, NEW k \in page.first .. page.last
    PROVE  PageObject(k) \in Objects
  <1>1. page.bucket \in Buckets /\ page.role \in Roles /\ k \in 1..Size[page.bucket]
    BY S3Assumption DEF PageInv, Buckets
  <1> QED
    BY <1>1 DEF PageObject, Objects

(* UpdateObjectCompletion keeps the mark above completed keys alone and    *)
(* writes a well-formed checkpoint.                                        *)
LEMMA MarkStep ==
    ASSUME PageInv, LoopInv, NEW k \in page.first .. page.last, Mark(k)
    PROVE  /\ completed' = completed \cup {k}
           /\ low' \in page.first .. page.last + 1
           /\ page.first .. low' - 1 \subseteq completed'
           /\ info' \in Checkpoints \cup {None}
  <1> DEFINE open == {n \in k + 1 .. page.last + 1 : n \notin completed'}
             Next0(n) == n \notin completed' /\ k + 1 .. n - 1 \subseteq completed'
  <1>1. completed' = completed \cup {k} /\ completed' \subseteq page.first .. page.last
    BY DEF Mark, PageInv
  <1>2. low' \in page.first .. page.last + 1 /\ page.first .. low' - 1 \subseteq completed'
    <2>1. CASE k # low
      BY <1>1, <2>1 DEF Mark, PageInv
    <2>2. CASE k = low
      <3>1. page.last + 1 \in open /\ open \subseteq Nat
        <4>1. /\ page.first \in Nat /\ page.last \in Nat
          BY DEF PageInv
        <4>2. k \in Nat /\ page.last + 1 \in k + 1 .. page.last + 1
          BY <4>1
        <4>3. page.last + 1 \notin completed'
          BY <1>1, <4>1
        <4> QED BY <4>1, <4>2, <4>3
      <3>2. PICK m \in open : \A n \in open : m <= n
        <4> HIDE DEF open
        <4> QED
          BY <3>1, LeastElement
      <3>3. m \in k + 1 .. page.last + 1 /\ Next0(m)
        BY <3>2 DEF PageInv
      <3>4. low' = CHOOSE n \in k + 1 .. page.last + 1 : Next0(n)
        BY <2>2, Zenon DEF Mark
      <3>5. low' \in k + 1 .. page.last + 1 /\ Next0(low')
        <4> HIDE DEF Next0
        <4> QED
          BY <3>3, <3>4
      <3>6. page.first \in Nat /\ page.last \in Nat /\ page.first .. k - 1 \subseteq completed
        BY <2>2 DEF PageInv
      <3>7. /\ low' \in page.first .. page.last + 1
            /\ \A i \in page.first .. low' - 1 :
                   i \in page.first .. k - 1 \/ i = k \/ i \in k + 1 .. low' - 1
        BY <3>5, <3>6, BelowMark
      <3> QED
        BY <1>1, <3>5, <3>6, <3>7
    <2> QED
      BY <2>1, <2>2
  <1>3. info' \in Checkpoints \cup {None}
    <2>1. CASE low' > page.first
      <3>1. low' - 1 \in Nat
        <4>1. page.first \in Nat /\ page.last \in Nat /\ low' \in page.first .. page.last + 1
          BY <1>2 DEF PageInv
        <4> QED
          BY <2>1, <4>1, LastBelowMark
      <3> QED
        BY <2>1, <3>1 DEF Mark, PageInv, Checkpoints
    <2>2. CASE ~(low' > page.first)
      BY <2>2 DEF Mark, LoopInv
    <2> QED
      BY <2>1, <2>2
  <1> QED
    BY <1>1, <1>2, <1>3

(* The page as a scan starts.                                              *)
LEMMA FreshPage ==
    ASSUME page = NoPage, next = 1, jobs = {}, completed = {}, low = 1
    PROVE  PageInv
  <1>1. Size[1] \in Nat
    BY S3Assumption DEF Buckets
  <1> QED
    BY S3Assumption, <1>1 DEF PageInv, NoPage, Buckets

(* The invariant holds at first.                                           *)
LEMMA InitInv == Init => IInv
  <1> SUFFICES ASSUME Init PROVE IInv
    OBVIOUS
  <1>1. PageInv
    BY FreshPage DEF Init
  <1>2. 1 \in Roles /\ 1 \in 1..NBuckets + 1 /\ 0 \in 0..MaxRestarts
    BY S3Assumption DEF Buckets
  <1>3. LoopInv
    BY <1>2 DEF Init, LoopInv
  <1> QED
    BY <1>1, <1>3 DEF IInv

(* The steps of the scanning goroutine keep it.                            *)
LEMMA ScanStepInv == IInv /\ ScanStep => IInv'
  <1> SUFFICES ASSUME PageInv, LoopInv, ScanStep PROVE PageInv' /\ LoopInv'
    BY DEF IInv
  <1> USE DEF scanVars, pageVars, markVars, hostVars, histVars
  <1>a. ASSUME UNCHANGED <<pageVars, markVars, scanned>> PROVE PageInv'
    BY <1>a DEF PageInv, PageObject, Owed
  <1>0. \A c \in Readable : c \in {info, None} /\ c \in Checkpoints \cup {None}
    BY DEF Readable, LoopInv
  <1>1. CASE BeginRole
    <2>0. pos' \in Checkpoints \cup {None}
      BY <1>0, <1>1 DEF BeginRole
    <2>1. bucket' \in 1..NBuckets + 1
      <3>1. 1 \in Nat /\ (pos' # None => pos'.bucket \in Nat)
        BY S3Assumption, <2>0 DEF Checkpoints, Buckets
      <3> QED BY <1>1, <3>1, FromType DEF BeginRole, LoopInv
    <2> QED
      BY <1>1, <1>a, <2>0, <2>1 DEF BeginRole, LoopInv
  <1>2. CASE RoleRefused
    BY <1>2, <1>a DEF RoleRefused, LoopInv
  <1>2r. CASE ReadResumeInfo
    <2>1. held' \in Checkpoints \cup {None}
      BY <1>0, <1>2r DEF ReadResumeInfo
    <2> QED BY <1>2r, <1>a, <2>1 DEF ReadResumeInfo, LoopInv
  <1>3. CASE BeginBucket
    <2>1. StartAfter \in Nat
      BY DEF StartAfter, LoopInv, Checkpoints
    <2> QED
      BY <1>3, <1>a, <2>1 DEF BeginBucket, LoopInv
  <1>4. CASE SkipBucket
    <2>1. bucket' \in 1..NBuckets + 1
      <3>1. bucket + 1 \in Nat
        BY DEF LoopInv
      <3> QED BY <1>4, <3>1, FromType DEF SkipBucket, LoopInv
    <2> QED
      BY <1>4, <1>a, <2>1 DEF SkipBucket, LoopInv
  <1>5. CASE EndRole
    BY S3Assumption, <1>5, <1>a DEF EndRole, LoopInv, Buckets
  <1>6. CASE NextPage
    <2>1. bucket \in Buckets /\ Size[bucket] \in Nat /\ listed \in Nat /\ role \in Roles
      BY S3Assumption, <1>6 DEF NextPage, LoopInv, Buckets
    <2>2. /\ page' \in [role : Roles, bucket : Buckets, first : Nat, last : Nat]
          /\ page'.first = listed + 1 /\ page'.bucket = bucket
          /\ page'.last <= Size[bucket] /\ page'.last >= listed + 1
      BY S3Assumption, <1>6, <2>1 DEF NextPage, Buckets
    <2>3. jobs' = {}
      BY <1>6 DEF NextPage, LoopInv
    <2>4. PageInv'
      <3>1. /\ next' = listed + 1 /\ low' = listed + 1
            /\ completed' = {} /\ page'.last \in Nat
        BY <1>6, <2>2 DEF NextPage
      <3>2. page'.first .. low' - 1 = {}
        BY <2>1, <2>2, <3>1
      <3>3. listed + 1 \in page'.first .. page'.last + 1 /\ page'.first >= 1
        BY <2>1, <2>2, <3>1
      <3> QED BY <2>2, <2>3, <3>1, <3>2, <3>3 DEF PageInv
    <2>5. LoopInv'
      BY <1>6 DEF NextPage, LoopInv
    <2> QED
      BY <2>4, <2>5
  <1>7. CASE EndBucket
    <2>1. bucket' \in 1..NBuckets + 1
      <3>1. bucket + 1 \in Nat
        BY DEF LoopInv
      <3> QED BY <1>7, <3>1, FromType DEF EndBucket, LoopInv
    <2>2. failed' \subseteq Objects
      BY <1>7 DEF EndBucket, LoopInv, Objects
    <2> QED
      BY <1>7, <1>a, <2>1, <2>2 DEF EndBucket, LoopInv
  <1>8. CASE SubmitSkipped
    <2>1. next \in page.first .. page.last /\ next \notin jobs
      BY <1>8 DEF SubmitSkipped, PageInv
    <2>2. ~Owed(PageObject(next))
      BY <1>8 DEF SubmitSkipped, Owed, PageObject
    <2>3. /\ completed' = completed \cup {next}
          /\ low' \in page.first .. page.last + 1
          /\ page.first .. low' - 1 \subseteq completed'
          /\ info' \in Checkpoints \cup {None}
      BY <1>8, <2>1, MarkStep DEF SubmitSkipped
    <2>4. LoopInv'
      BY <1>8, <2>3 DEF SubmitSkipped, LoopInv
    <2>5. PageInv'
      <3>1. /\ jobs' \subseteq page'.first .. next' - 1
            /\ completed' \subseteq page'.first .. next' - 1
        BY <1>8, <2>1, <2>3 DEF SubmitSkipped, PageInv
      <3>2. jobs' \cap completed' = {} /\ next' \in page'.first .. page'.last + 1
        BY <1>8, <2>1, <2>3 DEF SubmitSkipped, PageInv
      <3>3. \A k \in completed' : Owed(PageObject(k)) => PageObject(k) \in scanned
        BY <2>2, <2>3 DEF PageInv
      <3> QED
        BY <1>8, <2>3, <3>1, <3>2, <3>3 DEF SubmitSkipped, PageInv, PageObject, Owed
    <2> QED
      BY <2>4, <2>5
  <1>9. CASE SubmitJob
    <2>1. LoopInv'
      BY <1>9 DEF SubmitJob, LoopInv
    <2>2. next \in page.first .. page.last /\ next \notin completed
      BY <1>9 DEF SubmitJob, PageInv
    <2>3. PageInv'
      <3>1. jobs' \subseteq page'.first .. next' - 1 /\ completed' \subseteq page'.first .. next' - 1
        BY <1>9, <2>2 DEF SubmitJob, PageInv
      <3>2. jobs' \cap completed' = {} /\ next' \in page'.first .. page'.last + 1
        BY <1>9, <2>2 DEF SubmitJob, PageInv
      <3> QED
        BY <1>9, <3>1, <3>2 DEF SubmitJob, PageInv, PageObject, Owed
    <2> QED
      BY <2>1, <2>3
  <1>10. CASE EndPage
    <2>1. page.last \in Nat
      BY DEF PageInv
    <2> QED
      BY <1>10, <1>a, <2>1 DEF EndPage, LoopInv
  <1> QED
    BY <1>1, <1>2, <1>2r, <1>3, <1>4, <1>5, <1>6, <1>7, <1>8, <1>9, <1>10 DEF ScanStep

(* The jobs keep it: a job is completed after it has scanned its object.   *)
LEMMA JobStepInv == IInv /\ JobStep => IInv'
  <1> SUFFICES ASSUME PageInv, LoopInv, JobStep PROVE PageInv' /\ LoopInv'
    BY DEF IInv
  <1> USE DEF scanVars, pageVars, markVars, hostVars, histVars
  <1>1. PICK k \in jobs : JobScans(k) \/ JobFails(k)
    BY DEF JobStep
  <1>2. k \in page.first .. page.last /\ k \in page.first .. next - 1 /\ PageObject(k) \in Objects
    <2>1. k \in page.first .. next - 1 /\ next \in page.first .. page.last + 1
      BY DEF PageInv
    <2>2. page.first \in Nat /\ page.last \in Nat
      BY DEF PageInv
    <2>3. k \in page.first .. page.last
      BY <2>1, <2>2
    <2> QED
      BY <2>1, <2>3, PageObjectType
  <1>3. CASE JobScans(k)
    <2>1. /\ completed' = completed \cup {k}
          /\ low' \in page.first .. page.last + 1
          /\ page.first .. low' - 1 \subseteq completed'
          /\ info' \in Checkpoints \cup {None}
      BY <1>2, <1>3, MarkStep DEF JobScans
    <2>2. LoopInv'
      BY <1>2, <1>3, <2>1 DEF JobScans, LoopInv
    <2>3. PageInv'
      BY <1>2, <1>3, <2>1 DEF JobScans, PageInv, PageObject, Owed
    <2> QED
      BY <2>2, <2>3
  <1>4. CASE JobFails(k)
    <2>1. LoopInv'
      BY <1>2, <1>4 DEF JobFails, LoopInv
    <2>2. PageInv'
      BY <1>4 DEF JobFails, PageInv, PageObject, Owed
    <2> QED
      BY <2>1, <2>2
  <1> QED
    BY <1>1, <1>3, <1>4

(* The host's steps keep it.                                               *)
LEMMA HostStepInv == IInv /\ (Cancel \/ Save \/ Restart) => IInv'
  <1> SUFFICES ASSUME PageInv, LoopInv, Cancel \/ Save \/ Restart
               PROVE  PageInv' /\ LoopInv'
    BY DEF IInv
  <1> USE DEF scanVars, pageVars, markVars, hostVars, histVars
  <1>1. CASE Cancel
    BY <1>1 DEF Cancel, PageInv, LoopInv, PageObject, Owed
  <1>2. CASE Save
    BY <1>2 DEF Save, PageInv, LoopInv, PageObject, Owed
  <1>3. CASE Restart
    <2>0. 1 \in Roles /\ 1 \in 1..NBuckets + 1 /\ restarts + 1 \in 0..MaxRestarts
      BY S3Assumption, <1>3 DEF Restart, LoopInv, Buckets
    <2>1. LoopInv'
      BY <1>3, <2>0 DEF Restart, LoopInv
    <2>2. Size[1] \in Nat
      BY S3Assumption DEF Buckets
    <2>3. PageInv'
      BY S3Assumption, <1>3, <2>2 DEF Restart, PageInv, NoPage, Buckets
    <2> QED
      BY <2>1, <2>3
  <1> QED
    BY <1>1, <1>2, <1>3

(* IInv is inductive.                                                      *)
LEMMA InductiveInv == IInv /\ [Next]_vars => IInv'
  <1>1. ASSUME IInv, UNCHANGED vars PROVE IInv'
    BY <1>1 DEF vars, scanVars, pageVars, markVars, hostVars, histVars, IInv,
                PageInv, LoopInv, PageObject, Owed
  <1> QED
    BY <1>1, ScanStepInv, JobStepInv, HostStepInv DEF Next, Finished

(* The state of the scan and of the checkpointer keeps its type, whatever  *)
(* fails, is cancelled or restarted.                                       *)
THEOREM TypeCorrect == Spec => []TypeOK
  <1>1. ASSUME IInv PROVE TypeOK
    <2>1. page \in [role : Roles, bucket : Buckets, first : Nat, last : Nat]
      BY <1>1 DEF IInv, PageInv
    <2>2. /\ next \in page.first .. page.last + 1 /\ low \in page.first .. page.last + 1
          /\ jobs \subseteq page.first .. page.last
          /\ completed \subseteq page.first .. page.last
      BY <1>1, <2>1 DEF IInv, PageInv
    <2> QED BY <1>1, <2>1, <2>2 DEF IInv, LoopInv, TypeOK
  <1> QED
    BY <1>1, InitInv, InductiveInv, PTL DEF Spec

(* UpdateObjectCompletion's promise, within a page: whatever the checkpoint *)
(* passes over has been scanned or needs no scan, and is not running.      *)
THEOREM MarkIsSafe == Spec => []MarkStaysBelowPending
  <1>1. IInv => MarkStaysBelowPending
    BY DEF IInv, PageInv, MarkStaysBelowPending
  <1> QED
    BY <1>1, InitInv, InductiveInv, PTL DEF Spec

-----------------------------------------------------------------------------
(***************************************************************************)
(* What a checkpoint passes over is done.  The scan visits roles, buckets  *)
(* and keys in order, so at every place of its loops all that lies before  *)
(* it is done; a checkpoint is such a place.                               *)
(***************************************************************************)

Done(o) == o[2] \in live /\ Owed(o) => o \in scanned \cup failed

Before(o, r, b, k) ==
    o[1] < r \/ (o[1] = r /\ (o[2] < b \/ (o[2] = b /\ o[3] <= k)))

DoneUpTo(r, b, k) == \A o \in Objects : Before(o, r, b, k) => Done(o)

(* The checkpoints at hand, and the page, were written at such a place.    *)
Written ==
    /\ \A c \in {info, held, saved, pos} \ {None} :
           DoneUpTo(c.role, c.bucket, c.startAfter)
    /\ DoneUpTo(page.role, page.bucket, page.first - 1)

(* The places of the scan's loops.  The information the second role starts *)
(* with is None: the end of the first cleared it, and no job runs then.    *)
PassInv == ~cancelled =>
    /\ pc = "role" => DoneUpTo(role, 1, 0) /\ (role = 1 \/ info = None)
    /\ pc \in {"bucket", "write"} => DoneUpTo(role, bucket, 0)
    /\ pc = "list" => DoneUpTo(role, bucket, listed)
    /\ pc = "page" => /\ page.role = role /\ page.bucket = bucket
                      /\ \A k \in page.first .. next - 1 :
                             k \in jobs \/ Done(PageObject(k))
    /\ pc = "done" => \A o \in Objects : Done(o)

(* A checkpoint that is behind the mark of the page, if it is of its bucket. *)
BehindMark(c) ==
    c # None /\ c.role = page.role /\ c.bucket = page.bucket => c.startAfter < low

(* The checkpoint is behind the mark of the page, also the copy scanBuckets  *)
(* holds while late jobs run, and behind the scan: it is the one the pass    *)
(* started from, or of a bucket the pass has visited.                        *)
Lead ==
    /\ pc = "page" \/ jobs # {} => BehindMark(info)
    /\ pc = "write" /\ jobs # {} => BehindMark(held)
    /\ ~cancelled /\ pc = "write" => held = info
    /\ ~cancelled /\ pc \in {"bucket", "write", "list", "page"} =>
           \/ info = pos
           \/ /\ info \in Checkpoints
              /\ info.role = role /\ info.bucket <= bucket
              /\ pc \in {"bucket", "write"} => info.bucket < bucket
    /\ /\ ~cancelled /\ pc = "list"
       /\ info # None /\ info.role = role /\ info.bucket = bucket
       => info.startAfter <= listed

CoverInv == Written /\ PassInv

(* An object is the triple of its role, bucket and key.                    *)
LEMMA ObjectShape ==
    ASSUME NEW o \in Objects
    PROVE  /\ o[1] \in Roles /\ o[2] \in Buckets /\ o[3] \in 1..Size[o[2]]
           /\ o = <<o[1], o[2], o[3]>>
           /\ o[1] \in Nat \ {0} /\ o[2] \in Nat \ {0} /\ o[3] \in Nat \ {0}
           /\ Size[o[2]] \in Nat
<1>1. /\ o[1] \in Roles /\ o[2] \in Buckets /\ o[3] \in 1..Size[o[2]]
      /\ o = <<o[1], o[2], o[3]>>
  BY DEF Objects
<1>2. Size[o[2]] \in Nat
  BY S3Assumption, <1>1
<1>3. o[1] \in Nat \ {0} /\ o[2] \in Nat \ {0}
  BY S3Assumption, <1>1 DEF Buckets
<1>4. o[3] \in Nat \ {0}
  BY <1>1, <1>2
<1> QED BY <1>1, <1>2, <1>3, <1>4

(* What is done stays done: nothing is unscanned, and no bucket returns.   *)
LEMMA DoneStays ==
    ASSUME [Next]_vars
    PROVE  /\ \A o : Done(o) => Done(o)'
           /\ \A r, b, k : DoneUpTo(r, b, k) => DoneUpTo(r, b, k)'
<1>1. scanned \subseteq scanned' /\ failed \subseteq failed' /\ live' \subseteq live
  BY DEF Next, ScanStep, JobStep, BeginRole, RoleRefused, ReadResumeInfo, BeginBucket, SkipBucket,
         EndRole, NextPage, EndBucket, SubmitSkipped, SubmitJob, EndPage,
         JobScans, JobFails, Cancel, Save, Restart, Finished, vars, scanVars,
         pageVars, hostVars, histVars
<1>2. \A o : Done(o) => Done(o)'
  BY <1>1 DEF Done, Owed
<1> QED BY <1>2 DEF DoneUpTo, Before

(* All that lies below the mark of the page is done.                       *)
LEMMA BelowMarkDone ==
    ASSUME PageInv, DoneUpTo(page.role, page.bucket, page.first - 1)
    PROVE  DoneUpTo(page.role, page.bucket, low - 1)
<1> SUFFICES ASSUME NEW o \in Objects, Before(o, page.role, page.bucket, low - 1),
                    ~Before(o, page.role, page.bucket, page.first - 1)
             PROVE  Done(o)
  BY DEF DoneUpTo
<1>1. o[1] = page.role /\ o[2] = page.bucket /\ ~(o[3] <= page.first - 1) /\ o[3] <= low - 1
  BY DEF Before
<1>2. page.first \in Nat /\ low \in Nat /\ o[3] \in Nat
  <2>1. page.first \in Nat /\ page.last \in Nat /\ low \in page.first .. page.last + 1
    BY DEF PageInv
  <2>2. o[3] \in Nat
    BY ObjectShape
  <2> QED BY <2>1, <2>2
<1>3. o[3] \in page.first .. low - 1
  BY <1>1, <1>2
<1>4. o = PageObject(o[3])
  BY <1>1, ObjectShape DEF PageObject
<1>5. Owed(o) => o \in scanned
  BY <1>3, <1>4 DEF PageInv
<1> QED BY <1>5 DEF Done

(* UpdateObjectCompletion writes the mark, or nothing.                     *)
LEMMA MarkWrites ==
    ASSUME NEW k, Mark(k)
    PROVE  \/ info' = info
           \/ info' = [role |-> page.role, bucket |-> page.bucket,
                       startAfter |-> low' - 1]
  BY DEF Mark

(* A new page starts where all before it is done.                          *)
LEMMA PageStep ==
    ASSUME IInv, CoverInv, [Next]_vars
    PROVE  DoneUpTo(page.role, page.bucket, page.first - 1)'
<1> USE DEF CoverInv, Written
<1>1. CASE page' = page
  <2>1. DoneUpTo(page.role, page.bucket, page.first - 1)
    OBVIOUS
  <2> QED BY <1>1, <2>1, DoneStays
<1>2. CASE NextPage
  <2>1. DoneUpTo(role, bucket, listed) /\ listed \in Nat
    BY <1>2 DEF NextPage, PassInv, IInv, LoopInv
  <2>2. page'.role = role /\ page'.bucket = bucket /\ page'.first - 1 = listed
    BY <1>2, <2>1 DEF NextPage
  <2> QED BY <2>1, <2>2, DoneStays
<1>3. CASE Restart
  <2>1. page'.role = 1 /\ page'.bucket = 1 /\ page'.first - 1 = 0
    BY <1>3 DEF Restart, NoPage
  <2>2. \A o \in Objects : ~Before(o, 1, 1, 0)
    BY S3Assumption, ObjectShape DEF Before, Buckets
  <2> QED BY <2>1, <2>2 DEF DoneUpTo
<1> QED BY <1>1, <1>2, <1>3
        DEF Next, ScanStep, JobStep, BeginRole, RoleRefused, ReadResumeInfo,
            BeginBucket, SkipBucket, EndRole, EndBucket, SubmitSkipped, SubmitJob, EndPage,
            JobScans, JobFails, Cancel, Save, Finished, vars, scanVars, pageVars

(* So does every checkpoint that is written, saved or taken up again.      *)
LEMMA WrittenStep ==
    ASSUME IInv, CoverInv, [Next]_vars
    PROVE  Written'
<1> USE DEF CoverInv, Written
<1>0. /\ \A c \in {info, held, saved, pos} \ {None} : DoneUpTo(c.role, c.bucket, c.startAfter)'
  BY DoneStays
<1>1. DoneUpTo(page.role, page.bucket, page.first - 1)'
  BY PageStep
<1>2. ASSUME {info', held', saved', pos'} \subseteq {info, held, saved, pos, None}
      PROVE  Written'
  <2>1. \A c \in {info', held', saved', pos'} \ {None} : c \in {info, held, saved, pos} \ {None}
    BY <1>2
  <2> QED BY <1>0, <1>1, <2>1
<1>3. ASSUME NEW k, Mark(k), UNCHANGED <<page, held, saved, pos>> PROVE Written'
  <2>1. CASE info' = info
    BY <1>2, <1>3, <2>1
  <2>2. CASE info' = [role |-> page.role, bucket |-> page.bucket,
                      startAfter |-> low' - 1]
    <3>1. DoneUpTo(page.role, page.bucket, low - 1)'
      <4>1. PageInv'
        BY InductiveInv DEF IInv
      <4> QED BY <1>1, <4>1, BelowMarkDone, PTL
    <3>2. DoneUpTo(info.role, info.bucket, info.startAfter)'
      BY <1>3, <2>2, <3>1
    <3>3. \A c \in {info', held', saved', pos'} \ {None} :
              c = info' \/ c \in {info, held, saved, pos} \ {None}
      BY <1>3
    <3> QED BY <1>0, <1>1, <3>2, <3>3
  <2> QED BY <1>3, <2>1, <2>2, MarkWrites
<1>4. CASE SubmitSkipped
  BY <1>3, <1>4 DEF SubmitSkipped, scanVars, hostVars
<1>5. ASSUME NEW k \in jobs, JobScans(k) PROVE Written'
  BY <1>3, <1>5 DEF JobScans, scanVars, hostVars
<1>6. CASE \/ BeginRole \/ RoleRefused \/ ReadResumeInfo \/ BeginBucket \/ SkipBucket
           \/ EndRole \/ NextPage \/ EndBucket
  BY <1>2, <1>6 DEF BeginRole, RoleRefused, ReadResumeInfo, BeginBucket, SkipBucket, EndRole,
                    NextPage, EndBucket, Readable, hostVars
<1>7. CASE SubmitJob \/ EndPage \/ Cancel \/ Save \/ Restart \/ UNCHANGED vars
  BY <1>2, <1>7 DEF SubmitJob, EndPage, Cancel, Save, Restart, vars, scanVars, hostVars
<1>8. ASSUME NEW k \in jobs, JobFails(k) PROVE Written'
  BY <1>2, <1>8 DEF JobFails, scanVars, hostVars
<1> QED BY <1>4, <1>5, <1>6, <1>7, <1>8 DEF Next, ScanStep, JobStep, Finished

(* Between b and the first listed bucket from b on there are objects of    *)
(* buckets that are gone, and of no other.                                 *)
LEMMA OverGone ==
    ASSUME LoopInv, NEW r, NEW b \in Nat, NEW o \in Objects,
           Before(o, r, From(b), 0), ~Before(o, r, b, 0)
    PROVE  o[2] \notin live
<1>1. o[2] \in Nat /\ o[3] \in Nat \ {0}
  <2>1. o[2] \in Buckets /\ o[3] \in 1..Size[o[2]]
    BY ObjectShape
  <2>2. Size[o[2]] \in Nat
    BY S3Assumption, <2>1 DEF Buckets
  <2> QED BY S3Assumption, <2>1, <2>2 DEF Buckets
<1>2. o[2] \in live /\ o[2] < From(b) => o[2] < b
  BY FromType DEF LoopInv
<1> QED BY <1>1, <1>2 DEF Before

(* A pass goes on at the first listed bucket.                              *)
LEMMA SkipGone ==
    ASSUME LoopInv, NEW b \in Nat, DoneUpTo(role, b, 0)
    PROVE  DoneUpTo(role, From(b), 0)
  BY OverGone DEF DoneUpTo, Done

(* After a pass over a bucket its objects are done.                        *)
LEMMA BucketOver ==
    ASSUME NEW r, NEW b \in Buckets, NEW k \in Nat, k >= Size[b],
           DoneUpTo(r, b, k)
    PROVE  DoneUpTo(r, b + 1, 0)
<1> SUFFICES ASSUME NEW o \in Objects, Before(o, r, b + 1, 0)
             PROVE  Before(o, r, b, k)
  BY DEF DoneUpTo
<1>1. /\ o[2] \in Nat /\ o[3] \in Nat \ {0} /\ b \in Nat
      /\ o[2] = b => o[3] <= Size[b]
  <2>1. /\ o[2] \in Nat \ {0} /\ o[3] \in 1..Size[o[2]] /\ o[3] \in Nat \ {0}
        /\ Size[o[2]] \in Nat
    BY ObjectShape
  <2>2. b \in Nat
    BY DEF Buckets
  <2> QED BY <2>1, <2>2
<1>2. Size[b] \in Nat
  BY S3Assumption DEF Buckets
<1> QED BY <1>1, <1>2 DEF Before

(* The places of the loops keep what is behind them done.                  *)
LEMMA PassStep ==
    ASSUME IInv, CoverInv, [Next]_vars
    PROVE  PassInv'
<1> USE DEF CoverInv, PassInv
<1>0. /\ PageInv /\ LoopInv
      /\ \A o : Done(o) => Done(o)'
      /\ \A r, b, k : DoneUpTo(r, b, k) => DoneUpTo(r, b, k)'
  BY DoneStays DEF IInv
<1> SUFFICES ASSUME ~cancelled' PROVE PassInv'
  OBVIOUS
<1>1. CASE BeginRole
  <2>1. ~cancelled /\ UNCHANGED role /\ pos' = info
    BY <1>0, <1>1 DEF BeginRole, Readable, LoopInv, hostVars
  <2>2. DoneUpTo(role, 1, 0) /\ (role = 1 \/ info = None)
    BY <1>1, <2>1 DEF BeginRole
  <2>3. CASE info = None
    <3>1. bucket' = From(1) /\ pc' = "bucket"
      BY <1>1, <2>1, <2>3 DEF BeginRole
    <3>2. DoneUpTo(role, From(1), 0)
      BY <1>0, <2>2, SkipGone
    <3> QED BY <1>0, <2>1, <3>1, <3>2
  <2>4. CASE info # None
    <3>1. bucket' = From(info.bucket) /\ pc' = "bucket"
      BY <1>1, <2>1, <2>4 DEF BeginRole
    <3>2. /\ info.role \in Nat \ {0} /\ info.bucket \in Nat
          /\ info.startAfter \in Nat /\ role = 1
      BY S3Assumption, <1>0, <2>2, <2>4 DEF LoopInv, Checkpoints, Buckets
    <3>3. DoneUpTo(role, info.bucket, 0)
      <4> SUFFICES ASSUME NEW o \in Objects, Before(o, role, info.bucket, 0)
                   PROVE  Before(o, info.role, info.bucket, info.startAfter)
        BY <2>4 DEF Written, DoneUpTo
      <4>1. o[1] \in Nat \ {0} /\ o[2] \in Nat /\ o[3] \in Nat \ {0}
        BY ObjectShape
      <4> QED BY <3>2, <4>1 DEF Before
    <3>4. DoneUpTo(role, From(info.bucket), 0)
      BY <1>0, <3>2, <3>3, SkipGone
    <3> QED BY <1>0, <2>1, <3>1, <3>4
  <2> QED BY <2>3, <2>4
<1>2. CASE RoleRefused
  BY <1>2 DEF RoleRefused
<1>2r. CASE ReadResumeInfo
  BY <1>0, <1>2r DEF ReadResumeInfo, pageVars, hostVars, histVars
<1>3. CASE BeginBucket
  <2>1. /\ pc = "write" /\ pc' = "list" /\ listed' = StartAfter /\ ~cancelled
        /\ UNCHANGED <<role, bucket>>
    BY <1>3 DEF BeginBucket
  <2>2. DoneUpTo(role, bucket, StartAfter)
    <3>1. CASE pos # None /\ pos.bucket = bucket /\ pos.role = role
      BY <3>1 DEF StartAfter, Written
    <3>2. CASE ~(pos # None /\ pos.bucket = bucket /\ pos.role = role)
      BY <2>1, <3>2 DEF StartAfter
    <3> QED BY <3>1, <3>2
  <2> QED BY <1>0, <2>1, <2>2
<1>4. CASE SkipBucket
  BY <1>4 DEF SkipBucket, hostVars
<1>5. CASE EndRole
  <2>1. DoneUpTo(role, bucket, 0) /\ bucket = NBuckets + 1 /\ info' = None
    BY S3Assumption, <1>0, <1>5 DEF EndRole, hostVars, LoopInv, Buckets
  <2>2. \A o \in Objects : o[1] <= role => Done(o)
    <3> SUFFICES ASSUME NEW o \in Objects, o[1] <= role
                 PROVE  Before(o, role, bucket, 0)
      BY <2>1 DEF DoneUpTo
    <3>1. o[1] \in Nat /\ role \in Nat /\ o[2] \in Nat /\ o[2] < NBuckets + 1
      <4>1. o[1] \in Nat /\ o[2] \in Buckets /\ o[2] \in Nat
        BY ObjectShape
      <4>2. role \in Nat
        BY S3Assumption, <1>0 DEF LoopInv
      <4>3. NBuckets \in Nat
        BY S3Assumption
      <4> QED BY <4>1, <4>2, <4>3 DEF Buckets
    <3> QED BY <2>1, <3>1 DEF Before
  <2>3. CASE role < NRoles
    <3>1. DoneUpTo(role + 1, 1, 0)
      <4> SUFFICES ASSUME NEW o \in Objects, Before(o, role + 1, 1, 0)
                   PROVE  o[1] <= role
        BY <2>2 DEF DoneUpTo
      <4>1. o[1] \in Nat /\ role \in Nat /\ o[2] \in Nat \ {0} /\ o[3] \in Nat \ {0}
        <5>1. role \in Nat
          BY S3Assumption, <1>0 DEF LoopInv
        <5> QED BY <5>1, ObjectShape
      <4> QED BY <4>1 DEF Before
    <3>2. role' = role + 1 /\ pc' = "role"
      BY <1>5, <2>3 DEF EndRole
    <3> QED BY <1>0, <2>1, <3>1, <3>2
  <2>4. CASE ~(role < NRoles)
    <3>1. pc' = "done"
      BY <1>5, <2>4 DEF EndRole
    <3>2. \A o \in Objects : o[1] <= role
      BY S3Assumption, <1>0, <2>4, ObjectShape DEF LoopInv, Buckets
    <3>3. \A o \in Objects : Done(o)'
      BY <1>0, <2>2, <3>2
    <3>4. Objects' = Objects
      BY DEF Objects
    <3> QED BY <3>1, <3>3, <3>4
  <2> QED BY <2>3, <2>4
<1>6. CASE NextPage
  <2>1. /\ pc' = "page" /\ page'.role = role /\ page'.bucket = bucket
        /\ page'.first = listed + 1 /\ next' = listed + 1
        /\ UNCHANGED <<role, bucket>> /\ listed \in Nat
    BY <1>0, <1>6 DEF NextPage, LoopInv
  <2>2. page'.first .. next' - 1 = {}
    BY <2>1
  <2> QED BY <2>1, <2>2
<1>7. CASE EndBucket
  <2>1. /\ DoneUpTo(role, bucket, listed) /\ bucket \in Buckets /\ listed \in Nat
        /\ pc' = "bucket" /\ UNCHANGED role /\ bucket' = From(bucket + 1)
        /\ role \in Roles /\ LoopInv' /\ live' = live
    BY <1>0, <1>7, InductiveInv DEF EndBucket, hostVars, LoopInv, IInv
  <2>2. ASSUME NEW o \in Objects, Before(o, role, bucket + 1, 0) PROVE Done(o)'
    <3>1. CASE Before(o, role, bucket, listed)
      BY <1>0, <2>1, <3>1 DEF DoneUpTo
    <3>2. CASE listed >= Size[bucket]
      BY <1>0, <2>1, <2>2, <3>2, BucketOver DEF DoneUpTo
    <3>3. CASE ~(listed >= Size[bucket]) /\ ~Before(o, role, bucket, listed)
      <4>1. failed' = failed \cup {<<role, bucket, k>> : k \in listed + 1 .. Size[bucket]}
        BY <1>7, <3>3 DEF EndBucket, hostVars
      <4>2. o[2] \in Buckets /\ o[3] \in 1..Size[o[2]] /\ o = <<o[1], o[2], o[3]>>
        BY ObjectShape
      <4>3. Size[o[2]] \in Nat /\ Size[bucket] \in Nat
        BY S3Assumption, <2>1, <4>2 DEF Buckets
      <4>4. o[1] = role /\ o[2] = bucket /\ o[3] \in listed + 1 .. Size[bucket]
        <5>1. /\ o[1] \in Nat /\ o[2] \in Nat /\ o[3] \in Nat
              /\ role \in Nat /\ bucket \in Nat /\ listed \in Nat
          <6>1. role \in Nat /\ bucket \in Nat
            BY S3Assumption, <2>1 DEF Buckets
          <6> QED BY <2>1, <6>1, ObjectShape
        <5>2. o[1] = role /\ o[2] = bucket /\ ~(o[3] <= listed)
          BY <2>2, <3>3, <4>2, <5>1 DEF Before
        <5> QED BY <4>2, <4>3, <5>1, <5>2
      <4>5. o \in failed'
        BY <4>1, <4>2, <4>4
      <4> QED BY <4>5 DEF Done
    <3> QED BY <3>1, <3>2, <3>3
  <2>3. ASSUME NEW o \in Objects, Before(o, role, From(bucket + 1), 0)
        PROVE  Done(o)'
    <3>1. bucket + 1 \in Nat
      BY S3Assumption, <2>1 DEF Buckets
    <3>2. CASE Before(o, role, bucket + 1, 0)
      BY <2>2, <3>2
    <3>3. CASE ~Before(o, role, bucket + 1, 0)
      BY <1>0, <2>1, <2>3, <3>1, <3>3, OverGone DEF Done
    <3> QED BY <3>2, <3>3
  <2> QED BY <2>1, <2>3 DEF DoneUpTo, Before, Objects
<1>8. CASE SubmitSkipped
  <2>1. /\ pc = "page" /\ UNCHANGED <<pc, role, bucket, page, jobs, cancelled>>
        /\ next' = next + 1 /\ <<page.bucket, next>> \in Skippable
        /\ page.first \in Nat /\ next \in Nat
    BY <1>0, <1>8 DEF SubmitSkipped, scanVars, hostVars, PageInv
  <2>2. Done(PageObject(next))
    BY <2>1 DEF Done, Owed, PageObject
  <2>3. ASSUME NEW k \in page.first .. next PROVE k \in jobs \/ Done(PageObject(k))
    <3>1. CASE k = next
      BY <2>2, <3>1
    <3>2. CASE k # next
      <4>1. k \in page.first .. next - 1
        BY <2>1, <3>2
      <4> QED BY <2>1, <4>1
    <3> QED BY <3>1, <3>2
  <2> QED BY <1>0, <2>1, <2>3 DEF PageObject
<1>9. CASE SubmitJob
  <2>1. /\ pc = "page" /\ UNCHANGED <<pc, role, bucket, page, cancelled>>
        /\ next' = next + 1 /\ jobs' = jobs \cup {next}
        /\ page.first \in Nat /\ next \in Nat
    BY <1>0, <1>9 DEF SubmitJob, scanVars, hostVars, PageInv
  <2>2. ASSUME NEW k \in page.first .. next PROVE k \in jobs' \/ Done(PageObject(k))
    <3>1. CASE k = next
      BY <2>1, <3>1
    <3>2. CASE k # next
      <4>1. k \in page.first .. next - 1
        BY <2>1, <3>2
      <4> QED BY <2>1, <4>1
    <3> QED BY <3>1, <3>2
  <2> QED BY <1>0, <2>1, <2>2 DEF PageObject
<1>10. CASE EndPage
  <2>1. /\ ~cancelled /\ page.role = role /\ page.bucket = bucket
        /\ next = page.last + 1 /\ jobs = {} /\ pc' = "list" /\ listed' = page.last
        /\ UNCHANGED <<role, bucket>>
    BY <1>0, <1>10 DEF EndPage, hostVars, PageInv
  <2>2. page.first \in Nat /\ page.last \in Nat
    BY <1>0 DEF PageInv
  <2>3. DoneUpTo(role, bucket, page.last)
    <3> SUFFICES ASSUME NEW o \in Objects, Before(o, role, bucket, page.last),
                        ~Before(o, role, bucket, page.first - 1)
                 PROVE  Done(o)
      BY <2>1 DEF Written, DoneUpTo
    <3>1. o[2] \in Buckets /\ o[3] \in 1..Size[o[2]] /\ o = <<o[1], o[2], o[3]>>
      BY ObjectShape
    <3>2. Size[o[2]] \in Nat
      BY S3Assumption, <3>1 DEF Buckets
    <3>3. o[3] \in page.first .. next - 1 /\ o[1] = role /\ o[2] = bucket
      BY <2>1, <2>2, <3>1, <3>2 DEF Before
    <3>4. o = PageObject(o[3])
      BY <2>1, <3>1, <3>3 DEF PageObject
    <3> QED BY <1>10, <2>1, <3>3, <3>4 DEF EndPage
  <2> QED BY <1>0, <2>1, <2>3
<1>11. CASE JobStep
  <2>1. PICK k \in jobs : JobScans(k) \/ JobFails(k)
    BY <1>11 DEF JobStep
  <2>2. /\ UNCHANGED <<pc, role, bucket, page, next, cancelled>> /\ jobs' = jobs \ {k}
        /\ PageObject(k) \in scanned' \cup failed'
    BY <2>1 DEF JobScans, JobFails, scanVars, hostVars
  <2>3. pc = "page"
    BY <1>0, <2>2 DEF LoopInv
  <2>4. Done(PageObject(k))'
    BY <2>2 DEF Done, PageObject
  <2>5. ASSUME NEW i \in page.first .. next - 1
        PROVE  i \in jobs' \/ Done(PageObject(i))'
    <3>1. CASE i = k
      BY <2>4, <3>1
    <3>2. CASE i # k
      <4>1. i \in jobs' \/ Done(PageObject(i))
        BY <2>2, <2>3, <3>2
      <4>2. PageObject(i)' = PageObject(i)
        BY <2>2 DEF PageObject
      <4> QED BY <1>0, <4>1, <4>2
    <3> QED BY <3>1, <3>2
  <2> QED BY <2>2, <2>3, <2>5
<1>12. CASE Cancel
  BY <1>12 DEF Cancel
<1>13. CASE Save \/ UNCHANGED vars
  <2>1. UNCHANGED <<scanVars, pageVars, histVars, info, cancelled>>
    BY <1>13 DEF Save, vars, hostVars
  <2> QED BY <2>1 DEF scanVars, pageVars, histVars, DoneUpTo, Done, Before, Owed, PageObject, Objects
<1>14. CASE Restart
  <2>1. pc' = "role" /\ role' = 1
    BY <1>14 DEF Restart
  <2>2. \A o \in Objects : ~Before(o, 1, 1, 0)
    BY S3Assumption, ObjectShape DEF Before, Buckets
  <2>3. DoneUpTo(1, 1, 0)
    BY <2>2 DEF DoneUpTo
  <2> QED BY <1>0, <2>1, <2>3
<1> QED
  BY <1>1, <1>2, <1>2r, <1>3, <1>4, <1>5, <1>6, <1>7, <1>8, <1>9, <1>10, <1>11,
     <1>12, <1>13, <1>14 DEF Next, ScanStep, Finished

(* All that the scan has behind it stays done.                             *)
LEMMA CoverInvariance == Spec => [](IInv /\ CoverInv)
<1>1. Init => CoverInv
  <2> SUFFICES ASSUME Init PROVE CoverInv
    OBVIOUS
  <2>1. \A o \in Objects : ~Before(o, 1, 1, 0)
    BY S3Assumption, ObjectShape DEF Before, Buckets
  <2>2. DoneUpTo(1, 1, 0)
    BY <2>1 DEF DoneUpTo
  <2>3. page.first - 1 = 0 /\ page.role = 1 /\ page.bucket = 1
    BY DEF Init, NoPage
  <2> QED BY <2>2, <2>3 DEF Init, CoverInv, Written, PassInv
<1>2. IInv /\ CoverInv /\ [Next]_vars => CoverInv'
  BY WrittenStep, PassStep DEF CoverInv
<1> QED BY <1>1, <1>2, InitInv, InductiveInv, PTL DEF Spec

(* A scan that ends without being cancelled has done every object it owes, *)
(* however often it was interrupted and from whatever it was resumed.      *)
THEOREM NothingIsMissed == Spec => []CompleteScanMissesNothing
<1>1. CoverInv => CompleteScanMissesNothing
  BY DEF CoverInv, PassInv, Done, CompleteScanMissesNothing
<1> QED BY <1>1, CoverInvariance, PTL

(* All that a checkpoint, current or saved, passes over has been done.     *)
THEOREM CheckpointsAreSafe == Spec => []CheckpointCoversDone
<1>1. CoverInv => CheckpointCoversDone
  <2> SUFFICES ASSUME CoverInv, NEW c \in {info, saved} \ {None},
                      NEW o \in Covered(c)
               PROVE  Done(o)
    BY DEF CheckpointCoversDone, Done
  <2>1. o \in Objects /\ Before(o, c.role, c.bucket, c.startAfter)
    BY DEF Covered, Before
  <2> QED BY <2>1 DEF CoverInv, Written, DoneUpTo
<1> QED BY <1>1, CoverInvariance, PTL

-----------------------------------------------------------------------------
(***************************************************************************)
(* A checkpoint falls back only where an older copy is written back.       *)
(***************************************************************************)

(* The mark of a page does not fall back either.                           *)
LEMMA MarkAdvances ==
    ASSUME PageInv, NEW k \in page.first .. page.last, Mark(k)
    PROVE  low' >= low /\ low \in Nat
<1>1. page.first \in Nat /\ page.last \in Nat /\ low \in page.first .. page.last + 1
  BY DEF PageInv
<1>2. CASE k # low
  BY <1>1, <1>2 DEF Mark
<1>3. CASE k = low
  <2> DEFINE open == {n \in k + 1 .. page.last + 1 : n \notin completed'}
             Next0(n) == n \notin completed' /\ k + 1 .. n - 1 \subseteq completed'
  <2>1. completed' = completed \cup {k}
    BY DEF Mark
  <2>2. page.last + 1 \in open /\ open \subseteq Nat
    <3>1. completed' \subseteq page.first .. page.last
      BY <2>1 DEF PageInv
    <3>2. k \in Nat /\ page.last + 1 \in k + 1 .. page.last + 1
      BY <1>1
    <3>3. page.last + 1 \notin completed'
      BY <1>1, <3>1
    <3> QED BY <1>1, <3>2, <3>3
  <2>3. PICK m \in open : \A n \in open : m <= n
    <3> HIDE DEF open
    <3> QED BY <2>2, LeastElement
  <2>4. m \in k + 1 .. page.last + 1 /\ Next0(m)
    BY <1>1, <2>3
  <2>5. low' = CHOOSE n \in k + 1 .. page.last + 1 : Next0(n)
    BY <1>3, Zenon DEF Mark
  <2>6. low' \in k + 1 .. page.last + 1
    <3> HIDE DEF Next0
    <3> QED BY <2>4, <2>5
  <2> QED BY <1>1, <1>3, <2>6
<1> QED BY <1>2, <1>3

(* A completed object leaves the checkpoint where it was or moves it up to *)
(* the mark.                                                               *)
LEMMA LeadOnMark ==
    ASSUME IInv, Lead, NEW k \in page.first .. page.last, Mark(k),
           UNCHANGED <<page, role, bucket, pos, pc, listed, held, cancelled>>,
           pc = "page" \/ jobs # {},
           ~cancelled => pc = "page" /\ page.role = role /\ page.bucket = bucket
    PROVE  Lead'
<1>1. low' >= low /\ low \in Nat /\ PageInv /\ LoopInv /\ low' \in Nat
  <2>1. /\ page.first \in Nat /\ page.last \in Nat
        /\ low' \in page.first .. page.last + 1
    BY MarkStep DEF IInv, PageInv
  <2> QED BY <2>1, MarkAdvances DEF IInv
<1>h. \A c \in {info, held} : BehindMark(c) => BehindMark(c)'
  <2>1. \A c \in {info, held} : c # None => c.startAfter \in Nat
    BY <1>1 DEF LoopInv, Checkpoints
  <2> QED BY <1>1, <2>1 DEF BehindMark
<1>2. CASE info' = info
  <2> QED BY <1>1, <1>h, <1>2 DEF Lead, BehindMark
<1>3. CASE info' = [role |-> page.role, bucket |-> page.bucket,
                    startAfter |-> low' - 1]
  <2>1. page.role \in Roles /\ page.bucket \in Buckets /\ page.first \in Nat
    BY <1>1 DEF PageInv
  <2>2. low' - 1 \in Nat /\ low' - 1 < low'
    <3>1. low' \in page.first .. page.last + 1 /\ page.last \in Nat /\ page.first >= 1
      BY <1>1, MarkStep DEF PageInv
    <3> QED BY <2>1, <3>1, LastBelowMark
  <2>3. /\ info' \in Checkpoints /\ info'.role = page.role
        /\ info'.bucket = page.bucket /\ info'.startAfter = low' - 1
    BY <1>3, <2>1, <2>2 DEF Checkpoints
  <2> QED BY S3Assumption, <1>h, <2>1, <2>2, <2>3 DEF Lead, BehindMark, Buckets
<1> QED BY <1>2, <1>3, MarkWrites

(* Every step keeps the lead of the mark and of the scan.                  *)
LEMMA LeadStep ==
    ASSUME IInv, CoverInv, Lead, [Next]_vars
    PROVE  Lead'
<1>0. /\ PageInv /\ LoopInv
      /\ ~cancelled /\ pc = "page" => page.role = role /\ page.bucket = bucket
  BY DEF IInv, CoverInv, PassInv
<1>t. /\ \A c \in {info, held, pos, saved} \ {None} :
             c.role \in Nat /\ c.bucket \in Nat /\ c.startAfter \in Nat
      /\ \A c \in {info, held, pos, saved} \ {None} : c.bucket <= NBuckets
      /\ role \in Nat /\ bucket \in Nat /\ listed \in Nat
      /\ page.first \in Nat /\ page.last \in Nat /\ low \in page.first .. page.last + 1
  <2>1. {info, held, pos, saved} \subseteq Checkpoints \cup {None}
    BY <1>0 DEF LoopInv
  <2>2. \A c \in Checkpoints : /\ c.role \in Nat /\ c.bucket \in Nat
                               /\ c.startAfter \in Nat /\ c.bucket <= NBuckets
    BY S3Assumption DEF Checkpoints, Buckets
  <2>3. role \in Nat /\ bucket \in Nat /\ listed \in Nat
    BY <1>0 DEF LoopInv
  <2>4. page.first \in Nat /\ page.last \in Nat /\ low \in page.first .. page.last + 1
    BY <1>0 DEF PageInv
  <2> QED BY <2>1, <2>2, <2>3, <2>4
<1>1. CASE BeginRole
  <2>1. ~cancelled => pos' = info
    BY <1>0, <1>1 DEF BeginRole, Readable, LoopInv
  <2> QED BY <1>1, <2>1 DEF Lead, BehindMark, BeginRole, pageVars, markVars, hostVars
<1>2. CASE RoleRefused
  BY <1>2 DEF Lead, BehindMark, RoleRefused, pageVars, markVars, hostVars
<1>2r. CASE ReadResumeInfo
  <2>1. held' \in {info, None} /\ (jobs = {} => held' = info)
    BY <1>2r DEF ReadResumeInfo, Readable
  <2>2. ~cancelled => jobs = {}
    BY <1>0, <1>2r DEF ReadResumeInfo, LoopInv
  <2>3. /\ pc = "bucket" /\ pc' = "write"
        /\ UNCHANGED <<role, bucket, pos, info, page, jobs, low, cancelled>>
    BY <1>2r DEF ReadResumeInfo, pageVars, markVars, hostVars
  <2> QED BY <2>1, <2>2, <2>3 DEF Lead, BehindMark
<1>3. CASE BeginBucket
  <2>1. /\ pc = "write" /\ pc' = "list" /\ ~cancelled /\ listed' = StartAfter
        /\ UNCHANGED <<role, bucket, pos, info, page, jobs, low, cancelled>>
        /\ jobs = {}
    BY <1>0, <1>3 DEF BeginBucket, pageVars, markVars, hostVars, LoopInv, Lead
  <2>2. \/ info = pos
        \/ info \in Checkpoints /\ info.role = role /\ info.bucket < bucket
    BY <2>1 DEF Lead, BehindMark
  <2>3. CASE info = pos
    BY <1>t, <2>1, <2>3 DEF Lead, BehindMark, StartAfter
  <2>4. CASE info # pos
    <3>1. /\ info \in Checkpoints /\ info.role = role /\ info.bucket <= bucket
          /\ info.bucket # bucket
      BY S3Assumption, <1>t, <2>2, <2>4 DEF Checkpoints, Buckets
    <3> QED BY <2>1, <3>1 DEF Lead, BehindMark
  <2> QED BY <2>3, <2>4
<1>4. CASE SkipBucket
  BY <1>4 DEF Lead, BehindMark, SkipBucket, pageVars, markVars, hostVars
<1>5. CASE EndRole
  <2>1. /\ info' = None /\ pc' \in {"role", "done"}
    BY <1>5 DEF EndRole
  <2> QED BY <2>1 DEF Lead, BehindMark
<1>6. CASE NextPage
  <2>1. /\ pc = "list" /\ pc' = "page" /\ ~cancelled /\ low' = listed + 1
        /\ page'.role = role /\ page'.bucket = bucket
        /\ UNCHANGED <<role, bucket, pos, info, cancelled>>
    BY <1>6 DEF NextPage, hostVars
  <2>2. info # None /\ info.role = role /\ info.bucket = bucket => info.startAfter <= listed
    BY <2>1 DEF Lead, BehindMark
  <2>3. info = pos \/ (info \in Checkpoints /\ info.role = role /\ info.bucket <= bucket)
    BY <2>1 DEF Lead, BehindMark
  <2> QED BY <1>t, <2>1, <2>2, <2>3 DEF Lead, BehindMark
<1>7. CASE EndBucket
  <2>1. /\ pc = "list" /\ pc' = "bucket" /\ bucket' = From(bucket + 1) /\ bucket \in Buckets
        /\ UNCHANGED <<role, pos, info, page, jobs, low, cancelled>>
    BY <1>0, <1>7 DEF EndBucket, pageVars, markVars, hostVars, LoopInv
  <2>2. bucket' \in Nat /\ bucket' > bucket
    <3>1. bucket + 1 \in Nat
      BY <1>t
    <3>2. /\ bucket' \in 1..NBuckets + 1
          /\ bucket' = NBuckets + 1 \/ bucket' >= bucket + 1
      BY <1>0, <2>1, <3>1, FromType DEF LoopInv
    <3> QED BY S3Assumption, <2>1, <3>2 DEF Buckets
  <2>3. ~cancelled =>
            info = pos \/ (info \in Checkpoints /\ info.role = role /\ info.bucket <= bucket)
    BY <2>1 DEF Lead, BehindMark
  <2>4. ASSUME ~cancelled, info # pos
        PROVE  /\ info \in Checkpoints /\ info.role = role
               /\ info.bucket <= bucket' /\ info.bucket < bucket'
    <3>1. info \in Checkpoints => info.bucket \in Nat
      BY S3Assumption DEF Checkpoints, Buckets
    <3> QED BY <1>t, <2>2, <2>3, <2>4, <3>1
  <2> QED BY <1>t, <2>1, <2>2, <2>4 DEF Lead, BehindMark
<1>8. CASE SubmitSkipped
  <2>1. next \in page.first .. page.last
    BY <1>0, <1>8 DEF SubmitSkipped, PageInv
  <2> QED BY <1>0, <1>8, <2>1, LeadOnMark DEF SubmitSkipped, scanVars, hostVars
<1>9. CASE SubmitJob
  BY <1>9 DEF Lead, BehindMark, SubmitJob, scanVars, markVars, hostVars
<1>10. CASE EndPage
  <2>1. /\ pc = "page" /\ pc' = "list" /\ listed' = page.last
        /\ UNCHANGED <<role, bucket, pos, info, page, jobs, low, cancelled>>
    BY <1>10 DEF EndPage, pageVars, markVars, hostVars
  <2>2. info # None /\ info.role = page.role /\ info.bucket = page.bucket
            => info.startAfter < low
    BY <2>1 DEF Lead, BehindMark
  <2>3. ASSUME ~cancelled, info # None, info.role = role, info.bucket = bucket
        PROVE  info.startAfter <= page.last
    BY <1>0, <1>t, <2>1, <2>2, <2>3
  <2> QED BY <2>1, <2>2, <2>3 DEF Lead, BehindMark
<1>11. ASSUME NEW k \in jobs, JobScans(k) PROVE Lead'
  <2>1. k \in page.first .. page.last
    BY <1>0, <1>t DEF PageInv
  <2>2. ~cancelled => pc = "page"
    BY <1>0, <1>11 DEF LoopInv
  <2> QED BY <1>0, <1>11, <2>1, <2>2, LeadOnMark DEF JobScans, scanVars, hostVars
<1>12. ASSUME NEW k \in jobs, JobFails(k) PROVE Lead'
  BY <1>12 DEF Lead, BehindMark, JobFails, scanVars, markVars, hostVars
<1>13. CASE Cancel
  BY <1>13 DEF Lead, BehindMark, Cancel, scanVars, pageVars, markVars
<1>14. CASE Save \/ UNCHANGED vars
  BY <1>14 DEF Lead, BehindMark, Save, vars, scanVars, pageVars, markVars, hostVars
<1>15. CASE Restart
  BY <1>15 DEF Lead, BehindMark, Restart
<1> QED
  BY <1>1, <1>2, <1>2r, <1>3, <1>4, <1>5, <1>6, <1>7, <1>8, <1>9, <1>10, <1>11,
     <1>12, <1>13, <1>14, <1>15 DEF Next, ScanStep, JobStep, Finished

(* While a scan runs its checkpoint does not fall back in a bucket, but    *)
(* where scanBuckets writes back what it read before a late job's write.   *)
THEOREM CheckpointsAdvance == Spec => CheckpointAdvances
<1>1. Init => Lead
  BY DEF Init, Lead
<1>2. IInv /\ CoverInv /\ Lead /\ [Next]_vars =>
        [info # None /\ info' # None /\ restarts' = restarts
           /\ info.role = info'.role /\ info.bucket = info'.bucket
         => info'.startAfter >= info.startAfter \/ SkipBucket]_vars
  <2> SUFFICES ASSUME IInv, Lead, Next, info # None, info' # None, ~SkipBucket,
                      restarts' = restarts, info' # info,
                      info.role = info'.role, info.bucket = info'.bucket
               PROVE  info'.startAfter >= info.startAfter
    <3>1. IInv /\ info # None => info.startAfter \in Nat
      BY DEF IInv, LoopInv, Checkpoints
    <3>2. UNCHANGED vars => info' = info
      BY DEF vars
    <3> QED BY <3>1, <3>2
  <2>1. PageInv /\ restarts \in Nat
    BY DEF IInv, LoopInv
  <2>2. PICK k \in page.first .. page.last : Mark(k) /\ (pc = "page" \/ jobs # {})
    <3>1. CASE SubmitSkipped
      BY <2>1, <3>1 DEF SubmitSkipped, PageInv
    <3>2. CASE JobStep
      <4>1. PICK k \in jobs : JobScans(k)
        BY <3>2 DEF JobStep, JobFails
      <4>2. k \in page.first .. page.last
        BY <2>1 DEF PageInv
      <4> QED BY <4>1, <4>2 DEF JobScans
    <3>3. CASE BeginBucket
      BY <3>3 DEF BeginBucket, Lead
    <3> QED BY <2>1, <3>1, <3>2, <3>3
            DEF Next, ScanStep, BeginRole, RoleRefused, ReadResumeInfo,
                EndRole, NextPage, EndBucket, SubmitJob, EndPage, Cancel, Save,
                Restart, Finished, vars
  <2>3. info' = [role |-> page.role, bucket |-> page.bucket, startAfter |-> low' - 1]
    BY <2>2, MarkWrites
  <2>4. info.startAfter < low
    BY <2>2, <2>3 DEF Lead, BehindMark
  <2>5. low' >= low /\ low \in Nat /\ low' \in Nat /\ info.startAfter \in Nat
    <3>1. low' \in page.first .. page.last + 1 /\ page.first \in Nat /\ page.last \in Nat
      BY <2>1, <2>2, MarkStep DEF IInv, PageInv
    <3> QED BY <2>1, <2>2, <3>1, MarkAdvances DEF IInv, LoopInv, Checkpoints
  <2> QED BY <2>3, <2>4, <2>5
<1>3. IInv /\ CoverInv /\ Lead /\ [Next]_vars => Lead'
  BY LeadStep
<1> QED BY <1>1, <1>2, <1>3, CoverInvariance, PTL DEF Spec, CheckpointAdvances
=============================================================================
