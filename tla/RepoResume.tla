----------------------------- MODULE RepoResume -----------------------------
(***************************************************************************)
(* How the GitHub source (and, with the same code, GitLab and Hugging      *)
(* Face) resumes the scan of its repositories.  A pool of workers takes    *)
(* the repositories in order; a worker writes the names of all those       *)
(* started and not finished in the progress when it starts one.  The host  *)
(* of the scan saves the progress when it likes; after a crash the source  *)
(* is started again with what was saved, lists the repositories that still *)
(* exist, and keeps those FilterReposToResume selects.                     *)
(*                                                                         *)
(* A repository is its place in the order of the names.                    *)
(***************************************************************************)
EXTENDS Integers, FiniteSets, FiniteSetsExt

CONSTANTS
    MaxRepo,    \* the repositories of the first scan are 1..MaxRepo
    Limits,     \* the limits of jobPool to explore
    MaxStops,   \* bound on the crashes and cancelled scans
    MaxVanish   \* bound on the repositories deleted while the scan is down

ASSUME RepoAssumption == {MaxRepo, MaxStops, MaxVanish} \subseteq Nat
ASSUME LimitAssumption == Limits \subseteq Nat \ {0} /\ Limits # {}

VARIABLES
    limit,     \* the limit of jobPool
    exist,     \* the repositories the service has
    phase,     \* the process is "up", "down", or the scan "complete"
    todo,      \* s.repos, less those the loop has launched
    job,       \* where the job of each repository stands
    started,   \* s.resumeInfoSlice
    progress,  \* EncodedResumeInfo of the Progress, as the set of its names
    saved,     \* the copy of it the host has saved
    ctxDone,   \* the scan is cancelled
    scanned,   \* the repositories whose scan has come to its end
    restarts   \* times the scan was started again

runVars == <<todo, job, started, ctxDone>>
vars == <<limit, exist, phase, runVars, progress, saved, scanned, restarts>>

Repos == 1..MaxRepo

-----------------------------------------------------------------------------
(* FilterReposToResume walks the repositories and the names of the resume  *)
(* info together, moving on by at most one name for each repository: the   *)
(* least that is left goes when the repository is beyond it.  A repository *)
(* that is then the least name left is found and kept, and all that        *)
(* follows the last one found.                                             *)
MoveOn(names, r) == names \ {n \in names : n < r /\ \A m \in names : n <= m}

NamesLeft(repos, info) ==
    LET left[r \in 0..Max(repos \cup {0})] ==
            IF r = 0 THEN info
            ELSE IF r \in repos THEN MoveOn(left[r - 1], r)
            ELSE left[r - 1]
    IN left

Found(repos, info) ==
    LET left == NamesLeft(repos, info)
    IN {r \in repos : r \in left[r] /\ \A n \in left[r] : r <= n}

Filter(repos, info) ==
    LET found == Found(repos, info)
    IN IF info = {} THEN repos
       ELSE found \cup {r \in repos : \A f \in found : r > f}

Resumed == [r \in SUBSET Repos |-> [i \in SUBSET Repos |-> Filter(r, i)]]
ReposToScan(repos, info) == Resumed[repos][info]

-----------------------------------------------------------------------------
Init ==
    /\ limit \in Limits
    /\ exist = Repos
    /\ phase = "up" /\ restarts = 0
    /\ progress = {} /\ saved = {} /\ scanned = {}
    /\ todo = Repos /\ started = {} /\ ctxDone = FALSE
    /\ job = [r \in Repos |-> "none"]

InPool == {r \in Repos : job[r] \in {"launched", "scanning", "scanned"}}

(* Mutant: the pool takes the repositories in any order.                   *)
LaunchAny(r) ==
    /\ phase = "up"
    /\ r \in todo /\ Cardinality(InPool) < limit
    /\ todo' = todo \ {r}
    /\ job' = [job EXCEPT ![r] = "launched"]
    /\ UNCHANGED <<limit, exist, phase, started, ctxDone, progress, saved, scanned, restarts>>

(* The loop of scan: jobPool.Go waits while the pool is full.              *)
Launch(r) ==
    /\ phase = "up"
    /\ r \in todo /\ Cardinality(InPool) < limit
    /\ \A q \in todo : r <= q
    /\ todo' = todo \ {r}
    /\ job' = [job EXCEPT ![r] = "launched"]
    /\ UNCHANGED <<limit, exist, phase, started, ctxDone, progress, saved, scanned, restarts>>

(* Mutant: the name leaves the resume info when the scan starts.           *)
StartForgets(r) ==
    /\ phase = "up" /\ job[r] = "launched"
    /\ IF ctxDone
       THEN job' = [job EXCEPT ![r] = "left"] /\ UNCHANGED <<started, progress>>
       ELSE /\ job' = [job EXCEPT ![r] = "scanning"]
            /\ progress' = started \cup {r}
            /\ UNCHANGED started
    /\ UNCHANGED <<limit, exist, phase, todo, ctxDone, saved, scanned, restarts>>

(* The job: setProgressCompleteWithRepo, unless the context is done.       *)
Start(r) ==
    /\ phase = "up" /\ job[r] = "launched"
    /\ IF ctxDone
       THEN job' = [job EXCEPT ![r] = "left"] /\ UNCHANGED <<started, progress>>
       ELSE /\ job' = [job EXCEPT ![r] = "scanning"]
            /\ started' = started \cup {r}
            /\ progress' = started \cup {r}
    /\ UNCHANGED <<limit, exist, phase, todo, ctxDone, saved, scanned, restarts>>

(* scanRepo returns: a scan that was cancelled may not have come to its    *)
(* end.  One that failed has, as far as resuming goes.                     *)
Scan(r) ==
    /\ phase = "up" /\ job[r] = "scanning"
    /\ job' = [job EXCEPT ![r] = "scanned"]
    /\ \/ scanned' = scanned \cup {r}
       \/ ctxDone /\ UNCHANGED scanned
    /\ UNCHANGED <<limit, exist, phase, todo, started, ctxDone, progress, saved, restarts>>

(* The deferred RemoveRepoFromResumeInfo; the progress keeps the name      *)
(* until the next repository starts.                                       *)
RemoveFromInfo(r) ==
    /\ phase = "up" /\ job[r] = "scanned"
    /\ job' = [job EXCEPT ![r] = "left"]
    /\ started' = started \ {r}
    /\ UNCHANGED <<limit, exist, phase, todo, ctxDone, progress, saved, scanned, restarts>>

(* jobPool.Wait returns and the resume info is cleared, also when the scan *)
(* was cancelled: a scan that follows starts from the beginning.           *)
Complete ==
    /\ phase = "up"
    /\ todo = {} /\ InPool = {}
    /\ phase' = IF ctxDone THEN "down" ELSE "complete"
    /\ progress' = {}
    /\ UNCHANGED <<limit, exist, runVars, saved, scanned, restarts>>

Cancel ==
    /\ phase = "up" /\ ~ctxDone /\ restarts < MaxStops
    /\ ctxDone' = TRUE
    /\ UNCHANGED <<limit, exist, phase, todo, job, started, progress, saved, scanned, restarts>>

(* The host saves the progress.                                            *)
Save ==
    /\ phase # "complete" /\ saved # progress
    /\ saved' = progress
    /\ UNCHANGED <<limit, exist, phase, runVars, progress, scanned, restarts>>

Crash ==
    /\ phase = "up" /\ restarts < MaxStops
    /\ phase' = "down"
    /\ progress' = saved
    /\ UNCHANGED <<limit, exist, runVars, saved, scanned, restarts>>

(* Mutant: the filter is given the repositories of the scan before.        *)
RestartOldList ==
    /\ phase = "down"
    /\ \E gone \in SUBSET exist :
          /\ Cardinality(gone) <= MaxVanish
          /\ exist' = exist \ gone
    /\ phase' = "up" /\ ctxDone' = FALSE
    /\ todo' = ReposToScan(exist, saved)
    /\ job' = [r \in Repos |-> "none"]
    /\ started' = {} /\ progress' = saved
    /\ restarts' = restarts + 1
    /\ UNCHANGED <<limit, saved, scanned>>

(* Init with the saved resume info, enumeration, and the filter of scan.   *)
Restart ==
    /\ phase = "down"
    /\ \E gone \in SUBSET exist :
          /\ Cardinality(gone) <= MaxVanish
          /\ exist' = exist \ gone
    /\ phase' = "up" /\ ctxDone' = FALSE
    /\ todo' = ReposToScan(exist', saved)
    /\ job' = [r \in Repos |-> "none"]
    /\ started' = {} /\ progress' = saved
    /\ restarts' = restarts + 1
    /\ UNCHANGED <<limit, saved, scanned>>

Next ==
    \/ \E r \in Repos : Launch(r) \/ Start(r) \/ Scan(r) \/ RemoveFromInfo(r)
    \/ Complete \/ Cancel \/ Save \/ Crash \/ Restart

Spec == Init /\ [][Next]_vars

-----------------------------------------------------------------------------
(* The type invariant.                                                     *)
TypeOK ==
    /\ limit \in Limits
    /\ exist \subseteq Repos
    /\ phase \in {"up", "down", "complete"}
    /\ todo \subseteq exist /\ ctxDone \in BOOLEAN
    /\ job \in [Repos -> {"none", "launched", "scanning", "scanned", "left"}]
    /\ started \subseteq Repos /\ progress \subseteq Repos /\ saved \subseteq Repos
    /\ scanned \subseteq Repos /\ restarts \in 0..MaxStops

(* What this run was to scan, and what a restart with the given resume     *)
(* info would not come back to.                                            *)
Mine == todo \cup {r \in Repos : job[r] # "none"}
Forgotten(info) == (Mine \ scanned) \ ReposToScan(exist, info)

(* A crash that hits right after the progress is saved costs the           *)
(* repositories a worker holds and has not written in it yet, never one    *)
(* that is being scanned or one the loop has not reached, and so at most   *)
(* one fewer than there are workers.                                       *)
ForgottenAreUnstarted ==
    phase = "up" =>
        /\ \A r \in Forgotten(progress) : job[r] = "launched" \/ (ctxDone /\ job[r] = "left")
        /\ Cardinality(Forgotten(progress)) < limit

(* Over a whole history each restart costs at most one repository fewer    *)
(* than there are workers, whenever the host saved, as long as none is     *)
(* deleted meanwhile; with one worker nothing is lost, deletions or not.   *)
(* It is what a completed scan has not scanned, and before that what the   *)
(* saved progress would not come back to.                                  *)
FewAreForgotten ==
    exist = Repos \/ limit = 1 =>
        /\ phase = "complete" =>
               Cardinality(exist \ scanned) <= restarts * (limit - 1)
        /\ phase # "complete" =>
               Cardinality((exist \ scanned) \ ReposToScan(exist, saved))
                   <= (restarts + 1) * (limit - 1)
=============================================================================
