-------------------------- MODULE RepoResumeProofs --------------------------
(***************************************************************************)
(* Proofs about RepoResume: for any number of repositories and workers,    *)
(* and whatever is saved, deleted, cancelled or crashes, a restart comes   *)
(* back to all that was to be scanned, but for what a worker held and had  *)
(* not written in the resume info.                                         *)
(*                                                                         *)
(* The argument: the loop launches the repositories in order, so that what *)
(* it has not reached follows every name of the resume info; a worker that *)
(* writes the resume info names all that is being scanned and is itself    *)
(* one of the pool; and what is named is kept as long as it exists.        *)
(***************************************************************************)
EXTENDS RepoResume, FiniteSetTheorems, WellFoundedInduction, TLAPS

-----------------------------------------------------------------------------
(* The walk of FilterReposToResume.                                        *)
Step(repos, names, r) == IF r \in repos THEN MoveOn(names, r) ELSE names

(* A set of natural numbers that is not empty has a least element.         *)
LEMMA LeastElement ==
    ASSUME NEW S, S \subseteq Nat, S # {}
    PROVE  \E m \in S : \A n \in S : m <= n
<1>1. PICK x \in S : \A y \in S : <<y, x>> \notin OpToRel(<, Nat)
  BY NatLessThanWellFounded, WFMin, Zenon
<1>2. \A y \in S : ~ (y < x)
  BY <1>1 DEF OpToRel
<1> QED BY <1>2

(* What holds of 0 and passes from k to k + 1 holds of all numbers: a set  *)
(* of numbers with both has them all.                                      *)
LEMMA AllNumbers ==
    ASSUME NEW T, 0 \in T, \A k \in Nat : k \in T => k + 1 \in T
    PROVE  Nat \subseteq T
<1> DEFINE S == {k \in Nat : k \notin T}
<1>1. SUFFICES ASSUME S # {} PROVE FALSE
  OBVIOUS
<1>2. PICK k \in S : \A n \in S : k <= n
  <2> S \subseteq Nat
    OBVIOUS
  <2> HIDE DEF S
  <2> QED BY <1>1, LeastElement
<1>3. k \in Nat /\ k # 0 /\ k - 1 \in Nat
  BY <1>2
<1>4. k - 1 \in T
  BY <1>2, <1>3
<1>5. (k - 1) + 1 \in T
  BY <1>3, <1>4
<1>6. (k - 1) + 1 = k
  BY <1>3
<1> QED BY <1>2, <1>5, <1>6

(* The recursion of NamesLeft, unfolded: its function exists, up to any    *)
(* repository.                                                             *)
LEMMA NamesLeftDef ==
    ASSUME NEW repos, NEW info, NEW last \in Nat, last = Max(repos \cup {0}),
           NEW p \in 0..last
    PROVE  NamesLeft(repos, info)[p] =
               IF p = 0 THEN info
               ELSE IF p \in repos THEN MoveOn(NamesLeft(repos, info)[p - 1], p)
               ELSE NamesLeft(repos, info)[p - 1]
<1> DEFINE Is(left, n) == left = [r \in 0..n |->
               IF r = 0 THEN info
               ELSE IF r \in repos THEN MoveOn(left[r - 1], r)
               ELSE left[r - 1]]
           T == {n \in Nat : \E left : Is(left, n)}
<1>1. 0 \in T
  <2> DEFINE left == [r \in 0..0 |-> info]
  <2>1. Is(left, 0)
    OBVIOUS
  <2> QED BY <2>1
<1>2. ASSUME NEW n \in Nat, n \in T PROVE n + 1 \in T
  <2>1. PICK left : Is(left, n)
    BY <1>2
  <2> DEFINE more == [r \in 0..n + 1 |->
               IF r = n + 1
               THEN IF r \in repos THEN MoveOn(left[n], r) ELSE left[n]
               ELSE left[r]]
  <2>2. \A r \in 0..n : more[r] = left[r]
    OBVIOUS
  <2>3. \A r \in 0..n + 1 :
           more[r] = IF r = 0 THEN info
                     ELSE IF r \in repos THEN MoveOn(more[r - 1], r)
                     ELSE more[r - 1]
    <3> SUFFICES ASSUME NEW r \in 0..n + 1
                 PROVE  more[r] = IF r = 0 THEN info
                                  ELSE IF r \in repos THEN MoveOn(more[r - 1], r)
                                  ELSE more[r - 1]
      OBVIOUS
    <3>1. CASE r = n + 1
      <4>1. r # 0 /\ r - 1 = n /\ n \in 0..n
        BY <3>1
      <4>2. more[r - 1] = left[n]
        BY <4>1, <2>2
      <4>3. more[r] = IF r \in repos THEN MoveOn(left[n], r) ELSE left[n]
        BY <3>1
      <4> HIDE DEF more
      <4> QED BY <4>1, <4>2, <4>3
    <3>2. CASE r # n + 1
      <4>1. r \in 0..n /\ (r # 0 => r - 1 \in 0..n)
        BY <3>2
      <4>2. more[r] = left[r] /\ (r # 0 => more[r - 1] = left[r - 1])
        BY <2>2, <4>1
      <4>3. left[r] = IF r = 0 THEN info
                      ELSE IF r \in repos THEN MoveOn(left[r - 1], r)
                      ELSE left[r - 1]
        <5> HIDE DEF more
        <5> QED BY <2>1, <4>1
      <4> HIDE DEF more, Is
      <4> QED BY <4>2, <4>3
    <3> QED BY <3>1, <3>2
  <2>4. more = [r \in 0..n + 1 |-> more[r]]
    OBVIOUS
  <2>5. Is(more, n + 1)
    <3> HIDE DEF more
    <3> QED BY <2>3, <2>4
  <2> HIDE DEF more, Is
  <2> QED BY <2>5
<1>3. last \in T
  <2> HIDE DEF T
  <2> QED BY <1>1, <1>2, AllNumbers
<1>4. NamesLeft(repos, info) = CHOOSE left : Is(left, last)
  BY DEF NamesLeft
<1>5. PICK left : left = NamesLeft(repos, info) /\ Is(left, last)
  <2> \E left : Is(left, last)
    BY <1>3
  <2> HIDE DEF Is
  <2> QED BY <1>4
<1> QED BY <1>5

(* The greatest of a set of numbers.                                       *)
LEMMA GreatestElement ==
    ASSUME NEW S, NEW n \in Nat, S \subseteq 0..n, S # {}
    PROVE  Max(S) \in S /\ \A m \in S : m <= Max(S)
<1> DEFINE Up == {n - m : m \in S}
<1>1. Up \subseteq Nat /\ Up # {}
  OBVIOUS
<1>2. PICK u \in Up : \A v \in Up : u <= v
  <2> HIDE DEF Up
  <2> QED BY <1>1, LeastElement
<1>3. PICK x \in S : u = n - x
  <2>1. u \in {n - m : m \in S}
    BY <1>2, Zenon
  <2> QED BY <2>1, Zenon
<1>4. \A m \in S : m \in Nat
  OBVIOUS
<1>5. \A m \in S : x >= m
  <2> SUFFICES ASSUME NEW m \in S PROVE x >= m
    OBVIOUS
  <2>1. n - x <= n - m
    BY <1>2, <1>3
  <2>2. x \in Nat /\ m \in Nat
    BY <1>4
  <2> QED BY <2>1, <2>2
<1>6. Max(S) = CHOOSE y \in S : \A m \in S : y >= m
  BY DEF Max
<1>7. Max(S) \in S /\ \A m \in S : Max(S) >= m
  BY <1>5, <1>6
<1> QED
  <2>1. \A m \in S : m \in Nat
    OBVIOUS
  <2> QED BY <1>7, <2>1

USE RepoAssumption DEF Repos

(* The walk ends at the last repository.                                   *)
LEMMA LastRepo ==
    ASSUME NEW repos, repos \subseteq Repos
    PROVE  /\ Max(repos \cup {0}) \in Nat
           /\ \A r \in repos : r \in 0..Max(repos \cup {0})
<1> DEFINE all == repos \cup {0}
<1>1. all \subseteq 0..MaxRepo /\ all # {}
  OBVIOUS
<1>2. Max(all) \in all /\ \A m \in all : m <= Max(all)
  <2> HIDE DEF all
  <2> QED BY <1>1, GreatestElement
<1>3. Max(all) \in Nat /\ \A r \in repos : r \in all /\ r \in Nat
  <2>1. all \subseteq Nat /\ repos \subseteq all
    OBVIOUS
  <2> HIDE DEF all
  <2> QED BY <1>2, <2>1
<1>4. \A r \in repos : r \in 0..Max(all)
  <2> HIDE DEF all
  <2> QED BY <1>2, <1>3
<1> QED BY <1>3, <1>4

(* The names left are of the resume info; while every name still exists    *)
(* they are all that the walk has not reached, and at most one before      *)
(* them, which no repository has followed yet.                             *)
LEMMA WalkIsExact ==
    ASSUME NEW repos, repos \subseteq Repos, NEW info, info \subseteq Repos
    PROVE  \A r \in repos :
              /\ NamesLeft(repos, info)[r] \subseteq info
              /\ info \subseteq repos =>
                    /\ \A n \in info : n >= r => n \in NamesLeft(repos, info)[r]
                    /\ \A n \in NamesLeft(repos, info)[r] : n >= r
<1> DEFINE last == Max(repos \cup {0})
           left == NamesLeft(repos, info)
           Good(r) ==
              /\ left[r] \subseteq info
              /\ info \subseteq repos =>
                    /\ \A n \in info : n >= r => n \in left[r]
                    /\ \A n \in left[r], q \in repos : ~(n < q /\ q <= r)
           T == {k \in Nat : k \in 0..last => Good(k)}
<1>0. info \subseteq Nat /\ repos \subseteq Nat
  OBVIOUS
<1>1. last \in Nat /\ \A r \in repos : r \in 0..last
  BY LastRepo
<1>2. \A r \in 0..last :
         left[r] = IF r = 0 THEN info
                   ELSE IF r \in repos THEN MoveOn(left[r - 1], r)
                   ELSE left[r - 1]
  <2> SUFFICES ASSUME NEW r \in 0..last
               PROVE  left[r] = IF r = 0 THEN info
                                ELSE IF r \in repos THEN MoveOn(left[r - 1], r)
                                ELSE left[r - 1]
    OBVIOUS
  <2> QED BY <1>1, NamesLeftDef
<1> HIDE DEF left, last
<1>3. 0 \in T
  <2>1. 0 \in 0..last /\ left[0] = info
    BY <1>1, <1>2
  <2> QED BY <2>1
<1>4. ASSUME NEW k \in Nat, k \in T PROVE k + 1 \in T
  <2> SUFFICES ASSUME k + 1 \in 0..last PROVE Good(k + 1)
    BY <1>4
  <2>1. k \in 0..last
    BY <1>1
  <2>2. Good(k)
    BY <1>4, <2>1
  <2>3. left[k + 1] = IF k + 1 \in repos THEN MoveOn(left[k], k + 1) ELSE left[k]
    <3>1. k + 1 # 0 /\ (k + 1) - 1 = k
      OBVIOUS
    <3> QED BY <1>2, <3>1
  <2>4. left[k + 1] \subseteq left[k]
    BY <2>3 DEF MoveOn
  <2>5. ASSUME info \subseteq repos, NEW n \in info, n >= k + 1 PROVE n \in left[k + 1]
    <3>1. n \in Nat /\ n >= k /\ ~(n < k + 1)
      BY <2>5
    <3>2. n \in left[k]
      BY <2>2, <2>5, <3>1
    <3> QED BY <2>3, <3>1, <3>2 DEF MoveOn
  <2>6. ASSUME info \subseteq repos, NEW n \in left[k + 1], NEW q \in repos,
               n < q, q <= k + 1
        PROVE  FALSE
    <3>1. n \in left[k] /\ n \in info /\ n \in Nat /\ q \in Nat
      BY <1>0, <2>2, <2>4, <2>6
    <3>2. ~(q <= k)
      BY <2>2, <2>6, <3>1
    <3>3. q = k + 1
      BY <2>6, <3>1, <3>2
    <3>4. ~ \A m \in left[k] : n <= m
      BY <2>3, <2>6, <3>1, <3>3 DEF MoveOn
    <3>5. PICK m \in left[k] : ~(n <= m)
      BY <3>4
    <3>6. m \in info /\ m \in Nat
      BY <1>0, <2>2, <3>5
    <3>7. m < n /\ n <= k
      BY <2>6, <3>1, <3>3, <3>5, <3>6
    <3>8. n \in repos
      BY <2>6, <3>1
    <3> QED BY <2>2, <2>6, <3>7, <3>8
  <2>7. left[k + 1] \subseteq info
    BY <2>2, <2>4
  <2> QED BY <2>5, <2>6, <2>7
<1>5. Nat \subseteq T
  <2> HIDE DEF T
  <2> QED BY <1>3, <1>4, AllNumbers
<1>6. ASSUME NEW r \in repos PROVE Good(r)
  <2>1. r \in Nat /\ r \in 0..last
    BY <1>1
  <2>2. r \in T
    BY <1>5, <2>1
  <2> QED BY <2>1, <2>2
<1>7. ASSUME NEW r \in repos, info \subseteq repos, NEW n \in left[r] PROVE n >= r
  <2>1. n \in info /\ n \in Nat /\ r \in Nat
    BY <1>0, <1>6, <1>7
  <2>2. ~(n < r /\ r <= r)
    BY <1>6, <1>7
  <2> QED BY <2>1, <2>2
<1> QED BY <1>6, <1>7 DEF left

(* What is found exists and is named, and while every name exists it is    *)
(* what is named.                                                          *)
LEMMA FoundNames ==
    ASSUME NEW repos, repos \subseteq Repos, NEW info, info \subseteq Repos
    PROVE  /\ Found(repos, info) \subseteq repos \cap info
           /\ info \subseteq repos => info \subseteq Found(repos, info)
<1>1. Found(repos, info) \subseteq repos \cap info
  BY WalkIsExact DEF Found
<1>2. ASSUME info \subseteq repos, NEW n \in info PROVE n \in Found(repos, info)
  <2>1. n \in repos /\ n \in Nat
    BY <1>2
  <2>2. n >= n
    BY <2>1
  <2>3. n \in NamesLeft(repos, info)[n]
    BY <1>2, <2>1, <2>2, WalkIsExact
  <2>4. NamesLeft(repos, info)[n] \subseteq info
    BY <2>1, WalkIsExact
  <2>5. info \subseteq Nat
    OBVIOUS
  <2>6. \A m \in NamesLeft(repos, info)[n] : m >= n
    BY <1>2, <2>1, WalkIsExact
  <2> QED BY <2>1, <2>3, <2>4, <2>5, <2>6 DEF Found
<1> QED BY <1>1, <1>2

(* What Filter keeps: repositories that exist; all of them when nothing is *)
(* named; what follows every name; and every name, while all exist.        *)
LEMMA FilterKeeps ==
    ASSUME NEW repos, repos \subseteq Repos, NEW info, info \subseteq Repos
    PROVE  /\ Filter(repos, info) \subseteq repos
           /\ Filter(repos, {}) = repos
           /\ \A r \in repos : (\A n \in info : n < r) => r \in Filter(repos, info)
           /\ info \subseteq repos => info \subseteq Filter(repos, info)
<1>1. Found(repos, info) \subseteq repos \cap info
  BY FoundNames
<1>2. Filter(repos, info) \subseteq repos
  BY <1>1 DEF Filter
<1>3. Filter(repos, {}) = repos
  BY DEF Filter
<1>4. ASSUME NEW r \in repos, \A n \in info : n < r PROVE r \in Filter(repos, info)
  <2>1. r \in Nat /\ info \subseteq Nat
    OBVIOUS
  <2>2. \A f \in Found(repos, info) : r > f
    BY <1>1, <1>4, <2>1
  <2> QED BY <2>2 DEF Filter
<1>5. info \subseteq repos => info \subseteq Filter(repos, info)
  BY FoundNames DEF Filter
<1> QED BY <1>2, <1>3, <1>4, <1>5

(* With one name at most, what Filter keeps of a list it keeps of every    *)
(* shorter one.                                                            *)
LEMMA OneName ==
    ASSUME NEW repos, repos \subseteq Repos, NEW fewer, fewer \subseteq repos,
           NEW info, info \subseteq Repos, \A a, b \in info : a = b,
           NEW r \in fewer, r \in Filter(repos, info)
    PROVE  r \in Filter(fewer, info)
<1>1. /\ Found(fewer, info) \subseteq fewer \cap info
      /\ info \subseteq fewer => info \subseteq Found(fewer, info)
      /\ info \subseteq repos => info \subseteq Found(repos, info)
      /\ Found(repos, info) \subseteq repos \cap info
  <2>1. fewer \subseteq Repos
    OBVIOUS
  <2> QED BY <2>1, FoundNames
<1>2. CASE info = {}
  BY <1>2 DEF Filter
<1>3. CASE info # {} /\ info \subseteq fewer
  <2>1. Found(repos, info) = info /\ Found(fewer, info) = info
    BY <1>1, <1>3
  <2> QED BY <1>3, <2>1 DEF Filter
<1>4. CASE ~(info \subseteq fewer)
  <2>1. PICK n \in info : n \notin fewer
    BY <1>4
  <2>2. Found(fewer, info) = {}
    BY <1>1, <2>1
  <2> QED BY <2>1, <2>2 DEF Filter
<1> QED BY <1>2, <1>3, <1>4

-----------------------------------------------------------------------------
(* While a run can still be stopped its restart is counted.                *)
Stops == phase = "down" \/ ctxDone => restarts < MaxStops

(* What has been launched is before all that is to be; the resume info     *)
(* names what is being scanned; what has left was scanned, unless the scan *)
(* is cancelled; and the pool keeps its limit.                             *)
InOrder ==
    \A r \in Repos : job[r] # "none" =>
        r \in exist /\ r \notin todo /\ \A q \in todo : r < q

Held ==
    /\ started = {r \in Repos : job[r] \in {"scanning", "scanned"}}
    /\ ~ctxDone => \A r \in Repos : job[r] \in {"scanned", "left"} => r \in scanned

PoolFits == Cardinality(InPool) <= limit

AllDone == phase = "complete" => todo = {} /\ InPool = {} /\ ~ctxDone

(* The progress forgets only what a worker was about to start; it, and     *)
(* what was saved of it, one repository fewer than there are workers.      *)
OnlyUnstarted ==
    phase = "up" => \A r \in Forgotten(progress) :
        job[r] = "launched" \/ (ctxDone /\ job[r] = "left")

Backs(info) == Cardinality(Forgotten(info)) < limit /\ Cardinality(info) <= limit

(* What no run since the last restart is to scan.                          *)
Missed == (exist \ scanned) \ Mine

History ==
    exist = Repos \/ limit = 1 => Cardinality(Missed) <= restarts * (limit - 1)

Loop == Stops /\ InOrder /\ Held /\ PoolFits /\ AllDone

IInv == TypeOK /\ Loop /\ OnlyUnstarted /\ Backs(progress) /\ Backs(saved) /\ History

-----------------------------------------------------------------------------
LEMMA ScanFilters ==
    ASSUME NEW repos, repos \subseteq Repos, NEW info, info \subseteq Repos
    PROVE  ReposToScan(repos, info) = Filter(repos, info)
BY DEF ReposToScan, Resumed

(* Sets of repositories are finite, and a subset is no larger.             *)
LEMMA Count ==
    ASSUME NEW S, S \subseteq Repos, NEW T, T \subseteq S
    PROVE  /\ IsFiniteSet(S) /\ Cardinality(S) \in Nat /\ Cardinality(T) \in Nat
           /\ Cardinality(T) <= Cardinality(S)
<1>1. IsFiniteSet(Repos)
  BY FS_Interval
<1>2. IsFiniteSet(S)
  BY <1>1, FS_Subset
<1>3. Cardinality(S) \in Nat
  BY <1>2, FS_CardinalityType
<1>4. IsFiniteSet(T) /\ Cardinality(T) <= Cardinality(S)
  BY <1>2, FS_Subset
<1>5. Cardinality(T) \in Nat
  BY <1>4, FS_CardinalityType
<1> QED BY <1>2, <1>3, <1>4, <1>5

LEMMA PoolCount ==
    ASSUME NEW l \in Limits
    PROVE  l \in Nat /\ l >= 1 /\ l - 1 \in Nat
BY LimitAssumption

LEMMA TypeInit == Init => TypeOK /\ Stops
<1> SUFFICES ASSUME Init PROVE TypeOK /\ Stops
  OBVIOUS
<1>1. Stops
  BY DEF Init, Stops
<1>2. job \in [Repos -> {"none", "launched", "scanning", "scanned", "left"}]
  BY DEF Init
<1>3. {} \subseteq Repos /\ 0 \in 0..MaxStops
  OBVIOUS
<1>4. TypeOK
  BY <1>2, <1>3 DEF Init, TypeOK
<1> QED BY <1>1, <1>4

(* Every step keeps the types, and the bound on the restarts.              *)
LEMMA TypeStep ==
    ASSUME TypeOK, Stops, [Next]_vars
    PROVE  TypeOK' /\ Stops'
<1> USE DEF TypeOK, Stops
<1>1. ASSUME NEW r \in Repos, Launch(r) PROVE TypeOK' /\ Stops'
  BY <1>1 DEF Launch
<1>2. ASSUME NEW r \in Repos, Start(r) PROVE TypeOK' /\ Stops'
  <2>1. CASE ctxDone
    BY <1>2, <2>1 DEF Start
  <2>2. CASE ~ctxDone
    BY <1>2, <2>2 DEF Start
  <2> QED BY <2>1, <2>2
<1>3. ASSUME NEW r \in Repos, Scan(r) PROVE TypeOK' /\ Stops'
  BY <1>3 DEF Scan
<1>4. ASSUME NEW r \in Repos, RemoveFromInfo(r) PROVE TypeOK' /\ Stops'
  BY <1>4 DEF RemoveFromInfo
<1>5. CASE Complete
  BY <1>5 DEF Complete, runVars
<1>6. CASE Cancel
  BY <1>6 DEF Cancel
<1>7. CASE Save
  BY <1>7 DEF Save, runVars
<1>8. CASE Crash
  BY <1>8 DEF Crash, runVars
<1>9. CASE Restart
  <2>1. exist' \subseteq exist /\ exist' \subseteq Repos /\ saved \subseteq Repos
    BY <1>9 DEF Restart
  <2>2. todo' = Filter(exist', saved)
    <3>1. todo' = ReposToScan(exist', saved)
      BY <1>9 DEF Restart
    <3> QED BY <2>1, <3>1, ScanFilters
  <2>3. todo' \subseteq exist'
    BY <2>1, <2>2, FilterKeeps
  <2>4. restarts' \in 0..MaxStops
    BY <1>9 DEF Restart
  <2>5. Stops'
    BY <1>9 DEF Restart
  <2>6. job' \in [Repos -> {"none", "launched", "scanning", "scanned", "left"}]
    BY <1>9 DEF Restart
  <2>7. phase' = "up" /\ ctxDone' = FALSE /\ started' = {} /\ progress' = saved
        /\ UNCHANGED <<limit, saved, scanned>>
    BY <1>9 DEF Restart
  <2> QED BY <2>1, <2>3, <2>4, <2>5, <2>6, <2>7
<1>10. CASE UNCHANGED vars
  BY <1>10 DEF vars, runVars
<1> QED BY <1>1, <1>2, <1>3, <1>4, <1>5, <1>6, <1>7, <1>8, <1>9, <1>10 DEF Next

(* Every step keeps the order of the launches, what the resume info holds, *)
(* and the limit of the pool.                                              *)
LEMMA LoopStep ==
    ASSUME TypeOK, Loop, [Next]_vars
    PROVE  InOrder' /\ Held' /\ PoolFits' /\ AllDone'
<1> USE DEF TypeOK, Loop
<1>0. limit \in Nat /\ limit >= 1 /\ InPool \subseteq Repos /\ Cardinality(InPool) \in Nat
  <2>1. InPool \subseteq Repos
    BY DEF InPool
  <2> QED BY <2>1, PoolCount, Count
<1>a. ASSUME InPool' \subseteq InPool, limit' = limit PROVE PoolFits'
  <2>1. Cardinality(InPool') \in Nat /\ Cardinality(InPool') <= Cardinality(InPool)
    BY <1>0, <1>a, Count
  <2> QED BY <1>0, <1>a, <2>1 DEF PoolFits
<1>1. ASSUME NEW r \in Repos, Launch(r) PROVE InOrder' /\ Held' /\ PoolFits' /\ AllDone'
  <2>1. /\ phase = "up" /\ r \in todo /\ \A q \in todo : r <= q
        /\ todo' = todo \ {r} /\ job' = [job EXCEPT ![r] = "launched"]
        /\ UNCHANGED <<limit, exist, phase, started, ctxDone, scanned>>
        /\ Cardinality(InPool) < limit
    BY <1>1 DEF Launch
  <2>2. job[r] = "none"
    BY <2>1 DEF InOrder
  <2>3. \A q \in todo : q \in Nat
    OBVIOUS
  <2>4. \A q \in todo' : r < q
    BY <2>1, <2>3
  <2>5. InOrder'
    BY <2>1, <2>4 DEF InOrder
  <2>6. Held'
    BY <2>1, <2>2 DEF Held
  <2>7. InPool' \subseteq InPool \cup {r}
    BY <2>1 DEF InPool
  <2>8. PoolFits'
    <3>1. IsFiniteSet(InPool)
      BY <1>0, Count
    <3>2. Cardinality(InPool \cup {r}) <= Cardinality(InPool) + 1
      <4>1. Cardinality(InPool \cup {r})
               = IF r \in InPool THEN Cardinality(InPool) ELSE Cardinality(InPool) + 1
        BY <3>1, FS_AddElement
      <4> QED BY <1>0, <4>1
    <3>3. /\ Cardinality(InPool') \in Nat /\ Cardinality(InPool \cup {r}) \in Nat
          /\ Cardinality(InPool') <= Cardinality(InPool \cup {r})
      <4>1. InPool \cup {r} \subseteq Repos
        BY <1>0
      <4> QED BY <2>7, <4>1, Count
    <3> QED BY <1>0, <2>1, <3>2, <3>3 DEF PoolFits
  <2> QED BY <2>1, <2>5, <2>6, <2>8 DEF AllDone
<1>2. ASSUME NEW r \in Repos, Start(r) PROVE InOrder' /\ Held' /\ PoolFits' /\ AllDone'
  <2>1. /\ phase = "up" /\ job[r] = "launched"
        /\ UNCHANGED <<limit, exist, phase, todo, ctxDone, scanned>>
    BY <1>2 DEF Start
  <2>2. CASE ctxDone
    <3>1. job' = [job EXCEPT ![r] = "left"] /\ UNCHANGED started
      BY <1>2, <2>2 DEF Start
    <3>2. InPool' \subseteq InPool
      BY <2>1, <3>1 DEF InPool
    <3>3. InOrder'
      BY <2>1, <3>1 DEF InOrder
    <3>4. Held'
      BY <2>1, <2>2, <3>1 DEF Held
    <3> QED BY <1>a, <2>1, <3>2, <3>3, <3>4 DEF AllDone
  <2>3. CASE ~ctxDone
    <3>1. job' = [job EXCEPT ![r] = "scanning"] /\ started' = started \cup {r}
      BY <1>2, <2>3 DEF Start
    <3>2. InPool' \subseteq InPool
      BY <2>1, <3>1 DEF InPool
    <3>3. InOrder'
      BY <2>1, <3>1 DEF InOrder
    <3>4. Held'
      BY <2>1, <3>1 DEF Held
    <3> QED BY <1>a, <2>1, <3>2, <3>3, <3>4 DEF AllDone
  <2> QED BY <2>2, <2>3
<1>3. ASSUME NEW r \in Repos, Scan(r) PROVE InOrder' /\ Held' /\ PoolFits' /\ AllDone'
  <2>1. /\ phase = "up" /\ job[r] = "scanning" /\ job' = [job EXCEPT ![r] = "scanned"]
        /\ scanned \subseteq scanned' /\ (r \in scanned' \/ ctxDone)
        /\ UNCHANGED <<limit, exist, phase, todo, started, ctxDone>>
    BY <1>3 DEF Scan
  <2>2. InPool' \subseteq InPool
    BY <2>1 DEF InPool
  <2>3. InOrder'
    BY <2>1 DEF InOrder
  <2>4. Held'
    BY <2>1 DEF Held
  <2> QED BY <1>a, <2>1, <2>2, <2>3, <2>4 DEF AllDone
<1>4. ASSUME NEW r \in Repos, RemoveFromInfo(r)
      PROVE  InOrder' /\ Held' /\ PoolFits' /\ AllDone'
  <2>1. /\ phase = "up" /\ job[r] = "scanned" /\ job' = [job EXCEPT ![r] = "left"]
        /\ started' = started \ {r}
        /\ UNCHANGED <<limit, exist, phase, todo, scanned, ctxDone>>
    BY <1>4 DEF RemoveFromInfo
  <2>2. InPool' \subseteq InPool
    BY <2>1 DEF InPool
  <2>3. InOrder'
    BY <2>1 DEF InOrder
  <2>4. Held'
    BY <2>1 DEF Held
  <2> QED BY <1>a, <2>1, <2>2, <2>3, <2>4 DEF AllDone
<1>b. ASSUME UNCHANGED <<limit, exist, todo, job, started, scanned>>,
             ctxDone' = ctxDone \/ ctxDone', AllDone'
      PROVE  InOrder' /\ Held' /\ PoolFits' /\ AllDone'
  <2>1. InPool' = InPool
    BY <1>b DEF InPool
  <2>2. InOrder'
    BY <1>b DEF InOrder
  <2>3. Held'
    BY <1>b DEF Held
  <2> QED BY <1>a, <1>b, <2>1, <2>2, <2>3
<1>5. CASE Complete
  <2>1. AllDone'
    BY <1>5 DEF Complete, AllDone, InPool, runVars
  <2> QED BY <1>5, <1>b, <2>1 DEF Complete, runVars
<1>6. CASE Cancel
  <2>1. AllDone'
    BY <1>6 DEF Cancel, AllDone
  <2> QED BY <1>6, <1>b, <2>1 DEF Cancel
<1>7. CASE Save
  <2>1. AllDone'
    BY <1>7 DEF Save, AllDone
  <2> QED BY <1>7, <1>b, <2>1 DEF Save, runVars
<1>8. CASE Crash
  <2>1. AllDone'
    BY <1>8 DEF Crash, AllDone
  <2> QED BY <1>8, <1>b, <2>1 DEF Crash, runVars
<1>9. CASE Restart
  <2>1. /\ job' = [r \in Repos |-> "none"] /\ started' = {} /\ phase' = "up"
        /\ limit' = limit
    BY <1>9 DEF Restart
  <2>2. InPool' = {}
    BY <2>1 DEF InPool
  <2>3. InOrder'
    BY <2>1 DEF InOrder
  <2>4. Held'
    BY <2>1 DEF Held
  <2> QED BY <1>a, <2>1, <2>2, <2>3, <2>4 DEF AllDone
<1>10. CASE UNCHANGED vars
  BY <1>10, <1>b DEF vars, runVars, AllDone, InPool
<1> QED BY <1>1, <1>2, <1>3, <1>4, <1>5, <1>6, <1>7, <1>8, <1>9, <1>10 DEF Next

-----------------------------------------------------------------------------
(* What a resume info forgets, spelled out.                                *)
LEMMA ForgottenIs ==
    ASSUME TypeOK, NEW info, info \subseteq Repos
    PROVE  /\ Forgotten(info) = (Mine \ scanned) \ Filter(exist, info)
           /\ Forgotten(info) \subseteq Repos /\ Mine \subseteq Repos
           /\ Cardinality(Forgotten(info)) \in Nat /\ Cardinality(info) \in Nat
<1>1. Mine \subseteq Repos
  BY DEF Mine, TypeOK
<1>2. Forgotten(info) = (Mine \ scanned) \ Filter(exist, info)
  BY ScanFilters DEF Forgotten, TypeOK
<1>3. Forgotten(info) \subseteq Repos
  BY <1>1, <1>2
<1> QED BY <1>1, <1>2, <1>3, Count

LEMMA ForgottenNext ==
    ASSUME TypeOK'
    PROVE  /\ Forgotten(saved)' = (Mine' \ scanned') \ Filter(exist', saved')
           /\ Forgotten(progress)' = (Mine' \ scanned') \ Filter(exist', progress')
           /\ Mine' \subseteq Repos /\ Cardinality(progress') \in Nat
           /\ Cardinality((Mine' \ scanned') \ Filter(exist', progress')) \in Nat
<1>1. /\ saved' \subseteq Repos /\ progress' \subseteq Repos /\ exist' \subseteq Repos
      /\ Mine' \subseteq Repos
  BY DEF Mine, TypeOK
<1>2. /\ Forgotten(saved)' = (Mine' \ scanned') \ ReposToScan(exist', saved')
      /\ Forgotten(progress)' = (Mine' \ scanned') \ ReposToScan(exist', progress')
  BY DEF Forgotten, ReposToScan, Resumed
<1>3. /\ ReposToScan(exist', saved') = Filter(exist', saved')
      /\ ReposToScan(exist', progress') = Filter(exist', progress')
  BY <1>1, ScanFilters
<1>4. (Mine' \ scanned') \ Filter(exist', progress') \subseteq Repos
  BY <1>1
<1> QED BY <1>1, <1>2, <1>3, <1>4, Count

(* As long as no run starts, what a resume info forgets only shrinks.      *)
LEMMA StillBacked ==
    ASSUME TypeOK, TypeOK', Mine' = Mine, UNCHANGED <<limit, exist>>, scanned \subseteq scanned',
           NEW info, info \subseteq Repos, Backs(info)
    PROVE  /\ Cardinality((Mine' \ scanned') \ Filter(exist', info)) < limit'
           /\ (Mine' \ scanned') \ Filter(exist', info) \subseteq Forgotten(info)
<1> DEFINE rest == (Mine' \ scanned') \ Filter(exist', info)
<1>1. /\ Forgotten(info) = (Mine \ scanned) \ Filter(exist, info)
      /\ Forgotten(info) \subseteq Repos
  BY ForgottenIs
<1>2. rest \subseteq Forgotten(info)
  BY <1>1
<1>3. Cardinality(rest) <= Cardinality(Forgotten(info)) /\ Cardinality(rest) \in Nat
      /\ Cardinality(Forgotten(info)) \in Nat
  BY <1>1, <1>2, Count
<1>4. limit \in Nat
  BY PoolCount DEF TypeOK
<1> QED BY <1>2, <1>3, <1>4 DEF Backs

(* A worker that starts writes a resume info that forgets only what other  *)
(* workers hold and have not started.                                      *)
LEMMA StartBacks ==
    ASSUME TypeOK, TypeOK', Loop, Loop', NEW r \in Repos, Start(r), ~ctxDone
    PROVE  OnlyUnstarted' /\ Backs(progress)'
<1> DEFINE lost == (Mine' \ scanned') \ Filter(exist', progress')
<1> USE DEF TypeOK, Loop
<1>1. /\ phase' = "up" /\ job[r] = "launched" /\ job' = [job EXCEPT ![r] = "scanning"]
      /\ started' = started \cup {r} /\ progress' = started \cup {r}
      /\ UNCHANGED <<limit, exist, todo, ctxDone, scanned>>
  BY DEF Start
<1>2. /\ Forgotten(progress)' = lost /\ Cardinality(lost) \in Nat
      /\ Cardinality(progress') \in Nat
  BY ForgottenNext
<1>3. progress' = {q \in Repos : job'[q] \in {"scanning", "scanned"}}
  BY <1>1 DEF Held
<1>4. progress' \subseteq exist' /\ progress' \subseteq Repos /\ exist' \subseteq Repos
  BY <1>1, <1>3 DEF InOrder
<1>5. progress' \subseteq Filter(exist', progress')
  BY <1>4, FilterKeeps
<1>6. ASSUME NEW x \in lost PROVE job'[x] = "launched" /\ x \in Repos
  <2>1. x \in Repos /\ x \notin scanned' /\ x \notin progress' /\ x \notin Filter(exist', progress')
        /\ (x \in todo' \/ job'[x] # "none")
    BY <1>5 DEF Mine
  <2>2. x \notin todo'
    <3>1. SUFFICES ASSUME x \in todo' PROVE FALSE
      OBVIOUS
    <3>2. \A n \in progress' : n < x
      BY <1>3, <3>1 DEF InOrder
    <3>3. x \in exist'
      BY <3>1
    <3>4. x \in Filter(exist', progress')
      BY <1>4, <3>2, <3>3, FilterKeeps
    <3> QED BY <2>1, <3>4
  <2>3. job'[x] \notin {"scanning", "scanned"}
    BY <1>3, <2>1
  <2>4. job'[x] # "left"
    BY <1>1, <2>1 DEF Held
  <2>5. job'[x] \in {"none", "launched", "scanning", "scanned", "left"}
    BY <2>1
  <2> QED BY <2>1, <2>2, <2>3, <2>4, <2>5
<1>7. r \in InPool' /\ lost \subseteq InPool' \ {r} /\ progress' \subseteq InPool' /\ InPool' \subseteq Repos
  BY <1>1, <1>3, <1>6 DEF InPool
<1>8. OnlyUnstarted'
  BY <1>2, <1>6 DEF OnlyUnstarted
<1>9. IsFiniteSet(InPool') /\ Cardinality(InPool') \in Nat
      /\ Cardinality(progress') <= Cardinality(InPool')
  BY <1>7, Count
<1>10. Cardinality(InPool' \ {r}) = Cardinality(InPool') - 1
  BY <1>7, <1>9, FS_RemoveElement
<1>11. Cardinality(lost) <= Cardinality(InPool' \ {r}) /\ Cardinality(InPool' \ {r}) \in Nat
  <2>1. InPool' \ {r} \subseteq Repos
    BY <1>7
  <2> QED BY <1>7, <2>1, Count
<1>12. Cardinality(InPool') <= limit' /\ limit' \in Nat
  BY PoolCount DEF PoolFits
<1>13. Cardinality(lost) < limit' /\ Cardinality(progress') <= limit'
  BY <1>2, <1>9, <1>10, <1>11, <1>12
<1> QED BY <1>2, <1>8, <1>13 DEF Backs

Info == OnlyUnstarted /\ Backs(progress) /\ Backs(saved)

(* Every step keeps what the resume infos forget within bounds.            *)
LEMMA InfoStep ==
    ASSUME TypeOK, TypeOK', Loop, Loop', Info, [Next]_vars
    PROVE  Info'
<1> USE DEF TypeOK, Info
<1>0. limit \in Nat /\ limit >= 1
  BY PoolCount
<1>a. ASSUME Mine' = Mine, UNCHANGED <<limit, exist, saved>>, scanned \subseteq scanned'
      PROVE  /\ Backs(saved)'
             /\ progress' = progress =>
                   Backs(progress)' /\ Forgotten(progress)' \subseteq Forgotten(progress)
             /\ progress' = saved => Backs(progress)'
  <2>1. ASSUME NEW info, info \subseteq Repos, Backs(info)
        PROVE  /\ Cardinality((Mine' \ scanned') \ Filter(exist', info)) < limit'
               /\ (Mine' \ scanned') \ Filter(exist', info) \subseteq Forgotten(info)
    BY <1>a, <2>1, StillBacked
  <2>2. /\ Forgotten(saved)' = (Mine' \ scanned') \ Filter(exist', saved')
        /\ Forgotten(progress)' = (Mine' \ scanned') \ Filter(exist', progress')
    BY ForgottenNext
  <2> QED BY <1>a, <2>1, <2>2 DEF Backs
<1>b. ASSUME UNCHANGED <<progress, phase>>, Forgotten(progress)' \subseteq Forgotten(progress),
             \A r \in Forgotten(progress) :
                job[r] = "launched" \/ (ctxDone /\ job[r] = "left") =>
                    job'[r] = "launched" \/ (ctxDone' /\ job'[r] = "left")
      PROVE  OnlyUnstarted'
  BY <1>b DEF OnlyUnstarted
<1>c. ASSUME UNCHANGED progress, {} = Forgotten(progress)' PROVE OnlyUnstarted'
  BY <1>c DEF OnlyUnstarted
<1>d. Forgotten(progress) \subseteq Repos /\ Cardinality({}) = 0
  BY ForgottenIs, FS_EmptySet
<1>1. ASSUME NEW r \in Repos, Launch(r) PROVE Info'
  <2>1. /\ r \in todo /\ todo' = todo \ {r} /\ job' = [job EXCEPT ![r] = "launched"]
        /\ UNCHANGED <<limit, exist, phase, saved, progress, ctxDone, scanned>>
    BY <1>1 DEF Launch
  <2>2. Mine' = Mine
    BY <2>1 DEF Mine
  <2>3. OnlyUnstarted'
    BY <1>a, <1>b, <1>d, <2>1, <2>2
  <2> QED BY <1>a, <2>1, <2>2, <2>3
<1>2. ASSUME NEW r \in Repos, Start(r) PROVE Info'
  <2>1. /\ job[r] = "launched"
        /\ UNCHANGED <<limit, exist, phase, saved, todo, ctxDone, scanned>>
        /\ job' = [job EXCEPT ![r] = job'[r]] /\ job'[r] # "none"
        /\ ctxDone => job'[r] = "left" /\ progress' = progress
    BY <1>2 DEF Start
  <2>2. Mine' = Mine
    BY <2>1 DEF Mine
  <2>3. CASE ctxDone
    <3>1. OnlyUnstarted'
      BY <1>a, <1>b, <1>d, <2>1, <2>2, <2>3
    <3> QED BY <1>a, <2>1, <2>2, <2>3, <3>1
  <2>4. CASE ~ctxDone
    <3>1. OnlyUnstarted' /\ Backs(progress)'
      BY <1>2, <2>4, StartBacks
    <3> QED BY <1>a, <2>1, <2>2, <3>1
  <2> QED BY <2>3, <2>4
<1>3. ASSUME NEW r \in Repos, Scan(r) PROVE Info'
  <2>1. /\ job[r] = "scanning" /\ job' = [job EXCEPT ![r] = "scanned"]
        /\ scanned \subseteq scanned'
        /\ UNCHANGED <<limit, exist, phase, saved, progress, ctxDone, todo>>
    BY <1>3 DEF Scan
  <2>2. Mine' = Mine
    BY <2>1 DEF Mine
  <2>3. OnlyUnstarted'
    BY <1>a, <1>b, <1>d, <2>1, <2>2
  <2> QED BY <1>a, <2>1, <2>2, <2>3
<1>4. ASSUME NEW r \in Repos, RemoveFromInfo(r) PROVE Info'
  <2>1. /\ job[r] = "scanned" /\ job' = [job EXCEPT ![r] = "left"]
        /\ UNCHANGED <<limit, exist, phase, saved, progress, ctxDone, todo, scanned>>
    BY <1>4 DEF RemoveFromInfo
  <2>2. Mine' = Mine
    BY <2>1 DEF Mine
  <2>3. OnlyUnstarted'
    BY <1>a, <1>b, <1>d, <2>1, <2>2
  <2> QED BY <1>a, <2>1, <2>2, <2>3
<1>5. CASE Complete
  <2>1. /\ progress' = {} /\ phase' # "up"
        /\ UNCHANGED <<limit, exist, todo, job, saved, scanned>>
    BY <1>5 DEF Complete, runVars
  <2>2. Mine' = Mine
    BY <2>1 DEF Mine
  <2>3. Forgotten(progress)' = {}
    <3>1. Forgotten(progress)' = (Mine' \ scanned') \ Filter(exist', {})
      BY <2>1, ForgottenNext
    <3>2. Filter(exist', {}) = exist'
      BY FilterKeeps
    <3>3. Mine' \subseteq exist'
      BY DEF Mine, Loop, InOrder
    <3> QED BY <3>1, <3>2, <3>3
  <2>4. Backs(progress)'
    <3>1. Cardinality(progress') = 0
      BY <1>d, <2>1
    <3>2. Cardinality(Forgotten(progress)') = 0
      BY <1>d, <2>3
    <3>3. limit' \in Nat /\ limit' >= 1
      BY <1>0, <2>1
    <3>4. Cardinality(Forgotten(progress)') < limit' /\ Cardinality(progress') <= limit'
      BY <3>1, <3>2, <3>3
    <3> QED BY <3>4 DEF Backs
  <2>5. OnlyUnstarted'
    BY <2>1 DEF OnlyUnstarted
  <2> QED BY <1>a, <2>1, <2>2, <2>4, <2>5
<1>6. CASE Cancel
  <2>1. ctxDone' /\ UNCHANGED <<limit, exist, todo, job, phase, progress, saved, scanned>>
    BY <1>6 DEF Cancel
  <2>2. Mine' = Mine
    BY <2>1 DEF Mine
  <2>3. OnlyUnstarted'
    BY <1>a, <1>b, <2>1, <2>2
  <2> QED BY <1>a, <2>1, <2>2, <2>3
<1>7. CASE Save
  <2>1. saved' = progress /\ UNCHANGED <<limit, exist, todo, job, ctxDone, phase, progress, scanned>>
    BY <1>7 DEF Save, runVars
  <2>2. Forgotten(progress)' = Forgotten(progress) /\ Forgotten(saved)' = Forgotten(progress)
    BY <2>1 DEF Forgotten, Mine
  <2>3. OnlyUnstarted'
    BY <2>1, <2>2 DEF OnlyUnstarted
  <2> QED BY <2>1, <2>2, <2>3 DEF Backs
<1>8. CASE Crash
  <2>1. /\ progress' = saved /\ phase' # "up"
        /\ UNCHANGED <<limit, exist, todo, job, saved, scanned>>
    BY <1>8 DEF Crash, runVars
  <2>2. Mine' = Mine
    BY <2>1 DEF Mine
  <2>3. OnlyUnstarted'
    BY <2>1 DEF OnlyUnstarted
  <2> QED BY <1>a, <2>1, <2>2, <2>3
<1>9. CASE Restart
  <2>1. /\ job' = [r \in Repos |-> "none"] /\ todo' = ReposToScan(exist', saved)
        /\ progress' = saved /\ UNCHANGED <<limit, saved>>
    BY <1>9 DEF Restart
  <2>2. Forgotten(saved)' = {} /\ Forgotten(progress)' = {}
    BY <2>1 DEF Forgotten, Mine
  <2>3. OnlyUnstarted'
    BY <2>2 DEF OnlyUnstarted
  <2> QED BY <1>0, <1>d, <2>1, <2>2, <2>3 DEF Backs
<1>10. CASE UNCHANGED vars
  BY <1>10 DEF vars, runVars, OnlyUnstarted, Backs, Forgotten, Mine
<1> QED BY <1>1, <1>2, <1>3, <1>4, <1>5, <1>6, <1>7, <1>8, <1>9, <1>10 DEF Next

-----------------------------------------------------------------------------
(* One run more costs one repository fewer than there are workers.         *)
LEMMA OneRunMore ==
    ASSUME NEW runs \in Nat, NEW others \in Nat, NEW a \in Nat, NEW b \in Nat,
           a <= runs * others, b <= others
    PROVE  a + b <= (runs + 1) * others
<1>1. runs * others \in Int
  OBVIOUS
<1>2. (runs + 1) * others = runs * others + others
  OBVIOUS
<1> QED BY <1>1, <1>2

(* What the resume info saved would not come back to: what earlier runs    *)
(* missed, and what it forgets.                                            *)
LEMMA CostOfRestart ==
    ASSUME TypeOK, Backs(saved), History, exist = Repos \/ limit = 1
    PROVE  /\ (exist \ scanned) \ Filter(exist, saved) \subseteq Missed \cup Forgotten(saved)
           /\ Cardinality((exist \ scanned) \ Filter(exist, saved)) \in Nat
           /\ Cardinality((exist \ scanned) \ Filter(exist, saved)) <= (restarts + 1) * (limit - 1)
<1> USE DEF TypeOK
<1> DEFINE lost == (exist \ scanned) \ Filter(exist, saved)
<1>1. /\ Forgotten(saved) = (Mine \ scanned) \ Filter(exist, saved)
      /\ Forgotten(saved) \subseteq Repos
  BY ForgottenIs
<1>2. lost \subseteq Missed \cup Forgotten(saved)
  BY <1>1 DEF Missed
<1>3. Missed \subseteq Repos
  BY DEF Missed
<1>4. /\ IsFiniteSet(Missed) /\ IsFiniteSet(Forgotten(saved))
      /\ Cardinality(Missed) \in Nat /\ Cardinality(Forgotten(saved)) \in Nat
  BY <1>1, <1>3, Count
<1>5. Cardinality(Missed \cup Forgotten(saved)) <= Cardinality(Missed) + Cardinality(Forgotten(saved))
  <2>1. Missed \cap Forgotten(saved) \subseteq Repos
    BY <1>3
  <2>2. Cardinality(Missed \cap Forgotten(saved)) \in Nat
    BY <2>1, Count
  <2>3. Cardinality(Missed \cup Forgotten(saved))
           = Cardinality(Missed) + Cardinality(Forgotten(saved))
                - Cardinality(Missed \cap Forgotten(saved))
    BY <1>4, FS_Union
  <2> QED BY <1>4, <2>2, <2>3
<1>6. /\ Cardinality(lost) \in Nat /\ Cardinality(Missed \cup Forgotten(saved)) \in Nat
      /\ Cardinality(lost) <= Cardinality(Missed \cup Forgotten(saved))
  <2>1. Missed \cup Forgotten(saved) \subseteq Repos
    BY <1>1, <1>3
  <2> QED BY <1>2, <2>1, Count
<1>7. limit - 1 \in Nat /\ limit \in Nat /\ restarts \in Nat
  BY PoolCount
<1>8. Cardinality(Forgotten(saved)) <= limit - 1
  BY <1>4, <1>7 DEF Backs
<1>9. Cardinality(Missed) + Cardinality(Forgotten(saved)) <= (restarts + 1) * (limit - 1)
  BY <1>4, <1>7, <1>8, OneRunMore DEF History
<1>10. (restarts + 1) * (limit - 1) \in Int
  BY <1>7
<1>11. Cardinality(lost) <= (restarts + 1) * (limit - 1)
  BY <1>4, <1>5, <1>6, <1>9, <1>10
<1> QED BY <1>2, <1>6, <1>11

(* A set with no more than one element.                                    *)
LEMMA AtMostOne ==
    ASSUME NEW S, S \subseteq Repos, Cardinality(S) <= 1
    PROVE  \A a, b \in S : a = b
<1> SUFFICES ASSUME NEW a \in S, NEW b \in S, a # b PROVE FALSE
  OBVIOUS
<1>1. IsFiniteSet(S) /\ Cardinality(S) \in Nat
  BY Count
<1>2. Cardinality(S \ {a}) = Cardinality(S) - 1 /\ IsFiniteSet(S \ {a})
  BY <1>1, FS_RemoveElement
<1>3. Cardinality(S \ {a}) = 0
  <2>1. Cardinality(S \ {a}) \in Nat
    BY <1>2, FS_CardinalityType
  <2> QED BY <1>1, <1>2, <2>1
<1>4. S \ {a} = {}
  BY <1>2, <1>3, FS_EmptySet
<1> QED BY <1>4

LEMMA NoneLeft ==
    ASSUME NEW S, S \subseteq Repos, Cardinality(S) <= 0
    PROVE  S = {}
<1>1. IsFiniteSet(S) /\ Cardinality(S) \in Nat
  BY Count
<1>2. Cardinality(S) = 0
  BY <1>1
<1> QED BY <1>1, <1>2, FS_EmptySet

(* Every step keeps the cost of the history: a restart adds what the       *)
(* resume info forgets; with one worker it names one repository at most,   *)
(* and a deletion hides none.                                              *)
LEMMA HistoryStep ==
    ASSUME TypeOK, TypeOK', Loop, Info, History, [Next]_vars
    PROVE  History'
<1> USE DEF TypeOK
<1>0. limit \in Nat /\ limit - 1 \in Nat /\ restarts \in Nat
  BY PoolCount
<1>1. CASE Restart
  <2>1. /\ exist' \subseteq exist /\ restarts' = restarts + 1 /\ UNCHANGED <<limit, saved, scanned>>
        /\ job' = [r \in Repos |-> "none"] /\ todo' = ReposToScan(exist', saved)
    BY <1>1 DEF Restart
  <2>2. Missed' = (exist' \ scanned) \ Filter(exist', saved)
    <3>1. Mine' = todo'
      BY <2>1 DEF Mine
    <3>2. ReposToScan(exist', saved) = Filter(exist', saved)
      BY ScanFilters
    <3> QED BY <2>1, <3>1, <3>2 DEF Missed
  <2>3. CASE exist' = Repos
    <3>1. exist = Repos
      BY <2>1, <2>3
    <3>2. Cardinality((exist \ scanned) \ Filter(exist, saved)) <= (restarts + 1) * (limit - 1)
      BY <3>1, CostOfRestart DEF Info
    <3> QED BY <2>1, <2>2, <2>3, <3>1, <3>2 DEF History
  <2>4. CASE limit' = 1
    <3>1. /\ Cardinality((exist \ scanned) \ Filter(exist, saved)) \in Nat
          /\ Cardinality((exist \ scanned) \ Filter(exist, saved)) <= (restarts + 1) * (limit - 1)
      BY <2>1, <2>4, CostOfRestart DEF Info
    <3>2. (restarts + 1) * (limit - 1) = 0
      BY <1>0, <2>1, <2>4
    <3>3. (exist \ scanned) \ Filter(exist, saved) = {}
      BY <3>1, <3>2, NoneLeft
    <3>4. \A a, b \in saved : a = b
      <4>1. Cardinality(saved) <= 1 /\ saved \subseteq Repos
        BY <2>1, <2>4 DEF Info, Backs
      <4> QED BY <4>1, AtMostOne, Zenon
    <3>5. ASSUME NEW r \in exist' \ scanned PROVE r \in Filter(exist', saved)
      <4>1. r \in Filter(exist, saved)
        BY <2>1, <3>3
      <4> QED BY <2>1, <3>4, <4>1, OneName
    <3>6. Missed' = {}
      BY <2>2, <3>5
    <3>7. Cardinality(Missed') = 0
      BY <3>6, FS_EmptySet
    <3>8. restarts' * (limit' - 1) = 0
      BY <1>0, <2>1, <2>4
    <3> QED BY <3>7, <3>8 DEF History
  <2> QED BY <2>3, <2>4 DEF History
<1>a. ASSUME UNCHANGED <<limit, exist, restarts>>, scanned \subseteq scanned', Mine' = Mine
      PROVE  History'
  <2>1. Missed' \subseteq Missed /\ Missed \subseteq Repos
    BY <1>a DEF Missed
  <2>2. /\ Cardinality(Missed') <= Cardinality(Missed)
        /\ Cardinality(Missed') \in Nat /\ Cardinality(Missed) \in Nat
    BY <2>1, Count
  <2>3. restarts * (limit - 1) \in Int
    BY <1>0
  <2>4. CASE exist = Repos \/ limit = 1
    <3>1. Cardinality(Missed) <= restarts * (limit - 1)
      BY <2>4 DEF History
    <3>2. Cardinality(Missed') <= restarts * (limit - 1)
      BY <2>2, <2>3, <3>1
    <3> QED BY <1>a, <3>2 DEF History
  <2> QED BY <1>a, <2>4 DEF History
<1>2. ASSUME NEW r \in Repos, Launch(r) PROVE History'
  BY <1>2, <1>a DEF Launch, Mine
<1>3. ASSUME NEW r \in Repos, Start(r) PROVE History'
  <2>1. /\ job[r] = "launched" /\ UNCHANGED <<limit, exist, restarts, todo, scanned>>
        /\ job' = [job EXCEPT ![r] = job'[r]] /\ job'[r] # "none"
    BY <1>3 DEF Start
  <2> QED BY <2>1, <1>a DEF Mine
<1>4. ASSUME NEW r \in Repos, Scan(r) PROVE History'
  BY <1>4, <1>a DEF Scan, Mine
<1>5. ASSUME NEW r \in Repos, RemoveFromInfo(r) PROVE History'
  BY <1>5, <1>a DEF RemoveFromInfo, Mine
<1>6. CASE Complete \/ Cancel \/ Save \/ Crash \/ UNCHANGED vars
  <2>1. UNCHANGED <<limit, exist, restarts, todo, job, scanned>>
    BY <1>6 DEF Complete, Cancel, Save, Crash, vars, runVars
  <2> QED BY <1>a, <2>1 DEF Mine
<1> QED BY <1>1, <1>2, <1>3, <1>4, <1>5, <1>6 DEF Next

-----------------------------------------------------------------------------
LEMMA Inductive ==
    /\ Init => IInv
    /\ IInv /\ [Next]_vars => IInv'
<1>1. ASSUME Init PROVE IInv
  <2>1. TypeOK /\ Stops
    BY <1>1, TypeInit
  <2>2. limit \in Nat /\ limit >= 1
    BY <2>1, PoolCount DEF TypeOK
  <2>3. InPool = {} /\ Mine = Repos /\ exist = Repos
    BY <1>1 DEF Init, InPool, Mine
  <2>4. Forgotten({}) = {} /\ Missed = {}
    BY <2>1, <2>3, ForgottenIs, FilterKeeps DEF Missed
  <2>5. Cardinality({}) = 0
    BY FS_EmptySet
  <2>6. InOrder /\ Held /\ AllDone
    BY <1>1 DEF Init, InOrder, Held, AllDone
  <2>7. progress = {} /\ saved = {} /\ restarts = 0
    BY <1>1 DEF Init
  <2>8. PoolFits /\ OnlyUnstarted
    BY <2>2, <2>3, <2>4, <2>5, <2>7 DEF PoolFits, OnlyUnstarted
  <2>9. Backs({})
    BY <2>2, <2>4, <2>5 DEF Backs
  <2>10. History
    BY <2>2, <2>4, <2>5, <2>7 DEF History
  <2> QED BY <2>1, <2>6, <2>7, <2>8, <2>9, <2>10 DEF IInv, Loop
<1>2. ASSUME IInv, [Next]_vars PROVE IInv'
  <2>1. TypeOK' /\ Stops'
    BY <1>2, TypeStep DEF IInv, Loop
  <2>2. Loop'
    BY <1>2, <2>1, LoopStep DEF IInv, Loop
  <2>3. Info'
    BY <1>2, <2>1, <2>2, InfoStep DEF IInv, Info
  <2>4. History'
    BY <1>2, <2>1, HistoryStep DEF IInv, Info
  <2> QED BY <2>1, <2>2, <2>3, <2>4 DEF IInv, Info
<1> QED BY <1>1, <1>2

(* The state of the source is well formed; in particular a restart is      *)
(* never counted beyond the crashes and cancelled scans there were.        *)
THEOREM TypeCorrect == Spec => []TypeOK
<1>1. IInv => TypeOK
  BY DEF IInv
<1> QED BY <1>1, Inductive, PTL DEF Spec

(* Whatever the order of the names, the size of the pool and the moment of *)
(* a crash: a crash just after the progress is saved forgets nothing that  *)
(* is being scanned and nothing the loop has not reached, and of what the  *)
(* workers hold fewer repositories than there are workers.                 *)
THEOREM CrashForgetsFew == Spec => []ForgottenAreUnstarted
<1>1. IInv => ForgottenAreUnstarted
  BY DEF IInv, OnlyUnstarted, Backs, ForgottenAreUnstarted
<1> QED BY <1>1, Inductive, PTL DEF Spec

(* Over any history of saves, crashes and restarts with a stable list, or  *)
(* with one worker, the repositories a completed scan has not scanned are  *)
(* at most one fewer than the workers for each restart.                    *)
THEOREM RestartsCostFew == Spec => []FewAreForgotten
<1>1. ASSUME IInv PROVE FewAreForgotten
  <2> SUFFICES ASSUME exist = Repos \/ limit = 1
               PROVE  /\ phase = "complete" =>
                            Cardinality(exist \ scanned) <= restarts * (limit - 1)
                      /\ Cardinality((exist \ scanned) \ ReposToScan(exist, saved))
                            <= (restarts + 1) * (limit - 1)
    BY DEF FewAreForgotten
  <2>1. ASSUME phase = "complete"
        PROVE  Cardinality(exist \ scanned) <= restarts * (limit - 1)
    <3>1. todo = {} /\ InPool = {} /\ ~ctxDone
      BY <1>1, <2>1 DEF IInv, Loop, AllDone
    <3>2. Mine \subseteq scanned
      <4>1. ASSUME NEW r \in Mine PROVE r \in scanned
        <5>1. r \in Repos /\ job[r] # "none" /\ r \notin InPool
          BY <3>1 DEF Mine
        <5>2. job[r] = "left"
          BY <1>1, <5>1 DEF IInv, TypeOK, InPool
        <5> QED BY <1>1, <3>1, <5>1, <5>2 DEF IInv, Loop, Held
      <4> QED BY <4>1
    <3>3. exist \ scanned = Missed
      BY <3>2 DEF Missed
    <3> QED BY <1>1, <3>3 DEF IInv, History
  <2>2. ReposToScan(exist, saved) = Filter(exist, saved)
    BY <1>1, ScanFilters DEF IInv, TypeOK
  <2> QED BY <1>1, <2>1, <2>2, CostOfRestart DEF IInv
<1> QED BY <1>1, Inductive, PTL DEF Spec
=============================================================================
