------------------------ MODULE SourceManagerProofs ------------------------
(***************************************************************************)
(* Proofs about SourceManager, for every set of jobs, units and chunks,    *)
(* every limit and capacity, whatever fails or is cancelled: the type of   *)
(* its state, the semaphore, the quiet of the closed output channel, the   *)
(* error that Wait returns, the chunks, the progress hooks, and the stream *)
(* it promises to the engine.                                              *)
(***************************************************************************)
EXTENDS SourceManager, FiniteSetTheorems, TLAPS

(* The jobs between Acquire and Release. *)
Held == {j \in Jobs : jpc[j] \in {"start", "range", "wait", "release"}}

Slots == IsFiniteSet(Held) /\ sem = Cardinality(Held)

(* A job that has not passed the semaphore is new; Wait comes after all.   *)
Submission ==
    /\ \A j \in unsubmitted : jpc[j] = "new"
    /\ asking # None => /\ mpc = "submit" /\ asking \notin unsubmitted
                        /\ jpc[asking] = "new"
    /\ outputClosed <=> mpc # "submit"
    /\ hooksClosed <=> mpc = "returned"
    /\ mpc # "submit" => unsubmitted = {} /\ Running = {}

(* What a job and its enumerating goroutine pass on are units of the job.  *)
OwnUnits ==
    \A j \in Jobs : /\ jhold[j] \in UnitsOf[j] \cup {None}
                    /\ etodo[j] \subseteq UnitsOf[j]
                    /\ unitCh[j] \in Seq(UnitsOf[j])

(* The goroutines of a job run inside it, and a consumer sends what it has. *)
Inside ==
    /\ \A j \in Jobs : epc[j] \in {"start", "enum", "close"} => jpc[j] = "range"
    /\ \A u \in Units :
          /\ cpc[u] \in {"recv", "send", "end"} =>
                \E j \in Jobs : u \in UnitsOf[j] /\ jpc[j] \in {"range", "wait"}
          /\ upc[u] \in {"begin", "chunk"} => cpc[u] \in {"recv", "send"}
          /\ cpc[u] = "send" => chold[u] # None

(* An error is on its way to Wait: with its job, or in the channel.        *)
Errors ==
    /\ firstErr # None => firstErr \in fatal
    /\ \A j \in fatal : jpc[j] \in {"range", "wait"} \/ firstErr # None
    /\ mpc # "submit" => waitErr = firstErr

IInv == TypeOK /\ Slots /\ Submission /\ OwnUnits /\ Inside /\ Errors

-----------------------------------------------------------------------------
(* Which actions change a part of the state. *)
LEMMA WhoTouches ==
    ASSUME [Next]_vars
    PROVE  /\ \/ UNCHANGED <<mpc, unsubmitted, asking>>
              \/ \E j \in Jobs : Reject(j) \/ Submit(j)
              \/ Acquire \/ AcquireFails \/ WaitClose \/ WaitHooks
           /\ \/ UNCHANGED parentDone
              \/ CancelParent
           /\ \/ UNCHANGED sem
              \/ Acquire
              \/ \E j \in Jobs : JobRelease(j)
           /\ \/ UNCHANGED jpc
              \/ Acquire \/ AcquireFails
              \/ \E j \in Jobs :
                    \/ Reject(j) \/ JobStart(j) \/ JobRangeEnd(j) \/ JobEnd(j)
                    \/ JobRelease(j) \/ JobFinish(j) \/ JobDone(j)
           /\ \/ UNCHANGED <<jhold, etodo, unitCh>>
              \/ \E j \in Jobs : \/ JobRecvUnit(j) \/ JobStartUnit(j)
                                 \/ \E u \in Units : EnumUnit(j, u)
           /\ \/ UNCHANGED epc
              \/ \E j \in Jobs :
                    \/ JobStart(j) \/ EnumStart(j) \/ EnumFail(j)
                    \/ EnumReturn(j) \/ EnumClose(j) \/ EnumEnd(j)
           /\ \/ UNCHANGED <<upc, cpc>>
              \/ \E j \in Jobs : JobStart(j) \/ JobStartUnit(j)
              \/ \E u \in Units :
                    \/ UnitStart(u) \/ UnitFail(u) \/ UnitReturn(u)
                    \/ ConsumerRecv(u) \/ ConsumerSend(u) \/ ConsumerEnd(u)
                    \/ ConsumerDone(u)
           /\ \/ UNCHANGED <<utodo, uch, chold, output, delivered>>
              \/ \E u \in Units : \/ ConsumerRecv(u) \/ ConsumerSend(u)
                                  \/ \E c \in Chunks : UnitChunk(u, c)
              \/ Deliver
           /\ \/ UNCHANGED fatal
              \/ \E j \in Jobs : EnumFail(j)
              \/ \E u \in Units : UnitFail(u)
           /\ \/ UNCHANGED firstErr
              \/ \E j \in Jobs : JobEnd(j)
           /\ \/ UNCHANGED <<waitErr, outputClosed>>
              \/ WaitClose
           /\ \/ UNCHANGED hooksClosed
              \/ WaitHooks
           /\ \/ UNCHANGED fired
              \/ AcquireFails
              \/ \E j \in Jobs : \/ JobStart(j) \/ JobEnd(j) \/ JobFinish(j)
                                 \/ EnumStart(j) \/ EnumEnd(j)
              \/ \E u \in Units : UnitStart(u) \/ ConsumerEnd(u)
<1> USE DEF mainVars, jobVars, enumVars, unitVars, consVars, errVars, outVars,
            hookVars
<1>1. CASE MainStep
  BY <1>1 DEF MainStep, Reject, Submit, Acquire, AcquireFails, WaitClose, WaitHooks
<1>2. CASE CancelParent \/ \E j \in Jobs : CancelRun(j)
  BY <1>2 DEF CancelParent, CancelRun
<1>3. CASE \E j \in Jobs : JobStep(j)
  BY <1>3 DEF JobStep, JobStart, JobRecvUnit, JobStartUnit, JobRangeEnd, JobEnd,
     JobRelease, JobFinish, JobDone
<1>4. CASE \E j \in Jobs : EnumStep(j)
  BY <1>4 DEF EnumStep, EnumStart, EnumUnit, EnumFail, EnumReturn, EnumClose,
     EnumEnd
<1>5. CASE \E u \in Units : UnitStep(u)
  BY <1>5 DEF UnitStep, UnitStart, UnitChunk, UnitFail, UnitReturn
<1>6. CASE \E u \in Units : ConsumerStep(u)
  BY <1>6 DEF ConsumerStep, ConsumerRecv, ConsumerSend, ConsumerEnd, ConsumerDone
<1>7. CASE Deliver
  BY <1>7 DEF Deliver
<1>8. CASE UNCHANGED vars
  BY <1>8 DEF vars
<1> QED BY <1>1, <1>2, <1>3, <1>4, <1>5, <1>6, <1>7, <1>8 DEF Next, Returned

-----------------------------------------------------------------------------
(* At first nothing holds the semaphore and nothing runs. *)
LEMMA InitInv == Init => IInv
<1> SUFFICES ASSUME Init PROVE IInv
  OBVIOUS
<1>1. Held = {}
  BY DEF Init, Held
<1>2. Slots
  BY <1>1, FS_EmptySet DEF Init, Slots
<1>3. TypeOK
  <2>1. /\ etodo \in [Jobs -> SUBSET Units] /\ utodo \in [Units -> SUBSET Chunks]
        /\ unitCh \in [Jobs -> Seq(Units)] /\ uch \in [Units -> Seq(Chunks)]
        /\ output \in Seq(Chunks)
    BY SourceAssumption DEF Init
  <2>2. sem \in 0..Limit
    BY LimitAssumption DEF Init
  <2>3. /\ jpc \in [Jobs -> {"new"}] /\ jhold \in [Jobs -> {None}]
        /\ epc \in [Jobs -> {"off"}] /\ upc \in [Units -> {"off"}]
        /\ cpc \in [Units -> {"off"}] /\ chold \in [Units -> {None}]
    BY DEF Init
  <2> QED
    BY <2>1, <2>2, <2>3 DEF Init, TypeOK
<1>4. Submission /\ OwnUnits /\ Inside /\ Errors
  BY SourceAssumption DEF Init, Submission, OwnUnits, Inside, Errors
<1> QED
  BY <1>2, <1>3, <1>4 DEF IInv

(* The semaphore follows the jobs that hold a place in it. *)
LEMMA SlotsStep ==
    ASSUME TypeOK, Slots, Submission, [Next]_vars
    PROVE  Slots'
<1>1. ASSUME Acquire PROVE Slots'
  <2>1. Held' = Held \cup {asking} /\ asking \notin Held
    BY <1>1, SourceAssumption DEF Acquire, Held, TypeOK, Submission
  <2> QED BY <1>1, <2>1, FS_AddElement DEF Acquire, Slots
<1>2. ASSUME NEW j \in Jobs, JobRelease(j) PROVE Slots'
  <2>1. Held' = Held \ {j} /\ j \in Held
    BY <1>2 DEF JobRelease, Held, TypeOK
  <2> QED BY <1>2, <2>1, FS_RemoveElement DEF JobRelease, Slots
<1>3. ASSUME AcquireFails PROVE Held' = Held /\ UNCHANGED sem
  BY <1>3 DEF AcquireFails, Held, TypeOK, Submission
<1>4. ASSUME NEW j \in Jobs,
             \/ Reject(j) \/ JobStart(j) \/ JobRangeEnd(j) \/ JobEnd(j)
             \/ JobFinish(j) \/ JobDone(j)
      PROVE  Held' = Held /\ UNCHANGED sem
  BY <1>4 DEF Reject, JobStart, JobRangeEnd, JobEnd, JobFinish, JobDone, Held,
     TypeOK, Submission
<1>5. CASE UNCHANGED <<jpc, sem>>
  BY <1>5 DEF Slots, Held
<1>6. CASE Held' = Held /\ UNCHANGED sem
  BY <1>6 DEF Slots
<1> QED BY <1>1, <1>2, <1>3, <1>4, <1>5, <1>6, WhoTouches

(* A unit belongs to one job. *)
LEMMA OwnerIsJob ==
    ASSUME NEW j \in Jobs, NEW u \in UnitsOf[j]
    PROVE  u \in Units /\ JobOf(u) = j
BY SourceAssumption DEF JobOf

(* Every step keeps the types; the count of the semaphore is natural since *)
(* it is a cardinality.                                                    *)
LEMMA TypeStep ==
    ASSUME TypeOK, Slots, Slots', OwnUnits, Inside, [Next]_vars
    PROVE  TypeOK'
<1> USE DEF mainVars, jobVars, enumVars, unitVars, consVars, errVars, outVars,
            hookVars, Fire, Events
<1>n. sem' \in Nat
  BY FS_CardinalityType DEF Slots
<1>1. ASSUME NEW j \in Jobs, Reject(j) \/ Submit(j) PROVE TypeOK'
  BY <1>1 DEF Reject, Submit, TypeOK
<1>2. ASSUME Acquire PROVE TypeOK'
  BY <1>2, LimitAssumption DEF Acquire, TypeOK
<1>3. ASSUME AcquireFails PROVE TypeOK'
  BY <1>3 DEF AcquireFails, TypeOK
<1>4. ASSUME WaitClose \/ WaitHooks \/ CancelParent PROVE TypeOK'
  BY <1>4 DEF WaitClose, WaitHooks, CancelParent, TypeOK
<1>5. ASSUME Deliver PROVE TypeOK'
  <2>1. Head(output) \in Chunks /\ Tail(output) \in Seq(Chunks)
    BY <1>5 DEF Deliver, TypeOK
  <2> QED BY <1>5, <2>1 DEF Deliver, TypeOK
<1>6. ASSUME NEW j \in Jobs, CancelRun(j) PROVE TypeOK'
  BY <1>6 DEF CancelRun, TypeOK
<1>7. ASSUME NEW j \in Jobs, JobStart(j) PROVE TypeOK'
  <2>1. fired' \subseteq Events
    BY <1>7 DEF JobStart, TypeOK
  <2>2. upc' \in [Units -> {"off", "begin", "chunk", "closed", "failed"}]
    BY <1>7 DEF JobStart, TypeOK
  <2>3. cpc' \in [Units -> {"off", "recv", "send", "end", "gone"}]
    BY <1>7 DEF JobStart, TypeOK
  <2>4. jpc' \in [Jobs -> {"new", "rejected", "start", "range", "wait", "release",
                           "finish", "done", "gone"}]
    <3>1. \E at \in {"range", "wait"} : jpc' = [jpc EXCEPT ![j] = at]
      BY <1>7 DEF JobStart
    <3> QED BY <3>1 DEF TypeOK
  <2>5. epc' \in [Jobs -> {"off", "start", "enum", "close", "closed", "gone"}]
    BY <1>7 DEF JobStart, TypeOK
  <2>6. UNCHANGED <<mainVars, sem, jhold, etodo, unitCh, utodo, uch, chold,
                    errVars, outVars, hooksClosed>>
    BY <1>7 DEF JobStart
  <2> QED BY <2>1, <2>2, <2>3, <2>4, <2>5, <2>6 DEF TypeOK
<1>8. ASSUME NEW j \in Jobs, JobRecvUnit(j) PROVE TypeOK'
  <2>1. Head(unitCh[j]) \in Units /\ Tail(unitCh[j]) \in Seq(Units)
    BY <1>8 DEF JobRecvUnit, TypeOK
  <2> QED BY <1>8, <2>1 DEF JobRecvUnit, TypeOK
<1>9. ASSUME NEW j \in Jobs, JobStartUnit(j) \/ JobRangeEnd(j) PROVE TypeOK'
  <2>1. CASE JobStartUnit(j)
    BY <2>1 DEF JobStartUnit, TypeOK
  <2>2. CASE JobRangeEnd(j)
    BY <2>2 DEF JobRangeEnd, TypeOK
  <2> QED BY <1>9, <2>1, <2>2
<1>10. ASSUME NEW j \in Jobs, JobEnd(j) \/ JobFinish(j) \/ JobDone(j) PROVE TypeOK'
  <2>1. CASE JobEnd(j)
    BY <2>1 DEF JobEnd, TypeOK
  <2>2. CASE JobFinish(j)
    BY <2>2 DEF JobFinish, TypeOK
  <2>3. CASE JobDone(j)
    BY <2>3 DEF JobDone, TypeOK
  <2> QED BY <1>10, <2>1, <2>2, <2>3
<1>11. ASSUME NEW j \in Jobs, JobRelease(j) PROVE TypeOK'
  BY <1>11, <1>n, LimitAssumption DEF JobRelease, TypeOK
<1>12. ASSUME NEW j \in Jobs, EnumStart(j) \/ EnumEnd(j) PROVE TypeOK'
  <2>1. CASE EnumStart(j)
    BY <2>1 DEF EnumStart, TypeOK
  <2>2. CASE EnumEnd(j)
    BY <2>2 DEF EnumEnd, TypeOK
  <2> QED BY <1>12, <2>1, <2>2
<1>13. ASSUME NEW j \in Jobs, EnumFail(j) \/ EnumReturn(j) \/ EnumClose(j)
       PROVE  TypeOK'
  BY <1>13 DEF EnumFail, EnumReturn, EnumClose, TypeOK
<1>14. ASSUME NEW j \in Jobs, NEW u \in Units, EnumUnit(j, u) PROVE TypeOK'
  <2>1. etodo' \in [Jobs -> SUBSET Units]
    BY <1>14 DEF EnumUnit, TypeOK
  <2>2. unitCh' \in [Jobs -> Seq(Units)]
    BY <1>14 DEF EnumUnit, TypeOK
  <2>3. UNCHANGED <<mainVars, sem, jobVars, epc, unitVars, consVars, errVars,
                    outVars, hookVars>>
    BY <1>14 DEF EnumUnit
  <2> QED BY <2>1, <2>2, <2>3 DEF TypeOK
<1>15. ASSUME NEW u \in Units, UnitStart(u) \/ UnitReturn(u) PROVE TypeOK'
  <2>1. CASE UnitStart(u)
    BY <2>1 DEF UnitStart, TypeOK
  <2>2. CASE UnitReturn(u)
    BY <2>2 DEF UnitReturn, TypeOK
  <2> QED BY <1>15, <2>1, <2>2
<1>16. ASSUME NEW u \in Units, UnitFail(u) PROVE TypeOK'
  <2>1. JobOf(u) \in Jobs
    BY <1>16, OwnerIsJob DEF UnitFail, Inside
  <2> QED BY <1>16, <2>1 DEF UnitFail, TypeOK
<1>17. ASSUME NEW u \in Units, NEW c \in Chunks, UnitChunk(u, c) PROVE TypeOK'
  BY <1>17 DEF UnitChunk, TypeOK
<1>18. ASSUME NEW u \in Units, ConsumerRecv(u) PROVE TypeOK'
  <2>1. Head(uch[u]) \in Chunks /\ Tail(uch[u]) \in Seq(Chunks)
    BY <1>18 DEF ConsumerRecv, TypeOK
  <2> QED BY <1>18, <2>1 DEF ConsumerRecv, TypeOK
<1>19. ASSUME NEW u \in Units, ConsumerSend(u) PROVE TypeOK'
  <2>1. chold[u] \in Chunks
    BY <1>19 DEF ConsumerSend, Inside, TypeOK
  <2> QED BY <1>19, <2>1 DEF ConsumerSend, TypeOK
<1>20. ASSUME NEW u \in Units, ConsumerEnd(u) \/ ConsumerDone(u) PROVE TypeOK'
  <2>1. CASE ConsumerEnd(u)
    BY <2>1 DEF ConsumerEnd, TypeOK
  <2>2. CASE ConsumerDone(u)
    BY <2>2 DEF ConsumerDone, TypeOK
  <2> QED BY <1>20, <2>1, <2>2
<1>21. CASE UNCHANGED vars
  BY <1>21 DEF vars, TypeOK
<1> QED
  BY <1>1, <1>2, <1>3, <1>4, <1>5, <1>6, <1>7, <1>8, <1>9, <1>10, <1>11, <1>12,
     <1>13, <1>14, <1>15, <1>16, <1>17, <1>18, <1>19, <1>20, <1>21
     DEF Next, MainStep, JobStep, EnumStep, UnitStep, ConsumerStep, Returned

(* A job is new until it is submitted; Wait closes the output when the     *)
(* jobs that started have ended.                                           *)
LEMMA SubmissionStep ==
    ASSUME TypeOK, Submission, [Next]_vars
    PROVE  Submission'
<1> USE DEF mainVars, jobVars, errVars, outVars, hookVars
<1>1. ASSUME NEW j \in Jobs, Reject(j) \/ Submit(j) PROVE Submission'
  BY <1>1, SourceAssumption DEF Reject, Submit, Submission, Running, TypeOK
<1>2. ASSUME Acquire PROVE Submission'
  BY <1>2, SourceAssumption DEF Acquire, Submission, Running, TypeOK
<1>3. ASSUME AcquireFails PROVE Submission'
  BY <1>3, SourceAssumption DEF AcquireFails, Submission, Running, TypeOK
<1>4. ASSUME WaitClose \/ WaitHooks PROVE Submission'
  BY <1>4 DEF WaitClose, WaitHooks, Submission, Running, TypeOK
<1>5. ASSUME NEW j \in Jobs,
             \/ JobStart(j) \/ JobRangeEnd(j) \/ JobEnd(j) \/ JobRelease(j)
             \/ JobFinish(j) \/ JobDone(j)
      PROVE  Submission'
  <2>1. mpc = "submit" /\ jpc[j] \notin {"new", "rejected", "gone"}
    BY <1>5 DEF JobStart, JobRangeEnd, JobEnd, JobRelease, JobFinish, JobDone,
       Submission, Running, TypeOK
  <2>2. /\ UNCHANGED <<mpc, unsubmitted, asking, outputClosed, hooksClosed>>
        /\ \A i \in Jobs \ {j} : jpc'[i] = jpc[i]
    BY <1>5 DEF JobStart, JobRangeEnd, JobEnd, JobRelease, JobFinish, JobDone,
       TypeOK
  <2> QED BY <2>1, <2>2 DEF Submission, TypeOK
<1>6. CASE UNCHANGED <<mpc, unsubmitted, asking, jpc, outputClosed, hooksClosed>>
  BY <1>6 DEF Submission, Running
<1> QED BY <1>1, <1>2, <1>3, <1>4, <1>5, <1>6, WhoTouches

(* What a channel holds, and what is taken from it or put into it. *)
LEMMA ChannelType ==
    ASSUME NEW S, NEW s \in Seq(S)
    PROVE  /\ s # <<>> => Head(s) \in S /\ Tail(s) \in Seq(S)
           /\ \A m \in S : Append(s, m) \in Seq(S)
OBVIOUS

(* A job is given its own units only. *)
LEMMA OwnUnitsStep ==
    ASSUME TypeOK, OwnUnits, [Next]_vars
    PROVE  OwnUnits'
<1>1. ASSUME NEW j \in Jobs, JobRecvUnit(j) PROVE OwnUnits'
  <2>1. unitCh[j] \in Seq(UnitsOf[j]) /\ unitCh[j] # <<>>
    BY <1>1 DEF JobRecvUnit, OwnUnits
  <2>2. Head(unitCh[j]) \in UnitsOf[j] /\ Tail(unitCh[j]) \in Seq(UnitsOf[j])
    BY <2>1, ChannelType
  <2>3. /\ jhold' = [jhold EXCEPT ![j] = Head(unitCh[j])]
        /\ unitCh' = [unitCh EXCEPT ![j] = Tail(unitCh[j])]
        /\ UNCHANGED etodo
    BY <1>1 DEF JobRecvUnit
  <2> QED BY <2>2, <2>3 DEF OwnUnits, TypeOK
<1>2. ASSUME NEW j \in Jobs, JobStartUnit(j) PROVE OwnUnits'
  BY <1>2 DEF JobStartUnit, enumVars, OwnUnits, TypeOK
<1>3. ASSUME NEW j \in Jobs, NEW u \in Units, EnumUnit(j, u) PROVE OwnUnits'
  <2>1. unitCh[j] \in Seq(UnitsOf[j]) /\ u \in UnitsOf[j]
    BY <1>3 DEF EnumUnit, OwnUnits
  <2>2. Append(unitCh[j], u) \in Seq(UnitsOf[j])
    BY <2>1, ChannelType
  <2>3. /\ etodo' = [etodo EXCEPT ![j] = etodo[j] \ {u}]
        /\ unitCh' = [unitCh EXCEPT ![j] = Append(unitCh[j], u)]
        /\ UNCHANGED jhold
    BY <1>3 DEF EnumUnit, jobVars
  <2> QED BY <2>2, <2>3 DEF OwnUnits, TypeOK
<1>4. CASE UNCHANGED <<jhold, etodo, unitCh>>
  BY <1>4 DEF OwnUnits
<1> QED BY <1>1, <1>2, <1>3, <1>4, WhoTouches

(* A job without goroutines of its own may go on to any other place. *)
LEMMA JobElsewhere ==
    ASSUME TypeOK, Inside, NEW j \in Jobs,
           jpc[j] \notin {"range", "wait"},
           \A i \in Jobs \ {j} : jpc'[i] = jpc[i],
           UNCHANGED <<epc, upc, cpc, chold>>
    PROVE  Inside'
BY DEF Inside

(* A job ends its loop over the units when the enumeration has closed      *)
(* their channel, and ends itself when its consumers have ended.           *)
LEMMA InsideStep ==
    ASSUME TypeOK, Submission, OwnUnits, Inside, [Next]_vars
    PROVE  Inside'
<1> USE DEF mainVars, jobVars, enumVars, unitVars, consVars
<1>1. ASSUME Acquire \/ AcquireFails PROVE Inside'
  <2>1. asking \in Jobs /\ jpc[asking] \notin {"range", "wait"}
    BY <1>1 DEF Acquire, AcquireFails, Submission, TypeOK
  <2>2. /\ \A i \in Jobs \ {asking} : jpc'[i] = jpc[i]
        /\ UNCHANGED <<epc, upc, cpc, chold>>
    BY <1>1 DEF Acquire, AcquireFails, TypeOK
  <2> QED BY <2>1, <2>2, JobElsewhere
<1>2. ASSUME NEW j \in Jobs,
             Reject(j) \/ JobRelease(j) \/ JobFinish(j) \/ JobDone(j)
      PROVE  Inside'
  <2>1. jpc[j] \notin {"range", "wait"}
    BY <1>2 DEF Reject, JobRelease, JobFinish, JobDone, Submission
  <2>2. /\ \A i \in Jobs \ {j} : jpc'[i] = jpc[i]
        /\ UNCHANGED <<epc, upc, cpc, chold>>
    BY <1>2 DEF Reject, JobRelease, JobFinish, JobDone, TypeOK
  <2> QED BY <2>1, <2>2, JobElsewhere
<1>3. ASSUME NEW j \in Jobs, JobStart(j) PROVE Inside'
  <2>1. \A i \in Jobs : i # j => jpc'[i] = jpc[i]
    BY <1>3 DEF JobStart, TypeOK
  <2>2. jpc'[j] \in {"range", "wait"} /\ jpc[j] = "start"
    BY <1>3 DEF JobStart, TypeOK
  <2>3. CASE j \in WithUnits
    <3>1. /\ epc' = [epc EXCEPT ![j] = "start"]
          /\ jpc' = [jpc EXCEPT ![j] = "range"]
          /\ UNCHANGED <<upc, cpc, chold>>
      BY <1>3, <2>3 DEF JobStart
    <3> QED BY <2>1, <2>2, <3>1 DEF Inside, TypeOK
  <2>4. CASE j \notin WithUnits
    <3>1. /\ UNCHANGED <<epc, chold>>
          /\ upc' = [u \in Units |-> IF u \in UnitsOf[j] THEN "chunk" ELSE upc[u]]
          /\ cpc' = [u \in Units |-> IF u \in UnitsOf[j] THEN "recv" ELSE cpc[u]]
      BY <1>3, <2>4 DEF JobStart
    <3>2. \A i \in Jobs : epc'[i] \in {"start", "enum", "close"} => jpc'[i] = "range"
      BY <2>1, <2>2, <3>1 DEF Inside
    <3>3. ASSUME NEW u \in Units, cpc'[u] \in {"recv", "send", "end"}
          PROVE  \E i \in Jobs : u \in UnitsOf[i] /\ jpc'[i] \in {"range", "wait"}
      BY <2>1, <2>2, <3>1, <3>3 DEF Inside
    <3>4. ASSUME NEW u \in Units
          PROVE  /\ upc'[u] \in {"begin", "chunk"} => cpc'[u] \in {"recv", "send"}
                 /\ cpc'[u] = "send" => chold'[u] # None
      BY <3>1 DEF Inside
    <3> QED BY <3>2, <3>3, <3>4 DEF Inside
  <2> QED BY <2>3, <2>4
<1>4. ASSUME NEW j \in Jobs, JobStartUnit(j) PROVE Inside'
  <2>1. jhold[j] \in UnitsOf[j] /\ jhold[j] \in Units /\ jpc[j] = "range"
    BY <1>4 DEF JobStartUnit, OwnUnits, TypeOK
  <2>2. /\ upc' = [upc EXCEPT ![jhold[j]] = "begin"]
        /\ cpc' = [cpc EXCEPT ![jhold[j]] = "recv"]
        /\ UNCHANGED <<jpc, epc, chold>>
    BY <1>4 DEF JobStartUnit
  <2> QED BY <2>1, <2>2 DEF Inside, TypeOK
<1>5. ASSUME NEW j \in Jobs, JobRangeEnd(j) PROVE Inside'
  BY <1>5 DEF JobRangeEnd, Inside, TypeOK
<1>6. ASSUME NEW j \in Jobs, JobEnd(j) PROVE Inside'
  <2>1. /\ jpc' = [jpc EXCEPT ![j] = "release"] /\ jpc[j] = "wait"
        /\ UNCHANGED <<epc, upc, cpc, chold>>
    BY <1>6 DEF JobEnd
  <2>2. \A u \in UnitsOf[j] : cpc[u] \notin {"recv", "send", "end"}
    BY <1>6 DEF JobEnd, Consuming
  <2>3. \A i \in Jobs \ {j} : jpc'[i] = jpc[i]
    BY <2>1 DEF TypeOK
  <2>4. ASSUME NEW u \in Units, cpc[u] \in {"recv", "send", "end"}
        PROVE  \E i \in Jobs : u \in UnitsOf[i] /\ jpc'[i] \in {"range", "wait"}
    BY <2>2, <2>3, <2>4 DEF Inside
  <2>5. \A i \in Jobs : epc[i] \in {"start", "enum", "close"} => jpc'[i] = "range"
    BY <2>1, <2>3 DEF Inside
  <2> QED BY <2>1, <2>4, <2>5 DEF Inside
<1>7. ASSUME NEW j \in Jobs, EnumStart(j) \/ EnumFail(j) \/ EnumReturn(j)
      PROVE  Inside'
  BY <1>7 DEF EnumStart, EnumFail, EnumReturn, Inside, TypeOK
<1>8. ASSUME NEW j \in Jobs, EnumClose(j) \/ EnumEnd(j) PROVE Inside'
  BY <1>8 DEF EnumClose, EnumEnd, Inside, TypeOK
<1>9. ASSUME NEW u \in Units, UnitStart(u) PROVE Inside'
  BY <1>9 DEF UnitStart, Inside, TypeOK
<1>10. ASSUME NEW u \in Units, UnitFail(u) \/ UnitReturn(u) PROVE Inside'
  BY <1>10 DEF UnitFail, UnitReturn, Inside, TypeOK
<1>11. ASSUME NEW u \in Units, ConsumerRecv(u) PROVE Inside'
  <2>1. Head(uch[u]) \in Chunks
    BY <1>11, ChannelType DEF ConsumerRecv, TypeOK
  <2> QED BY <1>11, <2>1, SourceAssumption DEF ConsumerRecv, Inside, TypeOK
<1>12. ASSUME NEW u \in Units, ConsumerSend(u) PROVE Inside'
  BY <1>12 DEF ConsumerSend, Inside, TypeOK
<1>13. ASSUME NEW u \in Units, ConsumerEnd(u) PROVE Inside'
  BY <1>13 DEF ConsumerEnd, Inside, TypeOK
<1>14. ASSUME NEW u \in Units, ConsumerDone(u) PROVE Inside'
  BY <1>14 DEF ConsumerDone, Inside, TypeOK
<1>15. ASSUME NEW u \in Units, NEW c \in Chunks, UnitChunk(u, c) PROVE Inside'
  BY <1>15 DEF UnitChunk, Inside
<1>16. ASSUME Deliver PROVE Inside'
  BY <1>16 DEF Deliver, Inside
<1>17. CASE UNCHANGED <<jpc, epc, upc, cpc, chold>>
  BY <1>17 DEF Inside
<1> QED
  BY <1>1, <1>2, <1>3, <1>4, <1>5, <1>6, <1>7, <1>8, <1>9, <1>10, <1>11, <1>12,
     <1>13, <1>14, <1>15, <1>16, <1>17, WhoTouches

(* A source fails within its job, which then has not put its error yet.    *)
LEMMA ErrorsStep ==
    ASSUME TypeOK, Submission, Inside, Errors, [Next]_vars
    PROVE  Errors'
<1> USE DEF mainVars, jobVars, errVars
<1>1. ASSUME Acquire \/ AcquireFails PROVE Errors'
  <2>1. asking \in Jobs /\ jpc[asking] = "new"
    BY <1>1 DEF Acquire, AcquireFails, Submission, TypeOK
  <2>2. /\ \A i \in Jobs \ {asking} : jpc'[i] = jpc[i]
        /\ UNCHANGED <<mpc, fatal, firstErr, waitErr>>
    BY <1>1 DEF Acquire, AcquireFails, TypeOK
  <2> QED BY <2>1, <2>2 DEF Errors, TypeOK
<1>2. ASSUME NEW j \in Jobs,
             \/ Reject(j) \/ JobStart(j) \/ JobRangeEnd(j) \/ JobRelease(j)
             \/ JobFinish(j) \/ JobDone(j)
      PROVE  Errors'
  <2>1. jpc[j] \notin {"range", "wait"} \/ jpc'[j] = "wait"
    BY <1>2 DEF Reject, JobStart, JobRangeEnd, JobRelease, JobFinish, JobDone,
       Submission, TypeOK
  <2>2. /\ \A i \in Jobs \ {j} : jpc'[i] = jpc[i]
        /\ UNCHANGED <<mpc, fatal, firstErr, waitErr>>
    BY <1>2 DEF Reject, JobStart, JobRangeEnd, JobRelease, JobFinish, JobDone,
       TypeOK
  <2> QED BY <2>1, <2>2 DEF Errors, TypeOK
<1>3. ASSUME NEW j \in Jobs, JobEnd(j) PROVE Errors'
  <2>1. mpc = "submit" /\ mpc' = mpc
    BY <1>3 DEF JobEnd, Submission, Running, TypeOK
  <2>2. firstErr' # None => firstErr' \in fatal'
    BY <1>3 DEF JobEnd, Errors
  <2>3. ASSUME NEW i \in fatal'
        PROVE  jpc'[i] \in {"range", "wait"} \/ firstErr' # None
    <3>1. i \in fatal /\ fatal \subseteq Jobs /\ j # None
      BY <1>3, <2>3, SourceAssumption DEF JobEnd, TypeOK
    <3>2. CASE i = j
      BY <1>3, <3>1, <3>2 DEF JobEnd
    <3>3. CASE i # j
      BY <1>3, <3>1, <3>3 DEF JobEnd, Errors, TypeOK
    <3> QED BY <3>2, <3>3
  <2> QED BY <2>1, <2>2, <2>3 DEF Errors
<1>4. ASSUME NEW j \in Jobs, EnumFail(j) PROVE Errors'
  BY <1>4 DEF EnumFail, Errors, Submission, Inside, Running, TypeOK
<1>5. ASSUME NEW u \in Units, UnitFail(u) PROVE Errors'
  <2>1. JobOf(u) \in Jobs /\ jpc[JobOf(u)] \in {"range", "wait"}
    BY <1>5, OwnerIsJob DEF UnitFail, Inside
  <2> QED BY <1>5, <2>1 DEF UnitFail, Errors, Submission, Running, TypeOK
<1>6. ASSUME WaitClose PROVE Errors'
  BY <1>6 DEF WaitClose, Errors
<1>7. ASSUME WaitHooks PROVE Errors'
  BY <1>7 DEF WaitHooks, Errors
<1>8. ASSUME NEW j \in Jobs, Submit(j) PROVE Errors'
  BY <1>8 DEF Submit, Errors
<1>9. CASE UNCHANGED <<mpc, jpc, fatal, firstErr, waitErr>>
  BY <1>9 DEF Errors
<1> QED
  BY <1>1, <1>2, <1>3, <1>4, <1>5, <1>6, <1>7, <1>8, <1>9, WhoTouches

(* Every step keeps the invariant. *)
LEMMA NextInv == IInv /\ [Next]_vars => IInv'
BY SlotsStep, TypeStep, SubmissionStep, OwnUnitsStep, InsideStep, ErrorsStep
   DEF IInv

(* Every reachable state satisfies it. *)
LEMMA Invariance == Spec => []IInv
BY InitInv, NextInv, PTL DEF Spec

-----------------------------------------------------------------------------
(* The state of the manager keeps its type: in particular no more jobs run *)
(* at once than the semaphore admits, and none gives back a place twice.   *)
THEOREM TypeCorrect == Spec => []TypeOK
BY Invariance, PTL DEF IInv

(* When Wait closes s.outputChunks no consumer is left that could send on  *)
(* it, since a consumer runs inside its job, whatever fails.               *)
THEOREM OutputIsQuiet == Spec => []NoSendOnClosedOutput
<1>1. IInv => NoSendOnClosedOutput
  BY DEF IInv, Submission, Inside, Running, NoSendOnClosedOutput
<1> QED BY <1>1, Invariance, PTL

(* No place in s.sem is lost or given back twice, on any path.             *)
THEOREM SemaphoreIsExact == Spec => []SemaphoreBalanced
<1>1. ASSUME IInv PROVE SemaphoreBalanced
  <2>1. sem = Cardinality(Held)
    BY <1>1 DEF IInv, Slots
  <2>2. ASSUME mpc = "returned" PROVE sem = 0
    <3>1. Held = {}
      BY <1>1, <2>2 DEF IInv, Submission, Running, Held
    <3> QED BY <2>1, <3>1, FS_EmptySet
  <2> QED BY <2>1, <2>2 DEF SemaphoreBalanced, Held
<1> QED BY <1>1, Invariance, PTL

(* Wait's error is nil exactly when no source failed: s.firstErr, with its *)
(* room for one error, loses an error only to another one.                 *)
THEOREM WaitErrorIsExact == Spec => []WaitErrorIffFatal
<1>1. IInv => WaitErrorIffFatal
  BY SourceAssumption
     DEF IInv, TypeOK, Submission, Errors, Running, WaitErrorIffFatal
<1> QED BY <1>1, Invariance, PTL

-----------------------------------------------------------------------------
(***************************************************************************)
(* Every unit of a job is handed on once, from the enumeration to its two  *)
(* goroutines, and a job that ends has seen them end.                      *)
(***************************************************************************)

Ended == {"release", "finish", "done", "gone"}

JobPlace(j) ==
    /\ jpc[j] = "range" => j \in WithUnits
    /\ j \notin WithUnits =>
           epc[j] = "off" /\ unitCh[j] = <<>> /\ jhold[j] = None
    /\ unitCh[j] # <<>> => \E u \in UnitsOf[j] : unitCh[j] = <<u>>
    /\ epc[j] \in {"close", "closed", "gone"} =>
           j \in fatal \/ Done(j) \/ etodo[j] = {}
    /\ jpc[j] = "new" => j \in unsubmitted \/ asking = j
    /\ jpc[j] = "rejected" => parentDone

(* A unit that the enumeration of its job left out, as it may only if it   *)
(* fails or its context is done.                                           *)
Unasked(j, u) == j \in WithUnits /\ u \in etodo[j] /\ (j \in fatal \/ Done(j))

UnitPlace(j, u) ==
    /\ j \in WithUnits /\ u \in etodo[j] =>
           unitCh[j] # <<u>> /\ jhold[j] # u /\ cpc[u] = "off"
    /\ unitCh[j] = <<u>> => jhold[j] # u /\ cpc[u] = "off"
    /\ jhold[j] = u => cpc[u] = "off"
    /\ cpc[u] = "off" =>
           /\ upc[u] = "off" /\ uch[u] = <<>>
           /\ IF j \in WithUnits
              THEN u \in etodo[j] \/ unitCh[j] = <<u>> \/ jhold[j] = u
              ELSE jpc[j] \in {"new", "rejected", "start"}
    /\ jpc[j] \in {"new", "rejected", "start"} => cpc[u] = "off"
    /\ jpc[j] \in {"wait"} \cup Ended => cpc[u] # "off" \/ Unasked(j, u)
    /\ jpc[j] \in Ended => cpc[u] \in {"off", "gone"}
    /\ cpc[u] \in {"end", "gone"} =>
           upc[u] \in {"closed", "failed"} /\ uch[u] = <<>>
    /\ upc[u] = "closed" => Done(j) \/ utodo[u] = {}

Places ==
    \A j \in Jobs : JobPlace(j) /\ \A u \in UnitsOf[j] : UnitPlace(j, u)

(* A channel with room for one unit holds none or one.                     *)
LEMMA OneUnit ==
    ASSUME NEW j \in Jobs, TypeOK, NEW u, JobPlace(j)
    PROVE  /\ Len(unitCh[j]) < 1 => unitCh[j] = <<>> /\ Append(unitCh[j], u) = <<u>>
           /\ unitCh[j] # <<>> =>
                  Tail(unitCh[j]) = <<>> /\ unitCh[j] = <<Head(unitCh[j])>>
<1>1. Append(<<>>, u) = <<u>>
  OBVIOUS
<1>2. \A v : Len(<<v>>) = 1 /\ Head(<<v>>) = v /\ Tail(<<v>>) = <<>>
  OBVIOUS
<1>3. CASE unitCh[j] = <<>>
  BY <1>1, <1>3
<1>4. CASE unitCh[j] # <<>>
  <2>1. PICK v \in UnitsOf[j] : unitCh[j] = <<v>>
    BY <1>4 DEF JobPlace
  <2> QED BY <1>2, <2>1
<1> QED BY <1>3, <1>4

(* A context that is done stays so. *)
LEMMA DoneStays ==
    ASSUME [Next]_vars, NEW j \in Jobs
    PROVE  Done(j) => Done(j)'
<1>1. parentDone => parentDone'
  BY WhoTouches DEF CancelParent
<1>2. parentDone' \/ cancelled \subseteq cancelled'
  <2> USE DEF mainVars
  <2>1. CASE MainStep \/ CancelParent \/ Deliver \/ UNCHANGED vars
    BY <2>1 DEF MainStep, Reject, Submit, Acquire, AcquireFails, WaitClose,
       WaitHooks, CancelParent, Deliver, vars
  <2>2. CASE \E i \in Jobs : CancelRun(i) \/ JobStep(i)
    BY <2>2 DEF CancelRun, JobStep, JobStart, JobRecvUnit, JobStartUnit,
       JobRangeEnd, JobEnd, JobRelease, JobFinish, JobDone
  <2>3. CASE \E i \in Jobs : EnumStep(i)
    BY <2>3 DEF EnumStep, EnumStart, EnumUnit, EnumFail, EnumReturn, EnumClose,
       EnumEnd
  <2>4. CASE \E u \in Units : UnitStep(u) \/ ConsumerStep(u)
    BY <2>4 DEF UnitStep, UnitStart, UnitChunk, UnitFail, UnitReturn,
       ConsumerStep, ConsumerRecv, ConsumerSend, ConsumerEnd, ConsumerDone
  <2> QED BY <2>1, <2>2, <2>3, <2>4 DEF Next, Returned
<1> QED BY <1>1, <1>2 DEF Done

LEMMA JobPlaceStep ==
    ASSUME TypeOK, Submission, OwnUnits, Inside, [Next]_vars,
           NEW j \in Jobs, JobPlace(j)
    PROVE  JobPlace(j)'
<1> USE DEF JobPlace
<1>f. fatal \subseteq fatal' /\ (parentDone => parentDone') /\ (Done(j) => Done(j)')
  BY WhoTouches, DoneStays DEF EnumFail, UnitFail, CancelParent
<1>1. (jpc[j] = "range" => j \in WithUnits)'
  BY WhoTouches DEF Acquire, AcquireFails, Reject, JobStart, JobRangeEnd, JobEnd,
     JobRelease, JobFinish, JobDone, TypeOK
<1>2. j \notin WithUnits => epc'[j] = "off"
  BY WhoTouches DEF JobStart, EnumStart, EnumFail, EnumReturn, EnumClose,
     EnumEnd, TypeOK
<1> DEFINE Kept == /\ j \notin WithUnits => unitCh'[j] = <<>> /\ jhold'[j] = None
                   /\ unitCh'[j] # <<>> => \E u \in UnitsOf[j] : unitCh'[j] = <<u>>
                   /\ etodo'[j] \subseteq etodo[j]
<1>3. Kept
  <2>1. ASSUME NEW i \in Jobs, JobRecvUnit(i) PROVE Kept
    BY <2>1, OneUnit DEF JobRecvUnit, TypeOK
  <2>2. ASSUME NEW i \in Jobs, JobStartUnit(i) PROVE Kept
    BY <2>2 DEF JobStartUnit, enumVars, TypeOK
  <2>3. ASSUME NEW i \in Jobs, NEW u \in Units, EnumUnit(i, u) PROVE Kept
    <3>1. CASE i # j
      BY <2>3, <3>1 DEF EnumUnit, jobVars, TypeOK
    <3>2. CASE i = j
      <4>1. j \in WithUnits /\ u \in UnitsOf[j] /\ unitCh'[j] = <<u>>
        BY <2>3, <3>2, OneUnit DEF EnumUnit, OwnUnits, TypeOK
      <4>2. etodo'[j] = etodo[j] \ {u}
        BY <2>3, <3>2 DEF EnumUnit, TypeOK
      <4> QED BY <4>1, <4>2
    <3> QED BY <3>1, <3>2
  <2>4. CASE UNCHANGED <<jhold, etodo, unitCh>>
    BY <2>4
  <2> QED BY <2>1, <2>2, <2>3, <2>4, WhoTouches
<1>4. (epc[j] \in {"close", "closed", "gone"} =>
           j \in fatal \/ Done(j) \/ etodo[j] = {})'
  BY <1>3, <1>f, WhoTouches DEF JobStart, EnumStart, EnumFail, EnumReturn,
     EnumClose, EnumEnd, TypeOK
<1>5. (jpc[j] = "new" => j \in unsubmitted \/ asking = j)'
  <2> SUFFICES ASSUME jpc'[j] = "new" PROVE j \in unsubmitted' \/ asking' = j
    OBVIOUS
  <2>1. ASSUME Acquire \/ AcquireFails PROVE j \in unsubmitted' \/ asking' = j
    <3>1. asking \in Jobs /\ jpc'[asking] # "new"
      BY <2>1 DEF Acquire, AcquireFails, TypeOK
    <3>2. jpc'[j] = jpc[j] /\ UNCHANGED unsubmitted
      BY <2>1, <3>1 DEF Acquire, AcquireFails, TypeOK
    <3> QED BY <3>1, <3>2
  <2>2. ASSUME NEW i \in Jobs, Reject(i) \/ Submit(i)
        PROVE  j \in unsubmitted' \/ asking' = j
    <3>1. CASE Reject(i)
      BY <3>1 DEF Reject, TypeOK
    <3>2. CASE Submit(i)
      BY <3>2, SourceAssumption DEF Submit, jobVars
    <3> QED BY <2>2, <3>1, <3>2
  <2>3. ASSUME WaitClose \/ WaitHooks PROVE j \in unsubmitted' \/ asking' = j
    BY <2>3 DEF WaitClose, WaitHooks, jobVars
  <2>4. ASSUME UNCHANGED <<unsubmitted, asking>>, jpc[j] = "new"
        PROVE  j \in unsubmitted' \/ asking' = j
    BY <2>4
  <2>5. ASSUME NEW i \in Jobs,
               \/ JobStart(i) \/ JobRangeEnd(i) \/ JobEnd(i) \/ JobRelease(i)
               \/ JobFinish(i) \/ JobDone(i)
        PROVE  UNCHANGED <<unsubmitted, asking>> /\ jpc[j] = "new"
    BY <2>5 DEF JobStart, JobRangeEnd, JobEnd, JobRelease, JobFinish, JobDone,
       mainVars, TypeOK
  <2>6. CASE UNCHANGED <<unsubmitted, asking, jpc>>
    BY <2>4, <2>6
  <2> QED BY <2>1, <2>2, <2>3, <2>4, <2>5, <2>6, WhoTouches
<1>6. (jpc[j] = "rejected" => parentDone)'
  <2> SUFFICES ASSUME jpc'[j] = "rejected" PROVE parentDone \/ jpc[j] = "rejected"
    BY <1>f
  <2>1. ASSUME Acquire \/ AcquireFails PROVE parentDone \/ jpc[j] = "rejected"
    BY <2>1 DEF Acquire, AcquireFails, TypeOK
  <2>2. ASSUME NEW i \in Jobs,
               \/ Reject(i) \/ JobStart(i) \/ JobRangeEnd(i) \/ JobEnd(i)
               \/ JobRelease(i) \/ JobFinish(i) \/ JobDone(i)
        PROVE  parentDone \/ jpc[j] = "rejected"
    BY <2>2 DEF Reject, JobStart, JobRangeEnd, JobEnd, JobRelease, JobFinish,
       JobDone, TypeOK
  <2> QED BY <2>1, <2>2, WhoTouches
<1> QED BY <1>1, <1>2, <1>3, <1>4, <1>5, <1>6

(* A unit's place depends on what its job and its goroutines hold only.    *)
LEMMA PlaceIsLocal ==
    ASSUME NEW j \in Jobs, NEW u \in UnitsOf[j], UnitPlace(j, u),
           fatal \subseteq fatal', Done(j) => Done(j)', etodo'[j] = etodo[j],
           unitCh'[j] = unitCh[j], jhold'[j] = jhold[j], jpc'[j] = jpc[j],
           upc'[u] = upc[u], cpc'[u] = cpc[u], utodo'[u] = utodo[u],
           uch'[u] = uch[u]
    PROVE  UnitPlace(j, u)'
BY DEF UnitPlace, Unasked

LEMMA UnitPlaceStep ==
    ASSUME TypeOK, Submission, OwnUnits, Inside, Places, [Next]_vars,
           NEW j \in Jobs, NEW u \in UnitsOf[j]
    PROVE  UnitPlace(j, u)'
<1> USE DEF mainVars, jobVars, enumVars, unitVars, consVars, errVars
<1>0. u \in Units /\ JobPlace(j) /\ UnitPlace(j, u)
  BY OwnerIsJob DEF Places
<1>f. fatal \subseteq fatal' /\ (Done(j) => Done(j)')
  BY WhoTouches, DoneStays DEF EnumFail, UnitFail
<1>1. ASSUME Acquire \/ AcquireFails PROVE UnitPlace(j, u)'
  <2>1. CASE asking = j
    <3>1. /\ jpc[j] = "new" /\ jpc'[j] \in {"start", "rejected"}
          /\ UNCHANGED <<jhold, etodo, unitCh, upc, cpc, utodo, uch, fatal>>
      BY <1>1, <2>1 DEF Acquire, AcquireFails, Submission, TypeOK
    <3> QED BY <1>0, <3>1 DEF UnitPlace, Unasked, Ended
  <2>2. CASE asking # j
    BY <1>1, <1>0, <1>f, <2>2, PlaceIsLocal DEF Acquire, AcquireFails, TypeOK
  <2> QED BY <2>1, <2>2
<1>2. ASSUME NEW i \in Jobs, i # j,
             \/ Reject(i) \/ JobRecvUnit(i) \/ JobRangeEnd(i) \/ JobEnd(i)
             \/ JobRelease(i) \/ JobFinish(i) \/ JobDone(i)
      PROVE  UnitPlace(j, u)'
  BY <1>2, <1>0, <1>f, PlaceIsLocal DEF Reject, JobRecvUnit, JobRangeEnd,
     JobEnd, JobRelease, JobFinish, JobDone, TypeOK
<1>3. ASSUME NEW i \in Jobs, i # j, JobStart(i) \/ JobStartUnit(i)
      PROVE  UnitPlace(j, u)'
  <2>1. u \notin UnitsOf[i] /\ jhold[i] \in UnitsOf[i] \cup {None}
    BY <1>3, SourceAssumption DEF OwnUnits
  <2>2. /\ upc'[u] = upc[u] /\ cpc'[u] = cpc[u] /\ jpc'[j] = jpc[j]
        /\ jhold'[j] = jhold[j]
        /\ UNCHANGED <<etodo, unitCh, utodo, uch>>
    <3>1. CASE JobStart(i)
      BY <1>0, <1>3, <2>1, <3>1 DEF JobStart, TypeOK
    <3>2. CASE JobStartUnit(i)
      BY <1>0, <1>3, <2>1, <3>2 DEF JobStartUnit, TypeOK
    <3> QED BY <1>3, <3>1, <3>2
  <2> QED BY <1>0, <1>f, <2>2, PlaceIsLocal
<1>4. ASSUME NEW i \in Jobs, i # j,
             \/ EnumStart(i) \/ EnumFail(i) \/ EnumReturn(i) \/ EnumClose(i)
             \/ EnumEnd(i) \/ \E v \in Units : EnumUnit(i, v)
      PROVE  UnitPlace(j, u)'
  BY <1>4, <1>0, <1>f, PlaceIsLocal DEF EnumStart, EnumFail, EnumReturn,
     EnumClose, EnumEnd, EnumUnit, TypeOK
<1>5. ASSUME Reject(j) PROVE UnitPlace(j, u)'
  <2>1. /\ jpc[j] = "new" /\ jpc'[j] = "rejected"
        /\ UNCHANGED <<jhold, etodo, unitCh, upc, cpc, utodo, uch, fatal>>
    BY <1>5 DEF Reject, Submission, TypeOK
  <2> QED BY <1>0, <1>f, <2>1 DEF UnitPlace, Unasked, Ended
<1>6. ASSUME JobStart(j) PROVE UnitPlace(j, u)'
  <2>1. jpc[j] = "start" /\ cpc[u] = "off" /\ upc[u] = "off"
    BY <1>6, <1>0 DEF JobStart, UnitPlace
  <2>2. CASE j \in WithUnits
    <3>1. /\ jpc'[j] = "range"
          /\ UNCHANGED <<jhold, etodo, unitCh, upc, cpc, utodo, uch>>
      BY <1>6, <2>2 DEF JobStart, TypeOK
    <3> QED BY <1>0, <1>f, <2>1, <2>2, <3>1 DEF UnitPlace, Unasked, Ended
  <2>3. CASE j \notin WithUnits
    <3>1. /\ jpc'[j] = "wait" /\ upc'[u] = "chunk" /\ cpc'[u] = "recv"
          /\ UNCHANGED <<jhold, etodo, unitCh, utodo, uch>>
      BY <1>6, <1>0, <2>3 DEF JobStart, TypeOK
    <3>2. unitCh[j] = <<>> /\ jhold[j] = None /\ u # None
      BY <1>0, <2>3, SourceAssumption DEF JobPlace
    <3> QED BY <2>3, <3>1, <3>2 DEF UnitPlace, Unasked, Ended
  <2> QED BY <2>2, <2>3
<1>7. ASSUME JobRecvUnit(j) PROVE UnitPlace(j, u)'
  <2>1. /\ unitCh[j] = <<Head(unitCh[j])>> /\ jhold'[j] = Head(unitCh[j])
        /\ unitCh'[j] = <<>> /\ jhold[j] = None
        /\ UNCHANGED <<jpc, etodo, upc, cpc, utodo, uch, fatal>>
    BY <1>7, <1>0, OneUnit DEF JobRecvUnit, TypeOK
  <2>2. j \in WithUnits /\ u # None
    BY <1>7, <1>0, SourceAssumption DEF JobRecvUnit, JobPlace
  <2>3. unitCh[j] = <<u>> <=> jhold'[j] = u
    BY <2>1
  <2> QED BY <1>0, <1>f, <2>1, <2>2, <2>3 DEF UnitPlace, Unasked
<1>8. ASSUME JobStartUnit(j) PROVE UnitPlace(j, u)'
  <2>1. jhold[j] \in Units /\ jpc[j] = "range" /\ j \in WithUnits /\ u # None
    BY <1>8, <1>0, SourceAssumption DEF JobStartUnit, JobPlace, TypeOK
  <2>2. /\ jhold'[j] = None
        /\ UNCHANGED <<jpc, etodo, unitCh, utodo, uch, fatal>>
    BY <1>8 DEF JobStartUnit, TypeOK
  <2>3. CASE u = jhold[j]
    <3>1. upc'[u] = "begin" /\ cpc'[u] = "recv"
      BY <1>8, <2>1, <2>3 DEF JobStartUnit, TypeOK
    <3> QED BY <1>0, <1>f, <2>1, <2>2, <2>3, <3>1 DEF UnitPlace, Unasked, Ended
  <2>4. CASE u # jhold[j]
    <3>1. upc'[u] = upc[u] /\ cpc'[u] = cpc[u]
      BY <1>8, <2>4 DEF JobStartUnit, TypeOK
    <3> QED BY <1>0, <1>f, <2>1, <2>2, <2>4, <3>1 DEF UnitPlace, Unasked, Ended
  <2> QED BY <2>3, <2>4
<1>9. ASSUME JobRangeEnd(j) PROVE UnitPlace(j, u)'
  <2>1. /\ jpc[j] = "range" /\ jpc'[j] = "wait"
        /\ unitCh[j] = <<>> /\ jhold[j] = None /\ epc[j] \in {"closed", "gone"}
        /\ UNCHANGED <<jhold, etodo, unitCh, upc, cpc, utodo, uch, fatal>>
    BY <1>9 DEF JobRangeEnd, TypeOK
  <2>2. j \in WithUnits /\ (j \in fatal \/ Done(j) \/ etodo[j] = {})
    BY <1>0, <2>1 DEF JobPlace
  <2>3. u # None /\ unitCh[j] # <<u>>
    BY <1>0, <1>f, <2>1, SourceAssumption
  <2> QED BY <1>0, <1>f, <2>1, <2>2, <2>3 DEF UnitPlace, Unasked, Ended
<1>10. ASSUME JobEnd(j) PROVE UnitPlace(j, u)'
  <2>1. /\ jpc[j] = "wait" /\ jpc'[j] = "release"
        /\ UNCHANGED <<jhold, etodo, unitCh, upc, cpc, utodo, uch, fatal>>
    BY <1>10 DEF JobEnd, TypeOK
  <2>2. cpc[u] \in {"off", "gone"}
    BY <1>10, <1>0 DEF JobEnd, Consuming, TypeOK
  <2> QED BY <1>0, <1>f, <2>1, <2>2 DEF UnitPlace, Unasked, Ended
<1>11. ASSUME JobRelease(j) \/ JobFinish(j) \/ JobDone(j) PROVE UnitPlace(j, u)'
  <2>1. /\ jpc[j] \in Ended /\ jpc'[j] \in Ended
        /\ UNCHANGED <<jhold, etodo, unitCh, upc, cpc, utodo, uch, fatal>>
    BY <1>11 DEF JobRelease, JobFinish, JobDone, Ended, TypeOK
  <2> QED BY <1>0, <1>f, <2>1 DEF UnitPlace, Unasked, Ended
<1>12. ASSUME NEW v \in Units, EnumUnit(j, v) PROVE UnitPlace(j, u)'
  <2>1. /\ v \in etodo[j] /\ unitCh[j] = <<>> /\ unitCh'[j] = <<v>>
        /\ etodo'[j] = etodo[j] \ {v}
        /\ UNCHANGED <<jpc, jhold, upc, cpc, utodo, uch, fatal>>
    BY <1>12, <1>0, OneUnit DEF EnumUnit, TypeOK
  <2>2. j \in WithUnits /\ jpc[j] = "range"
    BY <1>12, <1>0 DEF EnumUnit, JobPlace, Inside
  <2>3. unitCh'[j] = <<u>> <=> u = v
    BY <2>1
  <2> QED BY <1>0, <1>f, <2>1, <2>2, <2>3 DEF UnitPlace, Unasked, Ended
<1>13. ASSUME \/ EnumStart(j) \/ EnumFail(j) \/ EnumReturn(j) \/ EnumClose(j)
              \/ EnumEnd(j)
       PROVE  UnitPlace(j, u)'
  BY <1>13, <1>0, <1>f, PlaceIsLocal DEF EnumStart, EnumFail, EnumReturn,
     EnumClose, EnumEnd
<1>14. ASSUME NEW v \in Units, v # u,
              \/ UnitStart(v) \/ UnitFail(v) \/ UnitReturn(v)
              \/ \E c \in Chunks : UnitChunk(v, c)
       PROVE  UnitPlace(j, u)'
  BY <1>14, <1>0, <1>f, PlaceIsLocal DEF UnitStart, UnitFail, UnitReturn,
     UnitChunk, TypeOK
<1>15. ASSUME NEW v \in Units, v # u,
              \/ ConsumerRecv(v) \/ ConsumerSend(v) \/ ConsumerEnd(v)
              \/ ConsumerDone(v)
       PROVE  UnitPlace(j, u)'
  BY <1>15, <1>0, <1>f, PlaceIsLocal DEF ConsumerRecv, ConsumerSend,
     ConsumerEnd, ConsumerDone, TypeOK
<1>16. ASSUME \/ UnitStart(u) \/ UnitFail(u) \/ UnitReturn(u)
              \/ \E c \in Chunks : UnitChunk(u, c)
       PROVE  UnitPlace(j, u)'
  <2>1. JobOf(u) = j
    BY OwnerIsJob
  <2>2. cpc[u] \in {"recv", "send"} /\ upc'[u] \in {"chunk", "closed", "failed"}
    BY <1>16, <1>0 DEF UnitStart, UnitFail, UnitReturn, UnitChunk, Inside, TypeOK
  <2>3. upc'[u] = "closed" => Done(j)' \/ utodo'[u] = {}
    BY <1>16, <1>0, <1>f, <2>1 DEF UnitStart, UnitFail, UnitReturn, UnitChunk, TypeOK
  <2>4. UNCHANGED <<jpc, jhold, etodo, unitCh, cpc>>
    BY <1>16 DEF UnitStart, UnitFail, UnitReturn, UnitChunk
  <2> QED BY <1>0, <1>f, <2>2, <2>3, <2>4 DEF UnitPlace, Unasked
<1>17. ASSUME ConsumerRecv(u) \/ ConsumerSend(u) PROVE UnitPlace(j, u)'
  <2>1. cpc[u] \in {"recv", "send"} /\ cpc'[u] \in {"recv", "send"}
    BY <1>17, <1>0 DEF ConsumerRecv, ConsumerSend, TypeOK
  <2>2. UNCHANGED <<jpc, jhold, etodo, unitCh, upc, utodo, fatal>>
    BY <1>17 DEF ConsumerRecv, ConsumerSend
  <2> QED BY <1>0, <1>f, <2>1, <2>2 DEF UnitPlace, Unasked
<1>18. ASSUME ConsumerEnd(u) \/ ConsumerDone(u) PROVE UnitPlace(j, u)'
  <2>1. /\ cpc[u] \in {"recv", "end"} /\ cpc'[u] \in {"end", "gone"}
        /\ cpc'[u] = "end" => cpc[u] = "recv"
        /\ cpc'[u] = "gone" => cpc[u] = "end"
        /\ cpc[u] = "recv" => uch[u] = <<>> /\ upc[u] \in {"closed", "failed"}
    BY <1>18, <1>0 DEF ConsumerEnd, ConsumerDone, TypeOK
  <2>2. UNCHANGED <<jpc, jhold, etodo, unitCh, upc, utodo, uch, fatal>>
    BY <1>18 DEF ConsumerEnd, ConsumerDone
  <2>3. jpc[j] \in Ended => cpc'[u] \in {"off", "gone"}
    BY <1>0, <1>f, <2>1 DEF UnitPlace, Unasked
  <2> QED BY <1>0, <1>f, <2>1, <2>2, <2>3 DEF UnitPlace, Unasked
<1>19. CASE UNCHANGED <<jpc, jhold, epc, etodo, unitCh, upc, cpc, utodo, uch>>
  BY <1>19, <1>0, <1>f, PlaceIsLocal
<1>20. ASSUME Deliver PROVE UnitPlace(j, u)'
  BY <1>20, <1>0, <1>f, PlaceIsLocal DEF Deliver
<1> QED
  BY <1>1, <1>2, <1>3, <1>4, <1>5, <1>6, <1>7, <1>8, <1>9, <1>10, <1>11, <1>12,
     <1>13, <1>14, <1>15, <1>16, <1>17, <1>18, <1>19, <1>20, WhoTouches

LEMMA PlacesStep ==
    ASSUME TypeOK, Submission, OwnUnits, Inside, Places, [Next]_vars
    PROVE  Places'
<1>1. ASSUME NEW j \in Jobs PROVE JobPlace(j)'
  BY JobPlaceStep DEF Places
<1>2. ASSUME NEW j \in Jobs, NEW u \in UnitsOf[j] PROVE UnitPlace(j, u)'
  BY UnitPlaceStep
<1> QED BY <1>1, <1>2 DEF Places

LEMMA InitPlaces == Init => Places
<1> SUFFICES ASSUME Init PROVE Places
  OBVIOUS
<1>1. ASSUME NEW j \in Jobs PROVE JobPlace(j)
  BY DEF Init, JobPlace
<1>2. ASSUME NEW j \in Jobs, NEW u \in UnitsOf[j] PROVE UnitPlace(j, u)
  <2>1. u \in Units /\ u # None
    BY SourceAssumption, OwnerIsJob
  <2>2. /\ jpc[j] = "new" /\ jhold[j] = None /\ etodo[j] = UnitsOf[j]
        /\ unitCh[j] = <<>> /\ upc[u] = "off" /\ cpc[u] = "off"
        /\ uch[u] = <<>>
    BY <2>1 DEF Init
  <2>3. unitCh[j] # <<u>>
    BY <2>2
  <2> QED BY <2>1, <2>2, <2>3 DEF UnitPlace, Ended
<1> QED BY <1>1, <1>2 DEF Places

-----------------------------------------------------------------------------
(***************************************************************************)
(* Every chunk of a unit is in one place: still with the source, in the    *)
(* unit's channel, in the consumer's hands, or sent.                       *)
(***************************************************************************)

Distinct(s) == \A m, n \in 1..Len(s) : s[m] = s[n] => m = n

ChunkPlace(u) ==
    /\ utodo[u] \subseteq ChunksOf[u]
    /\ uch[u] \in Seq(ChunksOf[u])
    /\ chold[u] \in ChunksOf[u] \cup {None}
    /\ cpc[u] # "send" => chold[u] = None
    /\ ChunksOf[u] \subseteq utodo[u] \cup InSeq(uch[u]) \cup {chold[u]} \cup Sent
    /\ utodo[u] \cap (InSeq(uch[u]) \cup {chold[u]} \cup Sent) = {}
    /\ InSeq(uch[u]) \cap ({chold[u]} \cup Sent) = {}
    /\ chold[u] \notin Sent
    /\ Distinct(uch[u])

ChunkPlaces == \A u \in Units : ChunkPlace(u)

LEMMA InAppend ==
    ASSUME NEW S, NEW s \in Seq(S), NEW m \in S
    PROVE  /\ InSeq(Append(s, m)) = InSeq(s) \cup {m}
           /\ Distinct(s) /\ m \notin InSeq(s) => Distinct(Append(s, m))
<1> DEFINE n == Len(s)  t == Append(s, m)
<1>1. /\ n \in Nat /\ Len(t) = n + 1 /\ t[n + 1] = m
      /\ \A i \in 1..n : t[i] = s[i]
  OBVIOUS
<1> HIDE DEF t
<1>2. 1..Len(t) = 1..n \cup {n + 1}
  BY <1>1
<1>3. InSeq(t) = InSeq(s) \cup {m}
  BY <1>1, <1>2 DEF InSeq
<1>4. ASSUME Distinct(s), m \notin InSeq(s) PROVE Distinct(t)
  BY <1>1, <1>2, <1>4 DEF Distinct, InSeq
<1> QED BY <1>3, <1>4 DEF t

LEMMA InTail ==
    ASSUME NEW S, NEW s \in Seq(S), s # <<>>
    PROVE  /\ InSeq(s) = InSeq(Tail(s)) \cup {Head(s)}
           /\ Distinct(s) => Distinct(Tail(s)) /\ Head(s) \notin InSeq(Tail(s))
<1> DEFINE n == Len(s)  t == Tail(s)
<1>1. /\ n \in Nat /\ n > 0 /\ Len(t) = n - 1 /\ Head(s) = s[1]
      /\ \A i \in 1..(n - 1) : t[i] = s[i + 1]
  OBVIOUS
<1> HIDE DEF t
<1>2. ASSUME NEW i \in 1..n PROVE s[i] \in InSeq(t) \cup {Head(s)}
  <2>1. CASE i = 1
    BY <1>1, <2>1
  <2>2. CASE i # 1
    <3>1. i - 1 \in 1..Len(t) /\ t[i - 1] = s[i]
      BY <1>1, <2>2
    <3> QED BY <3>1 DEF InSeq
  <2> QED BY <2>1, <2>2
<1>3. ASSUME NEW i \in 1..Len(t) PROVE i + 1 \in 1..n /\ t[i] = s[i + 1]
  BY <1>1
<1>4. InSeq(s) = InSeq(t) \cup {Head(s)}
  BY <1>1, <1>2, <1>3 DEF InSeq
<1>5. ASSUME Distinct(s) PROVE Distinct(t) /\ Head(s) \notin InSeq(t)
  <2>1. ASSUME NEW k \in 1..Len(t), NEW l \in 1..Len(t), t[k] = t[l] PROVE k = l
    <3>1. k + 1 = l + 1
      BY <1>3, <1>5, <2>1 DEF Distinct
    <3> QED BY <1>1, <3>1
  <2>2. ASSUME NEW k \in 1..Len(t) PROVE t[k] # s[1]
    <3>1. k + 1 \in 1..n /\ t[k] = s[k + 1] /\ 1 \in 1..n /\ k + 1 # 1
      BY <1>1, <1>3
    <3> QED BY <1>5, <3>1 DEF Distinct
  <2> QED BY <1>1, <2>1, <2>2 DEF Distinct, InSeq
<1> QED BY <1>4, <1>5 DEF t

(* Only a consumer's send adds to what was sent.                           *)
LEMMA SentStep ==
    ASSUME TypeOK, Inside, [Next]_vars
    PROVE  \/ Sent' = Sent /\ UNCHANGED outputClosed
           \/ Sent' = Sent /\ WaitClose
           \/ \E u \in Units : ConsumerSend(u) /\ Sent' = Sent \cup {chold[u]}
<1>1. ASSUME NEW u \in Units, ConsumerSend(u) PROVE Sent' = Sent \cup {chold[u]}
  <2>1. chold[u] \in Chunks /\ output \in Seq(Chunks)
    BY <1>1 DEF ConsumerSend, Inside, TypeOK
  <2>2. output' = Append(output, chold[u]) /\ UNCHANGED delivered
    BY <1>1 DEF ConsumerSend
  <2> QED BY <2>1, <2>2, InAppend DEF Sent
<1>2. ASSUME Deliver PROVE Sent' = Sent /\ UNCHANGED outputClosed
  <2>1. output \in Seq(Chunks) /\ output # <<>>
    BY <1>2 DEF Deliver, TypeOK
  <2>2. /\ delivered' = delivered \cup {Head(output)} /\ output' = Tail(output)
        /\ UNCHANGED outputClosed
    BY <1>2 DEF Deliver
  <2> QED BY <2>1, <2>2, InTail DEF Sent
<1>3. ASSUME UNCHANGED <<output, delivered>> PROVE Sent' = Sent
  BY <1>3 DEF Sent
<1>4. ASSUME NEW u \in Units,
             ConsumerRecv(u) \/ \E c \in Chunks : UnitChunk(u, c)
      PROVE  UNCHANGED <<output, delivered>>
  BY <1>4 DEF ConsumerRecv, UnitChunk, outVars
<1> QED BY <1>1, <1>2, <1>3, <1>4, WhoTouches

LEMMA ChunkPlaceStep ==
    ASSUME TypeOK, OwnUnits, Inside, Places, ChunkPlaces, [Next]_vars,
           NEW u \in Units
    PROVE  ChunkPlace(u)'
<1> USE DEF unitVars, consVars, outVars
<1>0. ChunkPlace(u)
  BY DEF ChunkPlaces
<1>1. ASSUME NEW c \in Chunks, UnitChunk(u, c) PROVE ChunkPlace(u)'
  <2>1. /\ c \in utodo[u] /\ utodo'[u] = utodo[u] \ {c}
        /\ uch'[u] = Append(uch[u], c)
        /\ UNCHANGED <<chold, cpc, output, delivered>>
    BY <1>1 DEF UnitChunk, TypeOK
  <2>2. c \in ChunksOf[u] /\ uch[u] \in Seq(ChunksOf[u]) /\ c \notin InSeq(uch[u])
    BY <1>0, <2>1 DEF ChunkPlace
  <2>3. /\ InSeq(uch'[u]) = InSeq(uch[u]) \cup {c}
        /\ Distinct(uch[u]) => Distinct(uch'[u])
        /\ uch'[u] \in Seq(ChunksOf[u])
    <3>1. Append(uch[u], c) \in Seq(ChunksOf[u])
      BY <2>2, ChannelType
    <3>2. /\ InSeq(Append(uch[u], c)) = InSeq(uch[u]) \cup {c}
          /\ Distinct(uch[u]) => Distinct(Append(uch[u], c))
      BY <2>2, InAppend
    <3> QED BY <2>1, <3>1, <3>2
  <2>4. Sent' = Sent
    BY <2>1 DEF Sent
  <2> QED BY <1>0, <2>1, <2>2, <2>3, <2>4 DEF ChunkPlace
<1>2. ASSUME ConsumerRecv(u) PROVE ChunkPlace(u)'
  <2>1. /\ uch[u] # <<>> /\ chold'[u] = Head(uch[u]) /\ uch'[u] = Tail(uch[u])
        /\ cpc[u] = "recv" /\ cpc'[u] = "send"
        /\ UNCHANGED <<utodo, output, delivered>>
    BY <1>2 DEF ConsumerRecv, TypeOK
  <2>2. uch[u] \in Seq(ChunksOf[u]) /\ Distinct(uch[u]) /\ chold[u] = None
    BY <1>0, <2>1 DEF ChunkPlace
  <2>3. /\ InSeq(uch[u]) = InSeq(uch'[u]) \cup {chold'[u]}
        /\ Distinct(uch'[u]) /\ chold'[u] \notin InSeq(uch'[u])
        /\ uch'[u] \in Seq(ChunksOf[u]) /\ chold'[u] \in ChunksOf[u]
    <3>1. Head(uch[u]) \in ChunksOf[u] /\ Tail(uch[u]) \in Seq(ChunksOf[u])
      BY <2>1, <2>2, ChannelType
    <3>2. /\ InSeq(uch[u]) = InSeq(Tail(uch[u])) \cup {Head(uch[u])}
          /\ Distinct(Tail(uch[u])) /\ Head(uch[u]) \notin InSeq(Tail(uch[u]))
      BY <2>1, <2>2, InTail
    <3> QED BY <2>1, <3>1, <3>2
  <2>4. Sent' = Sent
    BY <2>1 DEF Sent
  <2>5. None \notin ChunksOf[u]
    BY SourceAssumption
  <2> QED BY <1>0, <2>1, <2>2, <2>3, <2>4, <2>5 DEF ChunkPlace
<1>3. ASSUME ConsumerSend(u) PROVE ChunkPlace(u)'
  <2>1. /\ chold'[u] = None /\ cpc'[u] = "recv" /\ chold[u] # None
        /\ UNCHANGED <<utodo, uch>>
    BY <1>3 DEF ConsumerSend, Inside, TypeOK
  <2>2. Sent' = Sent \cup {chold[u]}
    <3>1. chold[u] \in Chunks /\ output \in Seq(Chunks)
      BY <2>1 DEF TypeOK
    <3>2. output' = Append(output, chold[u]) /\ UNCHANGED delivered
      BY <1>3 DEF ConsumerSend
    <3> QED BY <3>1, <3>2, InAppend DEF Sent
  <2>3. None \notin ChunksOf[u] /\ None \notin Sent
    <3>1. None \notin Chunks /\ ChunksOf[u] \subseteq Chunks
      BY SourceAssumption
    <3>2. Sent \subseteq Chunks
      BY DEF Sent, InSeq, TypeOK
    <3> QED BY <3>1, <3>2
  <2>4. None \notin InSeq(uch[u])
    BY <1>0, <2>3 DEF ChunkPlace, InSeq
  <2> QED BY <1>0, <2>1, <2>2, <2>3, <2>4 DEF ChunkPlace
<1>4. ASSUME NEW v \in Units, v # u, ConsumerSend(v) PROVE ChunkPlace(u)'
  <2>1. /\ utodo'[u] = utodo[u] /\ uch'[u] = uch[u] /\ chold'[u] = chold[u]
        /\ cpc'[u] = cpc[u]
    BY <1>4 DEF ConsumerSend, TypeOK
  <2>2. chold[v] \in ChunksOf[v]
    BY <1>4 DEF ConsumerSend, Inside, ChunkPlaces, ChunkPlace
  <2>3. chold[v] \notin ChunksOf[u] /\ chold[v] # None
    BY <1>4, <2>2, SourceAssumption
  <2>4. Sent' = Sent \cup {chold[v]}
    <3>1. chold[v] \in Chunks /\ output \in Seq(Chunks)
      BY <1>4, <2>3 DEF TypeOK
    <3>2. output' = Append(output, chold[v]) /\ UNCHANGED delivered
      BY <1>4 DEF ConsumerSend
    <3> QED BY <3>1, <3>2, InAppend DEF Sent
  <2>5. InSeq(uch[u]) \subseteq ChunksOf[u]
    BY <1>0 DEF ChunkPlace, InSeq
  <2> QED BY <1>0, <2>1, <2>3, <2>4, <2>5 DEF ChunkPlace
<1>5. ASSUME utodo'[u] = utodo[u], uch'[u] = uch[u], chold'[u] = chold[u],
             cpc'[u] = cpc[u] \/ (cpc[u] # "send" /\ cpc'[u] # "send"),
             Sent' = Sent
      PROVE  ChunkPlace(u)'
  BY <1>0, <1>5 DEF ChunkPlace
<1>6. ASSUME NEW v \in Units, v # u,
             ConsumerRecv(v) \/ \E c \in Chunks : UnitChunk(v, c)
      PROVE  ChunkPlace(u)'
  BY <1>5, <1>6 DEF ConsumerRecv, UnitChunk, Sent, TypeOK
<1>7. ASSUME Deliver PROVE ChunkPlace(u)'
  <2>1. Sent' = Sent
    BY <1>7, SentStep DEF Deliver, ConsumerSend, WaitClose, TypeOK
  <2> QED BY <1>5, <1>7, <2>1 DEF Deliver
<1>8. ASSUME UNCHANGED <<utodo, uch, chold, output, delivered>>,
             \/ \E j \in Jobs : JobStart(j) \/ JobStartUnit(j)
             \/ \E v \in Units : \/ UnitStart(v) \/ UnitFail(v) \/ UnitReturn(v)
                                 \/ ConsumerEnd(v) \/ ConsumerDone(v)
      PROVE  ChunkPlace(u)'
  <2>1. ASSUME NEW j \in Jobs, JobStart(j)
        PROVE  cpc'[u] = cpc[u] \/ (cpc[u] # "send" /\ cpc'[u] # "send")
    <3>1. CASE u \in UnitsOf[j]
      BY <2>1, <3>1 DEF JobStart, Places, UnitPlace, TypeOK
    <3>2. CASE u \notin UnitsOf[j]
      BY <2>1, <3>2 DEF JobStart, TypeOK
    <3> QED BY <3>1, <3>2
  <2>2. ASSUME NEW j \in Jobs, JobStartUnit(j)
        PROVE  cpc'[u] = cpc[u] \/ (cpc[u] # "send" /\ cpc'[u] # "send")
    <3>1. jhold[j] \in UnitsOf[j] /\ cpc[jhold[j]] = "off"
      BY <2>2 DEF JobStartUnit, OwnUnits, Places, UnitPlace
    <3> QED BY <2>2, <3>1 DEF JobStartUnit, TypeOK
  <2>3. ASSUME NEW v \in Units,
               \/ UnitStart(v) \/ UnitFail(v) \/ UnitReturn(v)
               \/ ConsumerEnd(v) \/ ConsumerDone(v)
        PROVE  cpc'[u] = cpc[u] \/ (cpc[u] # "send" /\ cpc'[u] # "send")
    BY <2>3 DEF UnitStart, UnitFail, UnitReturn, ConsumerEnd, ConsumerDone, TypeOK
  <2>4. Sent' = Sent
    BY <1>8 DEF Sent
  <2> QED BY <1>5, <1>8, <2>1, <2>2, <2>3, <2>4
<1>9. CASE UNCHANGED <<upc, cpc, utodo, uch, chold, output, delivered>>
  BY <1>5, <1>9 DEF Sent
<1> QED
  BY <1>1, <1>2, <1>3, <1>4, <1>6, <1>7, <1>8, <1>9, WhoTouches

LEMMA InitChunkPlaces == Init => ChunkPlaces
<1> SUFFICES ASSUME Init PROVE ChunkPlaces
  OBVIOUS
<1>1. InSeq(<<>>) = {} /\ Distinct(<<>>)
  BY DEF InSeq, Distinct
<1>2. Sent = {}
  BY <1>1 DEF Init, Sent
<1>3. ASSUME NEW u \in Units PROVE ChunkPlace(u)
  <2>1. /\ utodo[u] = ChunksOf[u] /\ uch[u] = <<>> /\ chold[u] = None
        /\ cpc[u] = "off"
    BY DEF Init
  <2>2. None \notin ChunksOf[u] /\ <<>> \in Seq(ChunksOf[u])
    BY SourceAssumption
  <2> QED BY <1>1, <1>2, <2>1, <2>2 DEF ChunkPlace
<1> QED BY <1>3 DEF ChunkPlaces

(* In every reachable state the units and the chunks have their places.    *)
LEMMA PlaceInvariance == Spec => [](IInv /\ Places /\ ChunkPlaces)
<1>1. Init => IInv /\ Places /\ ChunkPlaces
  BY InitInv, InitPlaces, InitChunkPlaces
<1>2. IInv /\ Places /\ ChunkPlaces /\ [Next]_vars
        => IInv' /\ Places' /\ ChunkPlaces'
  <2> SUFFICES ASSUME IInv, Places, ChunkPlaces, [Next]_vars
               PROVE  IInv' /\ Places' /\ ChunkPlaces'
    OBVIOUS
  <2>1. TypeOK /\ Submission /\ OwnUnits /\ Inside
    BY DEF IInv
  <2>2. ChunkPlaces'
    BY <2>1, ChunkPlaceStep DEF ChunkPlaces
  <2> QED BY <2>1, <2>2, NextInv, PlacesStep
<1> QED BY <1>1, <1>2, PTL DEF Spec

(* When Wait closes s.outputChunks every chunk a source handed over has    *)
(* reached it, whatever failed or was cancelled, and all chunks of every   *)
(* unit that neither failed nor was cut short: a job ends after its        *)
(* enumeration, its producers and its consumers, in that order.            *)
THEOREM NothingIsLost == Spec => []NoChunkLost
<1>1. ASSUME IInv, Places, ChunkPlaces PROVE NoChunkLost
  <2> SUFFICES ASSUME outputClosed, NEW j \in Jobs, NEW u \in UnitsOf[j]
               PROVE  /\ ChunksOf[u] \ utodo[u] \subseteq Sent
                      /\ /\ ~Done(j) /\ upc[u] # "failed"
                         /\ u \notin etodo[j] \/ j \notin fatal
                         => ChunksOf[u] \subseteq Sent
    BY DEF NoChunkLost
  <2>0. u \in Units /\ JobPlace(j) /\ UnitPlace(j, u) /\ ChunkPlace(u)
    BY <1>1, OwnerIsJob DEF Places, ChunkPlaces
  <2>1. mpc # "submit" /\ unsubmitted = {} /\ asking = None /\ Running = {}
    BY <1>1 DEF IInv, Submission
  <2>2. jpc[j] = "gone" \/ jpc[j] = "rejected"
    BY <2>0, <2>1, SourceAssumption DEF Running, JobPlace
  <2>3. cpc[u] \in {"off", "gone"} /\ uch[u] = <<>>
    BY <2>0, <2>2 DEF UnitPlace, Ended
  <2>4. chold[u] = None /\ InSeq(uch[u]) = {}
    BY <2>0, <2>3 DEF ChunkPlace, InSeq
  <2>5. ChunksOf[u] \ utodo[u] \subseteq Sent
    BY <2>0, <2>4, SourceAssumption DEF ChunkPlace
  <2>6. ASSUME ~Done(j), upc[u] # "failed", u \notin etodo[j] \/ j \notin fatal
        PROVE  utodo[u] = {}
    <3>1. jpc[j] = "gone"
      BY <2>0, <2>2, <2>6 DEF JobPlace, Done
    <3>2. cpc[u] = "gone"
      BY <2>0, <2>3, <2>6, <3>1 DEF UnitPlace, Unasked, Ended
    <3> QED BY <2>0, <2>6, <3>2 DEF UnitPlace
  <2> QED BY <2>5, <2>6
<1> QED BY <1>1, PlaceInvariance, PTL

(* The safety part of ImplementsStream: to the engine the manager is a     *)
(* stream on which every chunk is sent once at most, closed once, with     *)
(* nothing sent after the close, whatever fails or is cancelled.           *)
THEOREM StreamIsKept == Spec => Stream!Init /\ [][Stream!Next]_(Stream!vars)
<1>1. Init => Stream!Init
  BY DEF Init, Stream!Init, Sent, InSeq
<1>2. IInv /\ ChunkPlaces /\ [Next]_vars => [Stream!Next]_(Stream!vars)
  <2> SUFFICES ASSUME IInv, ChunkPlaces, [Next]_vars
               PROVE  Stream!Next \/ UNCHANGED Stream!vars
    OBVIOUS
  <2>1. CASE Sent' = Sent /\ UNCHANGED outputClosed
    BY <2>1 DEF Stream!vars
  <2>2. CASE Sent' = Sent /\ WaitClose
    <3>1. ~outputClosed /\ outputClosed' = TRUE
      BY <2>2 DEF WaitClose, IInv, Submission
    <3> QED BY <2>2, <3>1 DEF Stream!Next, Stream!Close
  <2>3. ASSUME NEW u \in Units, ConsumerSend(u), Sent' = Sent \cup {chold[u]}
        PROVE  Stream!Next
    <3>1. cpc[u] = "send" /\ chold[u] # None /\ UNCHANGED outputClosed
      BY <2>3 DEF ConsumerSend, IInv, Inside
    <3>2. ~outputClosed
      BY <3>1 DEF IInv, Submission, Inside, Running
    <3>3. chold[u] \in Chunks /\ chold[u] \notin Sent
      BY <3>1 DEF IInv, TypeOK, ChunkPlaces, ChunkPlace
    <3>4. Stream!Send(chold[u])
      BY <2>3, <3>1, <3>2, <3>3 DEF Stream!Send
    <3> QED BY <3>3, <3>4 DEF Stream!Next
  <2> QED BY <2>1, <2>2, <2>3, SentStep DEF IInv
<1> QED BY <1>1, <1>2, PlaceInvariance, PTL DEF Spec

-----------------------------------------------------------------------------
(***************************************************************************)
(* The progress hooks follow the goroutines that call them.                *)
(***************************************************************************)

Has(h, x) == [hook |-> h, of |-> x] \in fired

HookPlace(j, u) ==
    /\ Has("StartUnitChunking", u) <=> upc[u] \in {"chunk", "closed", "failed"}
    /\ Has("EndUnitChunking", u) <=> cpc[u] \in {"end", "gone"}

JobHooks(j) ==
    /\ Has("End", j) => jpc[j] \in Ended
    /\ Has("Finish", j) => jpc[j] \in {"done", "gone", "rejected"}

HookPlaces ==
    /\ \A j \in Jobs : JobHooks(j)
    /\ \A j \in WithUnits : \A u \in UnitsOf[j] : HookPlace(j, u)

(* A hook's name tells it from the others, whatever it is called for.      *)
LEMMA FireAdds ==
    ASSUME NEW h, NEW x, Fire(h, x)
    PROVE  /\ \A i, y : Has(i, y)' <=> Has(i, y) \/ (i = h /\ y = x)
           /\ \A e \in fired' \ fired : e = [hook |-> h, of |-> x]
<1>1. fired' = fired \cup {[hook |-> h, of |-> x]}
  BY DEF Fire
<1>2. \A i, y : [hook |-> i, of |-> y] = [hook |-> h, of |-> x]
                    <=> i = h /\ y = x
  <2>1. ASSUME NEW i, NEW y, [hook |-> i, of |-> y] = [hook |-> h, of |-> x]
        PROVE  i = h /\ y = x
    <3> DEFINE a == [hook |-> i, of |-> y]  b == [hook |-> h, of |-> x]
    <3>1. a.hook = i /\ a.of = y /\ b.hook = h /\ b.of = x
      OBVIOUS
    <3>2. a = b
      BY <2>1
    <3> HIDE DEF a, b
    <3> QED BY <3>1, <3>2
  <2> QED BY <2>1
<1> QED BY <1>1, <1>2 DEF Has

(* A job's hooks fire when its goroutine passes the place they stand at.   *)
LEMMA JobHooksStep ==
    ASSUME TypeOK, Submission, [Next]_vars, NEW j \in Jobs, JobHooks(j)
    PROVE  JobHooks(j)'
<1> USE DEF JobHooks, Ended
<1>1. ASSUME UNCHANGED fired PROVE /\ Has("End", j)' = Has("End", j)
                                  /\ Has("Finish", j)' = Has("Finish", j)
  BY <1>1 DEF Has
<1>2. ASSUME Acquire PROVE JobHooks(j)'
  BY <1>1, <1>2 DEF Acquire, hookVars, Submission, TypeOK
<1>3. ASSUME AcquireFails PROVE JobHooks(j)'
  BY <1>3, FireAdds DEF AcquireFails, Submission, TypeOK
<1>4. ASSUME NEW i \in Jobs, JobStart(i) PROVE JobHooks(j)'
  BY <1>4, FireAdds DEF JobStart, TypeOK
<1>5. ASSUME NEW i \in Jobs, JobEnd(i) PROVE JobHooks(j)'
  BY <1>5, FireAdds DEF JobEnd, TypeOK
<1>6. ASSUME NEW i \in Jobs, JobFinish(i) PROVE JobHooks(j)'
  BY <1>6, FireAdds DEF JobFinish, TypeOK
<1>7. ASSUME NEW i \in Jobs,
             Reject(i) \/ JobRangeEnd(i) \/ JobRelease(i) \/ JobDone(i)
      PROVE  JobHooks(j)'
  <2>1. UNCHANGED fired
    BY <1>7 DEF Reject, JobRangeEnd, JobRelease, JobDone, hookVars
  <2>2. \/ jpc'[j] = jpc[j]
        \/ jpc[j] \in {"new", "range"} /\ jpc'[j] \in {"rejected", "wait"}
        \/ jpc[j] = "release" /\ jpc'[j] = "finish"
        \/ jpc[j] = "done" /\ jpc'[j] = "gone"
    BY <1>7 DEF Reject, JobRangeEnd, JobRelease, JobDone, Submission, TypeOK
  <2> QED BY <1>1, <2>1, <2>2
<1>8. ASSUME NEW i \in Jobs, EnumStart(i) \/ EnumEnd(i) PROVE JobHooks(j)'
  BY <1>8, FireAdds DEF EnumStart, EnumEnd, jobVars
<1>9. ASSUME NEW u \in Units, UnitStart(u) \/ ConsumerEnd(u) PROVE JobHooks(j)'
  <2>1. /\ Has("End", j)' <=> Has("End", j)
        /\ Has("Finish", j)' <=> Has("Finish", j)
        /\ UNCHANGED jpc
    <3>1. CASE UnitStart(u)
      BY <3>1, FireAdds DEF UnitStart, jobVars
    <3>2. CASE ConsumerEnd(u) /\ Fire("EndUnitChunking", u)
      BY <3>2, FireAdds DEF ConsumerEnd, jobVars
    <3>3. CASE ConsumerEnd(u) /\ UNCHANGED fired
      BY <3>3 DEF ConsumerEnd, jobVars, Has
    <3> QED BY <1>9, <3>1, <3>2, <3>3 DEF ConsumerEnd
  <2> QED BY <2>1
<1>10. CASE UNCHANGED <<jpc, fired>>
  BY <1>1, <1>10
<1> QED
  BY <1>2, <1>3, <1>4, <1>5, <1>6, <1>7, <1>8, <1>9, <1>10, WhoTouches

(* So do a unit's, at the first step of its producer and the last but one  *)
(* of its consumer.                                                        *)
LEMMA HookPlaceStep ==
    ASSUME TypeOK, OwnUnits, Inside, Places, [Next]_vars,
           NEW j \in WithUnits, NEW u \in UnitsOf[j], HookPlace(j, u)
    PROVE  HookPlace(j, u)'
<1> USE DEF HookPlace
<1>0. /\ j \in Jobs /\ u \in Units /\ UnitPlace(j, u)
      /\ JobOf(u) = j
  BY SourceAssumption, OwnerIsJob DEF Places
<1> DEFINE Quiet == /\ Has("StartUnitChunking", u)' <=> Has("StartUnitChunking", u)
                    /\ Has("EndUnitChunking", u)' <=> Has("EndUnitChunking", u)
<1>1. ASSUME UNCHANGED fired PROVE Quiet
  BY <1>1 DEF Has
<1>2. ASSUME AcquireFails PROVE Quiet /\ UNCHANGED <<upc, cpc>>
  BY <1>2, FireAdds DEF AcquireFails, unitVars, consVars
<1>3. ASSUME NEW i \in Jobs,
             \/ JobStart(i) \/ JobEnd(i) \/ JobFinish(i) \/ EnumStart(i)
             \/ EnumEnd(i)
      PROVE  Quiet
  BY <1>3, FireAdds DEF JobStart, JobEnd, JobFinish, EnumStart, EnumEnd
<1>4. ASSUME Quiet, upc'[u] = upc[u], cpc'[u] = cpc[u] PROVE HookPlace(j, u)'
  BY <1>4
<1>5. ASSUME NEW i \in Jobs, JobStart(i) PROVE HookPlace(j, u)'
  <2>1. Quiet
    BY <1>3, <1>5
  <2>2. upc'[u] = upc[u] /\ cpc'[u] = cpc[u]
    <3>1. CASE i = j
      BY <1>5, <3>1 DEF JobStart
    <3>2. CASE i # j
      <4>1. u \notin UnitsOf[i]
        BY <1>0, <3>2, SourceAssumption
      <4> QED BY <1>0, <1>5, <4>1 DEF JobStart
    <3> QED BY <3>1, <3>2
  <2> QED BY <1>4, <2>1, <2>2
<1>6. ASSUME NEW i \in Jobs, JobStartUnit(i) PROVE HookPlace(j, u)'
  <2>1. Quiet /\ jhold[i] \in Units
    BY <1>1, <1>6 DEF JobStartUnit, hookVars, TypeOK
  <2>2. CASE u = jhold[i]
    <3>1. i = j
      BY <1>0, <1>6, <2>2, SourceAssumption DEF JobStartUnit, OwnUnits
    <3>2. cpc[u] = "off" /\ upc[u] = "off"
      BY <1>0, <2>2, <3>1 DEF UnitPlace
    <3>3. upc'[u] = "begin" /\ cpc'[u] = "recv"
      BY <1>6, <2>1, <2>2 DEF JobStartUnit, TypeOK
    <3> QED BY <2>1, <3>2, <3>3
  <2>3. CASE u # jhold[i]
    <3>1. upc'[u] = upc[u] /\ cpc'[u] = cpc[u]
      BY <1>6, <2>3 DEF JobStartUnit, TypeOK
    <3> QED BY <1>4, <2>1, <3>1
  <2> QED BY <2>2, <2>3
<1>7. ASSUME NEW v \in Units, UnitStart(v) PROVE HookPlace(j, u)'
  <2>1. CASE v = u
    BY <1>0, <1>7, <2>1, FireAdds DEF UnitStart, consVars, TypeOK
  <2>2. CASE v # u
    BY <1>4, <1>7, <2>2, FireAdds DEF UnitStart, consVars, TypeOK
  <2> QED BY <2>1, <2>2
<1>8. ASSUME NEW v \in Units, UnitFail(v) \/ UnitReturn(v) PROVE HookPlace(j, u)'
  <2>1. Quiet /\ UNCHANGED cpc
    BY <1>1, <1>8 DEF UnitFail, UnitReturn, hookVars, consVars
  <2>2. \/ upc'[u] = upc[u]
        \/ upc[u] = "chunk" /\ upc'[u] \in {"closed", "failed"}
    BY <1>0, <1>8 DEF UnitFail, UnitReturn, TypeOK
  <2> QED BY <2>1, <2>2
<1>9. ASSUME NEW v \in Units, ConsumerRecv(v) \/ ConsumerSend(v)
      PROVE  HookPlace(j, u)'
  <2>1. Quiet /\ UNCHANGED upc
    BY <1>1, <1>9 DEF ConsumerRecv, ConsumerSend, hookVars, unitVars
  <2>2. \/ cpc'[u] = cpc[u]
        \/ cpc[u] \in {"recv", "send"} /\ cpc'[u] \in {"recv", "send"}
    BY <1>0, <1>9 DEF ConsumerRecv, ConsumerSend, TypeOK
  <2> QED BY <2>1, <2>2
<1>10. ASSUME NEW v \in Units, ConsumerEnd(v) PROVE HookPlace(j, u)'
  <2>1. CASE v = u
    <3>1. Fire("EndUnitChunking", u) /\ cpc'[u] = "end" /\ UNCHANGED upc
      BY <1>0, <1>10, <2>1 DEF ConsumerEnd, unitVars, TypeOK
    <3> QED BY <3>1, FireAdds
  <2>2. CASE v # u
    <3>1. cpc'[u] = cpc[u] /\ UNCHANGED upc
      BY <1>10, <2>2 DEF ConsumerEnd, unitVars, TypeOK
    <3>2. Quiet
      BY <1>1, <1>10, <2>2, FireAdds DEF ConsumerEnd
    <3> QED BY <1>4, <3>1, <3>2
  <2> QED BY <2>1, <2>2
<1>11. ASSUME NEW v \in Units, ConsumerDone(v) PROVE HookPlace(j, u)'
  <2>1. Quiet /\ UNCHANGED upc
    BY <1>1, <1>11 DEF ConsumerDone, hookVars, unitVars
  <2>2. cpc'[u] = cpc[u] \/ (cpc[u] = "end" /\ cpc'[u] = "gone")
    BY <1>0, <1>11 DEF ConsumerDone, TypeOK
  <2> QED BY <2>1, <2>2
<1>12. ASSUME UNCHANGED <<upc, cpc>>, Quiet PROVE HookPlace(j, u)'
  BY <1>4, <1>12
<1>13. CASE UNCHANGED <<upc, cpc>>
  BY <1>1, <1>2, <1>3, <1>7, <1>10, <1>12, <1>13, WhoTouches
<1> QED
  BY <1>5, <1>6, <1>7, <1>8, <1>9, <1>10, <1>11, <1>13, WhoTouches

(* After Wait has closed the hooks only an enumerating goroutine, which    *)
(* the job does not wait for, still has a hook to fire.                    *)
LEMMA LateHook ==
    ASSUME IInv, [Next]_vars, hooksClosed, NEW e \in fired' \ fired
    PROVE  e.hook = "EndEnumerating"
<1>1. asking = None /\ Running = {}
  BY DEF IInv, Submission
<1>2. \A j \in Jobs : jpc[j] \in {"new", "rejected", "gone"}
  BY <1>1 DEF Running
<1>3. /\ \A j \in Jobs : epc[j] # "start"
      /\ \A u \in Units : cpc[u] \notin {"recv", "send", "end"} /\ upc[u] # "begin"
  BY <1>2 DEF IInv, Inside
<1>4. PICK j \in Jobs : EnumEnd(j)
  <2>1. ~AcquireFails
    BY <1>1 DEF AcquireFails
  <2>2. \A j \in Jobs : ~JobStart(j) /\ ~JobEnd(j) /\ ~JobFinish(j) /\ ~EnumStart(j)
    BY <1>2, <1>3 DEF JobStart, JobEnd, JobFinish, EnumStart
  <2>3. \A u \in Units : ~UnitStart(u) /\ ~ConsumerEnd(u)
    BY <1>3 DEF UnitStart, ConsumerEnd
  <2> QED BY <2>1, <2>2, <2>3, WhoTouches
<1>5. e = [hook |-> "EndEnumerating", of |-> j]
  BY <1>4, FireAdds DEF EnumEnd
<1> QED BY <1>5

(* The hooks of a unit fall inside its job's Start, End and Finish, and a  *)
(* hook that was closed hears of nothing but a late EndEnumerating.        *)
THEOREM HooksAreInOrder == Spec => HooksAreBracketed
<1> DEFINE I == IInv /\ Places /\ HookPlaces
<1>1. Init => I
  <2> SUFFICES ASSUME Init PROVE HookPlaces
    BY InitInv, InitPlaces
  <2>1. fired = {} /\ \A h, x : ~Has(h, x)
    BY DEF Init, Has
  <2>2. ASSUME NEW j \in WithUnits, NEW u \in UnitsOf[j] PROVE HookPlace(j, u)
    <3>1. u \in Units
      BY SourceAssumption, OwnerIsJob
    <3>2. upc[u] = "off" /\ cpc[u] = "off"
      BY <3>1 DEF Init
    <3> QED BY <2>1, <3>2 DEF HookPlace
  <2> QED BY <2>1, <2>2 DEF HookPlaces, JobHooks
<1>2. I /\ [Next]_vars => I'
  <2> SUFFICES ASSUME IInv, Places, HookPlaces, [Next]_vars PROVE I'
    OBVIOUS
  <2>1. TypeOK /\ Submission /\ OwnUnits /\ Inside
    BY DEF IInv
  <2>2. HookPlaces'
    BY <2>1, JobHooksStep, HookPlaceStep DEF HookPlaces
  <2> QED BY <2>1, <2>2, NextInv, PlacesStep
<1>3. I => UnitHooksInsideJob
  <2> SUFFICES ASSUME I, NEW j \in WithUnits, NEW u \in UnitsOf[j]
               PROVE  /\ Has("EndUnitChunking", u) => Has("StartUnitChunking", u)
                      /\ /\ Has("StartUnitChunking", u)
                         /\ Has("End", j) \/ Has("Finish", j)
                         => Has("EndUnitChunking", u)
    BY DEF UnitHooksInsideJob, Has
  <2>1. j \in Jobs /\ UnitPlace(j, u) /\ JobHooks(j) /\ HookPlace(j, u)
    BY SourceAssumption DEF Places, HookPlaces
  <2> QED BY <2>1 DEF UnitPlace, JobHooks, HookPlace, Ended
<1>4. I /\ [Next]_vars =>
        [hooksClosed => \A e \in fired' \ fired : e.hook = "EndEnumerating"]_vars
  BY LateHook
<1> QED BY <1>1, <1>2, <1>3, <1>4, PTL DEF Spec, HooksAreBracketed
=============================================================================
