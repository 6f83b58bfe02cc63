--------------------------- MODULE SourceManager ---------------------------
(***************************************************************************)
(* The source manager of pkg/sources/source_manager.go: EnumerateAndScan   *)
(* runs jobs under a semaphore; a job with units runs an enumerating       *)
(* goroutine, one producer and one consumer goroutine per unit; a job      *)
(* without units runs Source.Chunks itself and one consumer goroutine,     *)
(* which appears here as its single unit.  Wait waits for the jobs, closes *)
(* the output channel and closes the progress hooks.                       *)
(*                                                                         *)
(* A source is a set of units with chunks.  It may fail (an error or a     *)
(* panic: both handlers record a fatal error).  Once its context is done   *)
(* it may give up with units and chunks left, and with an error or without *)
(* one: sources do either.                                                 *)
(***************************************************************************)
EXTENDS Integers, Sequences, FiniteSets

CONSTANTS
    Jobs, Units, Chunks,
    UnitsOf,          \* job -> its units
    ChunksOf,         \* unit -> its chunks
    WithUnits,        \* the jobs run by runWithUnits
    Limit,            \* capacity of the semaphore
    ConcurrentUnits,  \* s.concurrentUnits; 0 is no limit
    OutputCap,        \* capacity of s.outputChunks
    UnitCap,          \* capacity of a unit's chunk channel
    MayFail,          \* may a source fail by itself?
    MayCancel,        \* may the parent context or a job be cancelled?
    None

ASSUME SourceAssumption ==
    /\ UnitsOf \in [Jobs -> SUBSET Units]
    /\ WithUnits \subseteq Jobs
    /\ ChunksOf \in [Units -> SUBSET Chunks]
    /\ \A i, j \in Jobs : i # j => UnitsOf[i] \cap UnitsOf[j] = {}
    /\ \A j \in Jobs \ WithUnits : \E u \in Units : UnitsOf[j] = {u}
    /\ \A u, v \in Units : u # v => ChunksOf[u] \cap ChunksOf[v] = {}
    /\ None \notin Jobs \cup Units \cup Chunks

ASSUME LimitAssumption ==
    /\ Limit \in Nat \ {0} /\ OutputCap \in Nat /\ UnitCap \in Nat
    /\ ConcurrentUnits \in Nat

VARIABLES
    mpc,         \* the thread that submits the jobs and calls Wait
    unsubmitted, \* jobs not submitted yet
    asking,      \* the job waiting for the semaphore, or None
    parentDone, cancelled,  \* the parent context, the contexts of the jobs
    sem,         \* s.sem.GetCount()
    jpc, jhold,  \* job goroutines and the unit each one holds
    epc, etodo, unitCh,     \* enumerating goroutines
    upc, utodo, uch,        \* producers and the chunk channels of the units
    cpc, chold,  \* consumers and the chunk each one holds
    fatal,       \* jobs whose source failed: the fatal errors run returns
    firstErr,    \* s.firstErr (capacity 1): a job, or None
    waitErr,     \* what Wait returned
    output, outputClosed,   \* s.outputChunks
    delivered,   \* chunks the scanner workers received
    fired,       \* progress hooks that have fired
    hooksClosed  \* Wait closed the hooks

mainVars == <<mpc, unsubmitted, asking, parentDone, cancelled>>
jobVars == <<jpc, jhold>>
enumVars == <<epc, etodo, unitCh>>
unitVars == <<upc, utodo, uch>>
consVars == <<cpc, chold>>
errVars == <<fatal, firstErr, waitErr>>
outVars == <<output, outputClosed, delivered>>
hookVars == <<fired, hooksClosed>>
vars == <<mainVars, sem, jobVars, enumVars, unitVars, consVars, errVars,
          outVars, hookVars>>

JobOf(u) == CHOOSE j \in Jobs : u \in UnitsOf[j]
Done(j) == parentDone \/ j \in cancelled
Events == [hook : {"StartEnumerating", "EndEnumerating", "Start", "End", "Finish"},
           of : Jobs]
            \cup [hook : {"StartUnitChunking", "EndUnitChunking"}, of : Units]

Fire(h, x) == fired' = fired \cup {[hook |-> h, of |-> x]}

Init ==
    /\ mpc = "submit"
    /\ unsubmitted = Jobs
    /\ asking = None
    /\ parentDone = FALSE /\ cancelled = {}
    /\ sem = 0
    /\ jpc = [j \in Jobs |-> "new"]
    /\ jhold = [j \in Jobs |-> None]
    /\ epc = [j \in Jobs |-> "off"]
    /\ etodo = [j \in Jobs |-> UnitsOf[j]]
    /\ unitCh = [j \in Jobs |-> <<>>]
    /\ upc = [u \in Units |-> "off"]
    /\ utodo = [u \in Units |-> ChunksOf[u]]
    /\ uch = [u \in Units |-> <<>>]
    /\ cpc = [u \in Units |-> "off"]
    /\ chold = [u \in Units |-> None]
    /\ fatal = {} /\ firstErr = None /\ waitErr = None
    /\ output = <<>> /\ outputClosed = FALSE /\ delivered = {}
    /\ fired = {} /\ hooksClosed = FALSE

-----------------------------------------------------------------------------
(* EnumerateAndScan *)

(* The preflight check: a done context is an error and nothing is started. *)
Reject(j) ==
    /\ mpc = "submit" /\ asking = None
    /\ j \in unsubmitted
    /\ parentDone
    /\ unsubmitted' = unsubmitted \ {j}
    /\ jpc' = [jpc EXCEPT ![j] = "rejected"]
    /\ UNCHANGED <<mpc, asking, parentDone, cancelled, sem, jhold, enumVars,
                   unitVars, consVars, errVars, outVars, hookVars>>

Submit(j) ==
    /\ mpc = "submit" /\ asking = None
    /\ j \in unsubmitted
    /\ ~parentDone
    /\ unsubmitted' = unsubmitted \ {j}
    /\ asking' = j
    /\ UNCHANGED <<mpc, parentDone, cancelled, sem, jobVars, enumVars, unitVars,
                   consVars, errVars, outVars, hookVars>>

(* sem.Acquire and wg.Add(1); the goroutine starts. *)
Acquire ==
    /\ asking # None
    /\ sem < Limit
    /\ sem' = sem + 1
    /\ jpc' = [jpc EXCEPT ![asking] = "start"]
    /\ asking' = None
    /\ UNCHANGED <<mpc, unsubmitted, parentDone, cancelled, jhold, enumVars,
                   unitVars, consVars, errVars, outVars, hookVars>>

(* Mutant: the semaphore is released even though it was not acquired.      *)
AcquireFailsReleases ==
    /\ asking # None
    /\ parentDone
    /\ sem' = sem - 1
    /\ jpc' = [jpc EXCEPT ![asking] = "rejected"]
    /\ Fire("Finish", asking)
    /\ asking' = None
    /\ UNCHANGED <<mpc, unsubmitted, parentDone, cancelled, jhold, enumVars,
                   unitVars, consVars, errVars, outVars, hooksClosed>>

(* The context ends while the job waits for the semaphore: the job is      *)
(* finished at once and never runs.                                        *)
AcquireFails ==
    /\ asking # None
    /\ parentDone
    /\ jpc' = [jpc EXCEPT ![asking] = "rejected"]
    /\ Fire("Finish", asking)
    /\ asking' = None
    /\ UNCHANGED <<mpc, unsubmitted, parentDone, cancelled, sem, jhold, enumVars,
                   unitVars, consVars, errVars, outVars, hooksClosed>>

(* The contexts of the jobs derive from the parent. *)
CancelParent ==
    /\ MayCancel /\ ~parentDone
    /\ parentDone' = TRUE
    /\ cancelled' = Jobs
    /\ UNCHANGED <<mpc, unsubmitted, asking, sem, jobVars, enumVars,
                   unitVars, consVars, errVars, outVars, hookVars>>

(* JobProgress.CancelRun of a running job *)
CancelRun(j) ==
    /\ MayCancel
    /\ jpc[j] \in {"start", "range", "wait"}
    /\ j \notin cancelled
    /\ cancelled' = cancelled \cup {j}
    /\ UNCHANGED <<mpc, unsubmitted, asking, parentDone, sem, jobVars, enumVars,
                   unitVars, consVars, errVars, outVars, hookVars>>

-----------------------------------------------------------------------------
(* run and runWithUnits: the job's goroutine *)

(* report.Start; then the enumerating goroutine, or, without units, the    *)
(* consumer goroutine and Source.Chunks.                                   *)
JobStart(j) ==
    /\ jpc[j] = "start"
    /\ Fire("Start", j)
    /\ IF j \in WithUnits
       THEN /\ jpc' = [jpc EXCEPT ![j] = "range"]
            /\ epc' = [epc EXCEPT ![j] = "start"]
            /\ UNCHANGED <<upc, cpc>>
       ELSE /\ jpc' = [jpc EXCEPT ![j] = "wait"]
            /\ upc' = [u \in Units |-> IF u \in UnitsOf[j] THEN "chunk" ELSE upc[u]]
            /\ cpc' = [u \in Units |-> IF u \in UnitsOf[j] THEN "recv" ELSE cpc[u]]
            /\ UNCHANGED epc
    /\ UNCHANGED <<mainVars, sem, jhold, etodo, unitCh, utodo, uch, chold,
                   errVars, outVars, hooksClosed>>

JobRecvUnit(j) ==
    /\ jpc[j] = "range" /\ jhold[j] = None
    /\ unitCh[j] # <<>>
    /\ jhold' = [jhold EXCEPT ![j] = Head(unitCh[j])]
    /\ unitCh' = [unitCh EXCEPT ![j] = Tail(@)]
    /\ UNCHANGED <<mainVars, sem, jpc, epc, etodo, unitVars, consVars, errVars,
                   outVars, hookVars>>

Chunking(j) == {u \in UnitsOf[j] : upc[u] \in {"begin", "chunk"}}

(* unitPool.Go blocks at the limit; then the unit's two goroutines start.  *)
JobStartUnit(j) ==
    /\ jpc[j] = "range" /\ jhold[j] # None
    /\ ConcurrentUnits = 0 \/ Cardinality(Chunking(j)) < ConcurrentUnits
    /\ upc' = [upc EXCEPT ![jhold[j]] = "begin"]
    /\ cpc' = [cpc EXCEPT ![jhold[j]] = "recv"]
    /\ jhold' = [jhold EXCEPT ![j] = None]
    /\ UNCHANGED <<mainVars, sem, jpc, enumVars, utodo, uch, chold, errVars,
                   outVars, hookVars>>

JobRangeEnd(j) ==
    /\ jpc[j] = "range" /\ jhold[j] = None
    /\ unitCh[j] = <<>> /\ epc[j] \in {"closed", "gone"}
    /\ jpc' = [jpc EXCEPT ![j] = "wait"]
    /\ UNCHANGED <<mainVars, sem, jhold, enumVars, unitVars, consVars, errVars,
                   outVars, hookVars>>

(* wg.Wait() for the consumers *)
Consuming(j) == {u \in UnitsOf[j] : cpc[u] \in {"recv", "send", "end"}}

(* Mutant: the consumers are waited for only when the job did not fail.    *)
JobEndEarlyOnError(j) ==
    /\ jpc[j] = "wait"
    /\ Consuming(j) = {} \/ j \in fatal
    /\ Fire("End", j)
    /\ firstErr' = IF j \in fatal /\ firstErr = None THEN j ELSE firstErr
    /\ jpc' = [jpc EXCEPT ![j] = "release"]
    /\ UNCHANGED <<mainVars, sem, jhold, enumVars, unitVars, consVars, fatal,
                   waitErr, outVars, hooksClosed>>

(* Mutant: run waits for the producers only.                               *)
JobEndProducersOnly(j) ==
    /\ jpc[j] = "wait"
    /\ \A u \in UnitsOf[j] : upc[u] \in {"off", "closed", "failed"}
    /\ Fire("End", j)
    /\ firstErr' = IF j \in fatal /\ firstErr = None THEN j ELSE firstErr
    /\ jpc' = [jpc EXCEPT ![j] = "release"]
    /\ UNCHANGED <<mainVars, sem, jhold, enumVars, unitVars, consVars, fatal,
                   waitErr, outVars, hooksClosed>>

(* Mutant: firstErr holds what the last job returned, nil too.              *)
JobEndErrorOverwritten(j) ==
    /\ jpc[j] = "wait"
    /\ Consuming(j) = {}
    /\ Fire("End", j)
    /\ firstErr' = IF j \in fatal THEN j ELSE None
    /\ jpc' = [jpc EXCEPT ![j] = "release"]
    /\ UNCHANGED <<mainVars, sem, jhold, enumVars, unitVars, consVars, fatal,
                   waitErr, outVars, hooksClosed>>

(* run returns: its deferred call fires report.End; a source's fatal error *)
(* goes to the one-place firstErr channel unless it is taken.              *)
JobEnd(j) ==
    /\ jpc[j] = "wait"
    /\ Consuming(j) = {}
    /\ Fire("End", j)
    /\ firstErr' = IF j \in fatal /\ firstErr = None THEN j ELSE firstErr
    /\ jpc' = [jpc EXCEPT ![j] = "release"]
    /\ UNCHANGED <<mainVars, sem, jhold, enumVars, unitVars, consVars, fatal,
                   waitErr, outVars, hooksClosed>>

(* Mutant: a failed job keeps its place in the semaphore.                  *)
JobReleaseUnlessFailed(j) ==
    /\ jpc[j] = "release"
    /\ sem' = IF j \in fatal THEN sem ELSE sem - 1
    /\ jpc' = [jpc EXCEPT ![j] = "finish"]
    /\ UNCHANGED <<mainVars, jhold, enumVars, unitVars, consVars, errVars,
                   outVars, hookVars>>

(* The deferred calls, in the order they run: sem.Release(1), *)
JobRelease(j) ==
    /\ jpc[j] = "release"
    /\ sem' = sem - 1
    /\ jpc' = [jpc EXCEPT ![j] = "finish"]
    /\ UNCHANGED <<mainVars, jhold, enumVars, unitVars, consVars, errVars,
                   outVars, hookVars>>

(* progress.Finish(), *)
JobFinish(j) ==
    /\ jpc[j] = "finish"
    /\ Fire("Finish", j)
    /\ jpc' = [jpc EXCEPT ![j] = "done"]
    /\ UNCHANGED <<mainVars, sem, jhold, enumVars, unitVars, consVars, errVars,
                   outVars, hooksClosed>>

(* s.wg.Done() *)
JobDone(j) ==
    /\ jpc[j] = "done"
    /\ jpc' = [jpc EXCEPT ![j] = "gone"]
    /\ UNCHANGED <<mainVars, sem, jhold, enumVars, unitVars, consVars, errVars,
                   outVars, hookVars>>

-----------------------------------------------------------------------------
(* runWithUnits: the enumerating goroutine *)

EnumStart(j) ==
    /\ epc[j] = "start"
    /\ Fire("StartEnumerating", j)
    /\ epc' = [epc EXCEPT ![j] = "enum"]
    /\ UNCHANGED <<mainVars, sem, jobVars, etodo, unitCh, unitVars, consVars,
                   errVars, outVars, hooksClosed>>

(* mgrUnitReporter.UnitOk: the write to the one-place unit channel *)
EnumUnit(j, u) ==
    /\ epc[j] = "enum"
    /\ u \in etodo[j]
    /\ Len(unitCh[j]) < 1
    /\ etodo' = [etodo EXCEPT ![j] = @ \ {u}]
    /\ unitCh' = [unitCh EXCEPT ![j] = Append(@, u)]
    /\ UNCHANGED <<mainVars, sem, jobVars, epc, unitVars, consVars, errVars,
                   outVars, hookVars>>

(* Enumerate returns an error, or panics.                                  *)
EnumFail(j) ==
    /\ epc[j] = "enum"
    /\ MayFail \/ (Done(j) /\ etodo[j] # {})
    /\ fatal' = fatal \cup {j}
    /\ epc' = [epc EXCEPT ![j] = "close"]
    /\ UNCHANGED <<mainVars, sem, jobVars, etodo, unitCh, unitVars, consVars,
                   firstErr, waitErr, outVars, hookVars>>

(* Enumerate returns nil: its units are all reported, or the context is    *)
(* done and it left the rest.                                              *)
EnumReturn(j) ==
    /\ epc[j] = "enum"
    /\ etodo[j] = {} \/ Done(j)
    /\ epc' = [epc EXCEPT ![j] = "close"]
    /\ UNCHANGED <<mainVars, sem, jobVars, etodo, unitCh, unitVars, consVars,
                   errVars, outVars, hookVars>>

(* The deferred close of the unit channel, *)
EnumClose(j) ==
    /\ epc[j] = "close"
    /\ epc' = [epc EXCEPT ![j] = "closed"]
    /\ UNCHANGED <<mainVars, sem, jobVars, etodo, unitCh, unitVars, consVars,
                   errVars, outVars, hookVars>>

(* and after it the deferred report.EndEnumerating. *)
EnumEnd(j) ==
    /\ epc[j] = "closed"
    /\ Fire("EndEnumerating", j)
    /\ epc' = [epc EXCEPT ![j] = "gone"]
    /\ UNCHANGED <<mainVars, sem, jobVars, etodo, unitCh, unitVars, consVars,
                   errVars, outVars, hooksClosed>>

-----------------------------------------------------------------------------
(* The producer of a unit's chunks *)

UnitStart(u) ==
    /\ upc[u] = "begin"
    /\ Fire("StartUnitChunking", u)
    /\ upc' = [upc EXCEPT ![u] = "chunk"]
    /\ UNCHANGED <<mainVars, sem, jobVars, enumVars, utodo, uch, consVars,
                   errVars, outVars, hooksClosed>>

(* mgrChunkReporter.ChunkOk, or the source's own write to its channel *)
UnitChunk(u, c) ==
    /\ upc[u] = "chunk"
    /\ c \in utodo[u]
    /\ Len(uch[u]) < UnitCap
    /\ utodo' = [utodo EXCEPT ![u] = @ \ {c}]
    /\ uch' = [uch EXCEPT ![u] = Append(@, c)]
    /\ UNCHANGED <<mainVars, sem, jobVars, enumVars, upc, consVars, errVars,
                   outVars, hookVars>>

(* ChunkUnit (or Chunks) returns an error or panics; its channel is closed. *)
UnitFail(u) ==
    /\ upc[u] = "chunk"
    /\ MayFail \/ (Done(JobOf(u)) /\ utodo[u] # {})
    /\ fatal' = fatal \cup {JobOf(u)}
    /\ upc' = [upc EXCEPT ![u] = "failed"]
    /\ UNCHANGED <<mainVars, sem, jobVars, enumVars, utodo, uch, consVars,
                   firstErr, waitErr, outVars, hookVars>>

(* ChunkUnit (or Chunks) returns nil: its chunks are all out, or the       *)
(* context is done and it left the rest.  Its channel is closed.           *)
UnitReturn(u) ==
    /\ upc[u] = "chunk"
    /\ utodo[u] = {} \/ Done(JobOf(u))
    /\ upc' = [upc EXCEPT ![u] = "closed"]
    /\ UNCHANGED <<mainVars, sem, jobVars, enumVars, utodo, uch, consVars,
                   errVars, outVars, hookVars>>

-----------------------------------------------------------------------------
(* The consumer that forwards a unit's chunks to the output channel *)

ConsumerRecv(u) ==
    /\ cpc[u] = "recv"
    /\ uch[u] # <<>>
    /\ chold' = [chold EXCEPT ![u] = Head(uch[u])]
    /\ uch' = [uch EXCEPT ![u] = Tail(@)]
    /\ cpc' = [cpc EXCEPT ![u] = "send"]
    /\ UNCHANGED <<mainVars, sem, jobVars, enumVars, upc, utodo, errVars,
                   outVars, hookVars>>

ConsumerSend(u) ==
    /\ cpc[u] = "send"
    /\ Len(output) < OutputCap
    /\ output' = Append(output, chold[u])
    /\ chold' = [chold EXCEPT ![u] = None]
    /\ cpc' = [cpc EXCEPT ![u] = "recv"]
    /\ UNCHANGED <<mainVars, sem, jobVars, enumVars, unitVars, errVars,
                   outputClosed, delivered, hookVars>>

(* The range loop ends; a unit's deferred report.EndUnitChunking fires. *)
ConsumerEnd(u) ==
    /\ cpc[u] = "recv"
    /\ uch[u] = <<>> /\ upc[u] \in {"closed", "failed"}
    /\ IF JobOf(u) \in WithUnits THEN Fire("EndUnitChunking", u)
                                 ELSE UNCHANGED fired
    /\ cpc' = [cpc EXCEPT ![u] = "end"]
    /\ UNCHANGED <<mainVars, sem, jobVars, enumVars, unitVars, chold, errVars,
                   outVars, hooksClosed>>

(* wg.Done() *)
ConsumerDone(u) ==
    /\ cpc[u] = "end"
    /\ cpc' = [cpc EXCEPT ![u] = "gone"]
    /\ UNCHANGED <<mainVars, sem, jobVars, enumVars, unitVars, chold, errVars,
                   outVars, hookVars>>

-----------------------------------------------------------------------------
(* Wait *)

(* Mutant: s.wg.Done() before progress.Finish(), the order the comment in  *)
(* EnumerateAndScan warns of.                                              *)
RunningUntilFinish ==
    {j \in Jobs : jpc[j] \notin {"new", "rejected", "finish", "done", "gone"}}

(* The jobs s.wg counts: those whose goroutine has started and not ended.  *)
Running == {j \in Jobs : jpc[j] \notin {"new", "rejected", "gone"}}

(* s.done = true; s.wg.Wait(); the first error is taken; the channel is    *)
(* closed.                                                                 *)
WaitClose ==
    /\ mpc = "submit" /\ unsubmitted = {} /\ asking = None
    /\ Running = {}
    /\ waitErr' = firstErr
    /\ outputClosed' = TRUE
    /\ mpc' = "hooks"
    /\ UNCHANGED <<unsubmitted, asking, parentDone, cancelled, sem, jobVars,
                   enumVars, unitVars, consVars, fatal, firstErr,
                   output, delivered, hookVars>>

(* hook.Close() *)
WaitHooks ==
    /\ mpc = "hooks"
    /\ hooksClosed' = TRUE
    /\ mpc' = "returned"
    /\ UNCHANGED <<unsubmitted, asking, parentDone, cancelled, sem, jobVars,
                   enumVars, unitVars, consVars, errVars, outVars, fired>>

(* A scanner worker takes a chunk off the output channel. *)
Deliver ==
    /\ output # <<>>
    /\ delivered' = delivered \cup {Head(output)}
    /\ output' = Tail(output)
    /\ UNCHANGED <<mainVars, sem, jobVars, enumVars, unitVars, consVars, errVars,
                   outputClosed, hookVars>>

(* Everything has ended. *)
Returned ==
    /\ mpc = "returned" /\ output = <<>>
    /\ \A j \in Jobs : epc[j] \in {"off", "gone"}
    /\ UNCHANGED vars

-----------------------------------------------------------------------------
MainStep ==
    \/ \E j \in Jobs : Reject(j) \/ Submit(j)
    \/ Acquire \/ AcquireFails \/ WaitClose \/ WaitHooks

JobStep(j) ==
    \/ JobStart(j) \/ JobRecvUnit(j) \/ JobStartUnit(j) \/ JobRangeEnd(j)
    \/ JobEnd(j) \/ JobRelease(j) \/ JobFinish(j) \/ JobDone(j)

EnumStep(j) ==
    \/ EnumStart(j) \/ (\E u \in Units : EnumUnit(j, u)) \/ EnumFail(j)
    \/ EnumReturn(j) \/ EnumClose(j) \/ EnumEnd(j)

UnitStep(u) ==
    \/ UnitStart(u) \/ (\E c \in Chunks : UnitChunk(u, c)) \/ UnitFail(u)
    \/ UnitReturn(u)

ConsumerStep(u) ==
    \/ ConsumerRecv(u) \/ ConsumerSend(u) \/ ConsumerEnd(u) \/ ConsumerDone(u)

Next ==
    \/ MainStep
    \/ CancelParent
    \/ \E j \in Jobs : CancelRun(j) \/ JobStep(j) \/ EnumStep(j)
    \/ \E u \in Units : UnitStep(u) \/ ConsumerStep(u)
    \/ Deliver
    \/ Returned

(* Goroutines that can run do run, and the engine keeps reading chunks.    *)
Fairness ==
    /\ WF_vars(MainStep)
    /\ \A j \in Jobs : WF_vars(JobStep(j)) /\ WF_vars(EnumStep(j))
    /\ \A u \in Units : WF_vars(UnitStep(u)) /\ WF_vars(ConsumerStep(u))
    /\ WF_vars(Deliver)

Spec == Init /\ [][Next]_vars /\ Fairness

-----------------------------------------------------------------------------
(* Type correctness of the manager's state. *)
TypeOK ==
    /\ mpc \in {"submit", "hooks", "returned"}
    /\ unsubmitted \subseteq Jobs
    /\ asking \in Jobs \cup {None}
    /\ parentDone \in BOOLEAN /\ cancelled \subseteq Jobs
    /\ sem \in 0..Limit
    /\ jpc \in [Jobs -> {"new", "rejected", "start", "range", "wait", "release",
                         "finish", "done", "gone"}]
    /\ jhold \in [Jobs -> Units \cup {None}]
    /\ epc \in [Jobs -> {"off", "start", "enum", "close", "closed", "gone"}]
    /\ etodo \in [Jobs -> SUBSET Units]
    /\ unitCh \in [Jobs -> Seq(Units)]
    /\ upc \in [Units -> {"off", "begin", "chunk", "closed", "failed"}]
    /\ utodo \in [Units -> SUBSET Chunks]
    /\ uch \in [Units -> Seq(Chunks)]
    /\ cpc \in [Units -> {"off", "recv", "send", "end", "gone"}]
    /\ chold \in [Units -> Chunks \cup {None}]
    /\ fatal \subseteq Jobs
    /\ firstErr \in Jobs \cup {None} /\ waitErr \in Jobs \cup {None}
    /\ output \in Seq(Chunks) /\ outputClosed \in BOOLEAN
    /\ delivered \subseteq Chunks
    /\ fired \subseteq Events /\ hooksClosed \in BOOLEAN

(* No consumer is about to send on the closed output channel: run does not *)
(* return before its consumers have, whether the source ended well, failed *)
(* or was cancelled.                                                       *)
NoSendOnClosedOutput ==
    outputClosed => \A u \in Units : cpc[u] \notin {"recv", "send"}

(* The semaphore counts the jobs between Acquire and Release, so that no   *)
(* capacity is lost, and after Wait none is held.                          *)
SemaphoreBalanced ==
    /\ sem = Cardinality({j \in Jobs : jpc[j] \in {"start", "range", "wait", "release"}})
    /\ mpc = "returned" => sem = 0

(* Wait returns an error exactly when the source of some job failed, even  *)
(* when several jobs fail and only one error has room.                     *)
WaitErrorIffFatal ==
    mpc # "submit" => /\ waitErr = None <=> fatal = {}
                      /\ waitErr # None => waitErr \in fatal

InSeq(s) == {s[i] : i \in 1..Len(s)}

(* The chunks that have been put on s.outputChunks, received or not. *)
Sent == delivered \cup InSeq(output)

(* When Wait closes the output channel it holds, or has passed on, every   *)
(* chunk a source handed over, whatever fails or is cancelled; and of a    *)
(* job that was not cancelled, all chunks of every unit whose own chunking *)
(* did not fail, though other units, other jobs or, for a unit enumerated  *)
(* before, the enumeration failed.                                         *)
NoChunkLost ==
    outputClosed =>
        \A j \in Jobs : \A u \in UnitsOf[j] :
            /\ ChunksOf[u] \ utodo[u] \subseteq Sent
            /\ ~Done(j) /\ upc[u] # "failed" /\ (u \notin etodo[j] \/ j \notin fatal)
                 => ChunksOf[u] \subseteq Sent

(* The hooks that fired by a given state bracket each unit: its            *)
(* EndUnitChunking follows its StartUnitChunking and comes before the      *)
(* job's End and Finish.                                                   *)
UnitHooksInsideJob ==
    \A j \in WithUnits : \A u \in UnitsOf[j] :
        LET has(h, x) == [hook |-> h, of |-> x] \in fired IN
        /\ has("EndUnitChunking", u) => has("StartUnitChunking", u)
        /\ has("StartUnitChunking", u) /\ (has("End", j) \/ has("Finish", j))
             => has("EndUnitChunking", u)

(* A hook that closes its books on Finish has seen every unit of the job,  *)
(* and a closed hook hears of nothing more: the one hook that may fire     *)
(* after Wait closed the hooks is EndEnumerating.                          *)
HooksAreBracketed ==
    /\ []UnitHooksInsideJob
    /\ [][hooksClosed => \A e \in fired' \ fired : e.hook = "EndEnumerating"]_vars

(* The output is a ChunkStream. *)
Stream == INSTANCE ChunkStream WITH sent <- Sent, open <- ~outputClosed

(* Every chunk is sent at most once and never after the close, and Wait    *)
(* closes the channel in the end, whatever fails or is cancelled.          *)
ImplementsStream == Stream!Spec
=============================================================================
