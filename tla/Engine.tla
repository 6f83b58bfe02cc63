------------------------------- MODULE Engine -------------------------------
(***************************************************************************)
(* The scanning pipeline of pkg/engine/engine.go: sources put chunks on a  *)
(* channel; scanner workers decode them and route every decoded piece to   *)
(* the detector workers, or, when several detectors match it, to the       *)
(* verification overlap workers first; results go to the notifier workers, *)
(* which filter, deduplicate and dispatch them.  Finish shuts the stages   *)
(* down one after the other.                                               *)
(*                                                                         *)
(* Every goroutine is a process; a channel is a bounded sequence; a step   *)
(* is one channel operation, one WaitGroup operation or one call on shared *)
(* state.  What a decoder, a detector or the overlap algorithm computes is *)
(* a constant; VerificationOverlap says how the overlap outcomes come to   *)
(* be, and MCEngine takes them from there.                                 *)
(***************************************************************************)
EXTENDS Integers, Sequences, FiniteSets

CONSTANTS
    Scanners, Overlappers, DetectWorkers, Notifiers,  \* goroutines per stage
    Chunks, Pieces, Dets, Results, Keys,
    PiecesOf,         \* chunk -> its decoded pieces (iterativeDecode)
    Matching,         \* piece -> detectors that match it
    AllowOverlap,     \* e.verificationOverlap (--allow-verification-overlap)
    OverlapOutcomes,  \* piece -> possible outcomes of the overlap worker
    Detected,         \* <<piece, detector>> -> results of detectChunk
    KeyOf,            \* result -> its dedupe key
    Filtered,         \* results dropped by --results and the like
    Reverified,       \* results with a SecretID, which bypass the dedupe cache
    ScanPanics,       \* chunks on which a decoder or the matcher panics
    DetectPanics,     \* <<piece, detector>> on which FromData panics
    DispatchPanics,   \* results on which the dispatcher panics
    DispatchMayFail,  \* may Dispatch return an error?
    SourceMayStop,    \* may the sources end early (cancelled, failed)?
    ChunksCap, OverlapCap, DetectCap, ResultsCap,  \* channel capacities
    DedupeSize,       \* e.dedupeCacheSize; 0 turns deduplication off
    None              \* no message, no result

OverlapOutcome == [reports : SUBSET Results, redetect : SUBSET Dets,
                   panics : BOOLEAN]

ASSUME WorkersAssumption ==
    /\ Scanners \cap Overlappers = {}
    /\ Scanners # {} /\ Overlappers # {}
    /\ DetectWorkers # {} /\ Notifiers # {}

ASSUME DataAssumption ==
    /\ PiecesOf \in [Chunks -> SUBSET Pieces]
    /\ Matching \in [Pieces -> SUBSET Dets]
    /\ OverlapOutcomes \in [Pieces -> SUBSET OverlapOutcome]
    /\ \A p \in Pieces : OverlapOutcomes[p] # {}
    /\ Detected \in [Pieces \X Dets -> SUBSET Results]
    /\ KeyOf \in [Results -> Keys]
    /\ AllowOverlap \in BOOLEAN
    /\ DispatchMayFail \in BOOLEAN
    /\ SourceMayStop \in BOOLEAN

ASSUME NoneAssumption ==
    /\ None \notin Chunks
    /\ None \notin Results

ASSUME CapacityAssumption ==
    /\ ChunksCap \in Nat /\ OverlapCap \in Nat
    /\ DetectCap \in Nat /\ ResultsCap \in Nat
    /\ DedupeSize \in Nat

VARIABLES
    unsent,       \* chunks the sources have not produced yet
    chunksChan,   \* sourceManager.Chunks()
    overlapChan,  \* e.verificationOverlapChunksChan
    detectChan,   \* e.detectableChunksChan
    resultsChan,  \* e.results
    closed,       \* the channels that have been closed
    fpc,          \* where Finish stands
    spc, schunk, stodo,           \* scanner workers
    wgOverlap, wgDetect,          \* WaitGroups local to the producing workers
    opc, ojob, oreports, oredetect, opanics,  \* overlap workers
    dpc, djob, dout,              \* detector workers
    npc, nres,                    \* notifier workers
    numFoundResults,              \* e.numFoundResults
    dedupeCache,                  \* e.dedupeCache, oldest entry first
    dispatches,                   \* result -> times it was dispatched
    failed                        \* results whose dispatch returned an error

sourceVars == <<unsent, chunksChan>>
scanVars == <<spc, schunk, stodo>>
wgVars == <<wgOverlap, wgDetect>>
overlapVars == <<opc, ojob, oreports, oredetect, opanics>>
detectVars == <<dpc, djob, dout>>
notifyVars == <<npc, nres, numFoundResults, dedupeCache, dispatches, failed>>
vars == <<sourceVars, overlapChan, detectChan, resultsChan, closed, fpc,
          scanVars, wgVars, overlapVars, detectVars, notifyVars>>

Channels == {"chunks", "overlap", "detect", "results"}
Producers == Scanners \cup Overlappers

(* verificationOverlapChunk and detectableChunk: the data and the worker   *)
(* whose WaitGroup the message releases (wgDoneFn).                        *)
OverlapMsg == [piece : Pieces, owner : Scanners]
DetectMsg == [piece : Pieces, det : Dets, owner : Producers]

ASSUME NoMessageAssumption == None \notin OverlapMsg \cup DetectMsg

(* A send a scanner worker still has to make for its chunk: a piece to the *)
(* overlap workers, or a piece to the detector workers for one detector.   *)
Send == [kind : {"overlap"}, piece : Pieces]
          \cup [kind : {"detect"}, piece : Pieces, det : Dets]

-----------------------------------------------------------------------------
Init ==
    /\ unsent = Chunks
    /\ chunksChan = <<>> /\ overlapChan = <<>>
    /\ detectChan = <<>> /\ resultsChan = <<>>
    /\ closed = {}
    /\ fpc = "sources"
    /\ spc = [w \in Scanners |-> "recv"]
    /\ schunk = [w \in Scanners |-> None]
    /\ stodo = [w \in Scanners |-> {}]
    /\ wgOverlap = [w \in Scanners |-> 0]
    /\ wgDetect = [w \in Producers |-> 0]
    /\ opc = [w \in Overlappers |-> "recv"]
    /\ ojob = [w \in Overlappers |-> None]
    /\ oreports = [w \in Overlappers |-> {}]
    /\ oredetect = [w \in Overlappers |-> {}]
    /\ opanics = [w \in Overlappers |-> FALSE]
    /\ dpc = [w \in DetectWorkers |-> "recv"]
    /\ djob = [w \in DetectWorkers |-> None]
    /\ dout = [w \in DetectWorkers |-> {}]
    /\ npc = [w \in Notifiers |-> "recv"]
    /\ nres = [w \in Notifiers |-> None]
    /\ numFoundResults = 0
    /\ dedupeCache = <<>>
    /\ dispatches = [r \in Results |-> 0]
    /\ failed = {}

-----------------------------------------------------------------------------
(* The sources: the source manager forwards the chunks of its jobs to the  *)
(* channel the scanner workers read.                                       *)
SourceSend(c) ==
    /\ "chunks" \notin closed
    /\ c \in unsent
    /\ Len(chunksChan) < ChunksCap
    /\ unsent' = unsent \ {c}
    /\ chunksChan' = Append(chunksChan, c)
    /\ UNCHANGED <<overlapChan, detectChan, resultsChan, closed, fpc,
                   scanVars, wgVars, overlapVars, detectVars, notifyVars>>

-----------------------------------------------------------------------------
(* Scanner workers *)

(* A piece with several matching detectors goes to the overlap workers     *)
(* once; any other piece goes to the detector workers once per detector,   *)
(* and a piece nothing matches is dropped.                                 *)
Overlaps(p) == Cardinality(Matching[p]) > 1 /\ ~AllowOverlap

Route(c) ==
    [kind : {"overlap"}, piece : {p \in PiecesOf[c] : Overlaps(p)}]
      \cup {s \in [kind : {"detect"}, piece : PiecesOf[c], det : Dets] :
                ~Overlaps(s.piece) /\ s.det \in Matching[s.piece]}

ScannerRecv(w) ==
    /\ spc[w] = "recv"
    /\ chunksChan # <<>>
    /\ spc' = [spc EXCEPT ![w] = "send"]
    /\ schunk' = [schunk EXCEPT ![w] = Head(chunksChan)]
    /\ stodo' = [stodo EXCEPT ![w] = Route(Head(chunksChan))]
    /\ chunksChan' = Tail(chunksChan)
    /\ UNCHANGED <<unsent, overlapChan, detectChan, resultsChan, closed, fpc,
                   wgVars, overlapVars, detectVars, notifyVars>>

(* wgVerificationOverlap.Add(1) and the send to the overlap workers *)
ScannerSendOverlap(w) ==
    /\ spc[w] = "send"
    /\ Len(overlapChan) < OverlapCap
    /\ \E s \in stodo[w] :
          /\ s.kind = "overlap"
          /\ stodo' = [stodo EXCEPT ![w] = @ \ {s}]
          /\ overlapChan' = Append(overlapChan, [piece |-> s.piece, owner |-> w])
    /\ wgOverlap' = [wgOverlap EXCEPT ![w] = @ + 1]
    /\ UNCHANGED <<sourceVars, detectChan, resultsChan, closed, fpc, spc,
                   schunk, wgDetect, overlapVars, detectVars, notifyVars>>

(* wgDetect.Add(1) and the send to the detector workers *)
ScannerSendDetect(w) ==
    /\ spc[w] = "send"
    /\ Len(detectChan) < DetectCap
    /\ \E s \in stodo[w] :
          /\ s.kind = "detect"
          /\ stodo' = [stodo EXCEPT ![w] = @ \ {s}]
          /\ detectChan' = Append(detectChan,
                             [piece |-> s.piece, det |-> s.det, owner |-> w])
    /\ wgDetect' = [wgDetect EXCEPT ![w] = @ + 1]
    /\ UNCHANGED <<sourceVars, overlapChan, resultsChan, closed, fpc, spc,
                   schunk, wgOverlap, overlapVars, detectVars, notifyVars>>

ScannerNext(w) ==
    /\ spc[w] = "send"
    /\ stodo[w] = {}
    /\ spc' = [spc EXCEPT ![w] = "recv"]
    /\ schunk' = [schunk EXCEPT ![w] = None]
    /\ UNCHANGED <<sourceVars, overlapChan, detectChan, resultsChan, closed,
                   fpc, stodo, wgVars, overlapVars, detectVars, notifyVars>>

(* The range loop ends when the channel is closed and empty. *)
ScannerDrained(w) ==
    /\ spc[w] = "recv"
    /\ chunksChan = <<>> /\ "chunks" \in closed
    /\ spc' = [spc EXCEPT ![w] = "wait"]
    /\ UNCHANGED <<sourceVars, overlapChan, detectChan, resultsChan, closed,
                   fpc, schunk, stodo, wgVars, overlapVars, detectVars,
                   notifyVars>>

(* wgVerificationOverlap.Wait(); wgDetect.Wait(); workersWg.Done() *)
ScannerExit(w) ==
    /\ spc[w] = "wait"
    /\ wgOverlap[w] = 0 /\ wgDetect[w] = 0
    /\ spc' = [spc EXCEPT ![w] = "done"]
    /\ UNCHANGED <<sourceVars, overlapChan, detectChan, resultsChan, closed,
                   fpc, schunk, stodo, wgVars, overlapVars, detectVars,
                   notifyVars>>

(* A panic unwinds the worker: workersWg.Done() and common.Recover run, the *)
(* rest of the chunk and the two Wait calls are skipped.                   *)
ScannerPanic(w) ==
    /\ spc[w] = "send"
    /\ schunk[w] \in ScanPanics
    /\ spc' = [spc EXCEPT ![w] = "done"]
    /\ schunk' = [schunk EXCEPT ![w] = None]
    /\ stodo' = [stodo EXCEPT ![w] = {}]
    /\ UNCHANGED <<sourceVars, overlapChan, detectChan, resultsChan, closed,
                   fpc, wgVars, overlapVars, detectVars, notifyVars>>

-----------------------------------------------------------------------------
(* Verification overlap workers *)

OverlapRecv(w) ==
    /\ opc[w] = "recv"
    /\ overlapChan # <<>>
    /\ LET m == Head(overlapChan) IN
         /\ ojob' = [ojob EXCEPT ![w] = m]
         /\ \E out \in OverlapOutcomes[m.piece] :
              /\ oreports' = [oreports EXCEPT ![w] = out.reports]
              /\ oredetect' = [oredetect EXCEPT ![w] = out.redetect]
              /\ opanics' = [opanics EXCEPT ![w] = out.panics]
    /\ overlapChan' = Tail(overlapChan)
    /\ opc' = [opc EXCEPT ![w] = "report"]
    /\ UNCHANGED <<sourceVars, detectChan, resultsChan, closed, fpc, scanVars,
                   wgVars, detectVars, notifyVars>>

(* processResult with errOverlap: the send to the results channel *)
OverlapSendResult(w) ==
    /\ opc[w] = "report"
    /\ Len(resultsChan) < ResultsCap
    /\ \E r \in oreports[w] :
          /\ oreports' = [oreports EXCEPT ![w] = @ \ {r}]
          /\ resultsChan' = Append(resultsChan, r)
    /\ UNCHANGED <<sourceVars, overlapChan, detectChan, closed, fpc, scanVars,
                   wgVars, opc, ojob, oredetect, opanics, detectVars,
                   notifyVars>>

(* The detector loop is over: the remaining detectors are queued next. *)
OverlapDecided(w) ==
    /\ opc[w] = "report"
    /\ oreports[w] = {} /\ ~opanics[w]
    /\ opc' = [opc EXCEPT ![w] = "redetect"]
    /\ UNCHANGED <<sourceVars, overlapChan, detectChan, resultsChan, closed,
                   fpc, scanVars, wgVars, ojob, oreports, oredetect, opanics,
                   detectVars, notifyVars>>

(* Mutant: the overlap worker forgets wgDetect.Add(1). *)
OverlapSendDetectNoAdd(w) ==
    /\ opc[w] = "redetect"
    /\ Len(detectChan) < DetectCap
    /\ \E d \in oredetect[w] :
          /\ oredetect' = [oredetect EXCEPT ![w] = @ \ {d}]
          /\ detectChan' = Append(detectChan,
                    [piece |-> ojob[w].piece, det |-> d, owner |-> w])
    /\ UNCHANGED <<sourceVars, overlapChan, resultsChan, closed, fpc, scanVars,
                   wgVars, opc, ojob, oreports, opanics, detectVars,
                   notifyVars>>

(* wgDetect.Add(1) and the send of the chunk for one remaining detector *)
OverlapSendDetect(w) ==
    /\ opc[w] = "redetect"
    /\ Len(detectChan) < DetectCap
    /\ \E d \in oredetect[w] :
          /\ oredetect' = [oredetect EXCEPT ![w] = @ \ {d}]
          /\ detectChan' = Append(detectChan,
                    [piece |-> ojob[w].piece, det |-> d, owner |-> w])
    /\ wgDetect' = [wgDetect EXCEPT ![w] = @ + 1]
    /\ UNCHANGED <<sourceVars, overlapChan, resultsChan, closed, fpc, scanVars,
                   wgOverlap, opc, ojob, oreports, opanics, detectVars,
                   notifyVars>>

(* verificationOverlapWgDoneFn(), then the next chunk *)
OverlapChunkDone(w) ==
    /\ opc[w] = "redetect"
    /\ oredetect[w] = {}
    /\ wgOverlap' = [wgOverlap EXCEPT ![ojob[w].owner] = @ - 1]
    /\ opc' = [opc EXCEPT ![w] = "recv"]
    /\ ojob' = [ojob EXCEPT ![w] = None]
    /\ UNCHANGED <<sourceVars, overlapChan, detectChan, resultsChan, closed,
                   fpc, scanVars, wgDetect, oreports, oredetect, opanics,
                   detectVars, notifyVars>>

OverlapDrained(w) ==
    /\ opc[w] = "recv"
    /\ overlapChan = <<>> /\ "overlap" \in closed
    /\ opc' = [opc EXCEPT ![w] = "wait"]
    /\ UNCHANGED <<sourceVars, overlapChan, detectChan, resultsChan, closed,
                   fpc, scanVars, wgVars, ojob, oreports, oredetect, opanics,
                   detectVars, notifyVars>>

(* wgDetect.Wait(); verificationOverlapWg.Done() *)
OverlapExit(w) ==
    /\ opc[w] = "wait"
    /\ wgDetect[w] = 0
    /\ opc' = [opc EXCEPT ![w] = "done"]
    /\ UNCHANGED <<sourceVars, overlapChan, detectChan, resultsChan, closed,
                   fpc, scanVars, wgVars, ojob, oreports, oredetect, opanics,
                   detectVars, notifyVars>>

(* FromData panics in the detector loop: the worker ends, the scanner's    *)
(* wgVerificationOverlap is never released for this chunk.                 *)
OverlapPanic(w) ==
    /\ opc[w] = "report"
    /\ oreports[w] = {} /\ opanics[w]
    /\ opc' = [opc EXCEPT ![w] = "done"]
    /\ ojob' = [ojob EXCEPT ![w] = None]
    /\ oredetect' = [oredetect EXCEPT ![w] = {}]
    /\ UNCHANGED <<sourceVars, overlapChan, detectChan, resultsChan, closed,
                   fpc, scanVars, wgVars, oreports, opanics, detectVars,
                   notifyVars>>

-----------------------------------------------------------------------------
(* Detector workers *)

DetectRecv(w) ==
    /\ dpc[w] = "recv"
    /\ detectChan # <<>>
    /\ LET m == Head(detectChan) IN
         /\ djob' = [djob EXCEPT ![w] = m]
         /\ dout' = [dout EXCEPT ![w] = Detected[<<m.piece, m.det>>]]
    /\ detectChan' = Tail(detectChan)
    /\ dpc' = [dpc EXCEPT ![w] = "send"]
    /\ UNCHANGED <<sourceVars, overlapChan, resultsChan, closed, fpc, scanVars,
                   wgVars, overlapVars, notifyVars>>

(* processResult: the send to the results channel *)
DetectSendResult(w) ==
    /\ dpc[w] = "send"
    /\ Len(resultsChan) < ResultsCap
    /\ \E r \in dout[w] :
          /\ dout' = [dout EXCEPT ![w] = @ \ {r}]
          /\ resultsChan' = Append(resultsChan, r)
    /\ UNCHANGED <<sourceVars, overlapChan, detectChan, closed, fpc, scanVars,
                   wgVars, overlapVars, dpc, djob, notifyVars>>

(* Mutant: wgDoneFn and an early return before all results are sent. *)
DetectDoneEarly(w) ==
    /\ dpc[w] = "send"
    /\ wgDetect' = [wgDetect EXCEPT ![djob[w].owner] = @ - 1]
    /\ dpc' = [dpc EXCEPT ![w] = "recv"]
    /\ djob' = [djob EXCEPT ![w] = None]
    /\ dout' = [dout EXCEPT ![w] = {}]
    /\ UNCHANGED <<sourceVars, overlapChan, detectChan, resultsChan, closed,
                   fpc, scanVars, wgOverlap, overlapVars, notifyVars>>

(* The last statement of detectChunk: data.wgDoneFn() *)
DetectDone(w) ==
    /\ dpc[w] = "send"
    /\ dout[w] = {}
    /\ wgDetect' = [wgDetect EXCEPT ![djob[w].owner] = @ - 1]
    /\ dpc' = [dpc EXCEPT ![w] = "recv"]
    /\ djob' = [djob EXCEPT ![w] = None]
    /\ UNCHANGED <<sourceVars, overlapChan, detectChan, resultsChan, closed,
                   fpc, scanVars, wgOverlap, overlapVars, dout, notifyVars>>

(* FromData panics: detectChunk's deferred common.Recover swallows it, the *)
(* worker goes on with the next message, and wgDoneFn is not called.       *)
DetectPanic(w) ==
    /\ dpc[w] = "send"
    /\ <<djob[w].piece, djob[w].det>> \in DetectPanics
    /\ dpc' = [dpc EXCEPT ![w] = "recv"]
    /\ djob' = [djob EXCEPT ![w] = None]
    /\ dout' = [dout EXCEPT ![w] = {}]
    /\ UNCHANGED <<sourceVars, overlapChan, detectChan, resultsChan, closed,
                   fpc, scanVars, wgVars, overlapVars, notifyVars>>

(* The range loop ends; wgDetectorWorkers.Done() *)
DetectDrained(w) ==
    /\ dpc[w] = "recv"
    /\ detectChan = <<>> /\ "detect" \in closed
    /\ dpc' = [dpc EXCEPT ![w] = "done"]
    /\ UNCHANGED <<sourceVars, overlapChan, detectChan, resultsChan, closed,
                   fpc, scanVars, wgVars, overlapVars, djob, dout, notifyVars>>
-----------------------------------------------------------------------------
(* Notifier workers *)

Dedupes(r) == DedupeSize > 0 /\ r \notin Reverified

(* Mutant: only the newest entry is looked up. *)
CachedNewest(k) == dedupeCache # <<>> /\ dedupeCache[Len(dedupeCache)] = k

Cached(k) == \E i \in 1..Len(dedupeCache) : dedupeCache[i] = k

(* lru.Cache.ContainsOrAdd of an absent key: the oldest entry makes room.  *)
CacheAdd(k) ==
    IF Len(dedupeCache) < DedupeSize
    THEN Append(dedupeCache, k)
    ELSE Append(Tail(dedupeCache), k)

NotifyRecv(w) ==
    /\ npc[w] = "recv"
    /\ resultsChan # <<>>
    /\ nres' = [nres EXCEPT ![w] = Head(resultsChan)]
    /\ npc' = [npc EXCEPT ![w] = "check"]
    /\ resultsChan' = Tail(resultsChan)
    /\ UNCHANGED <<sourceVars, overlapChan, detectChan, closed, fpc, scanVars,
                   wgVars, overlapVars, detectVars, numFoundResults,
                   dedupeCache, dispatches, failed>>

(* A result the --results filter rejects leaves no trace. *)
NotifyFilter(w) ==
    /\ npc[w] = "check"
    /\ nres[w] \in Filtered
    /\ npc' = [npc EXCEPT ![w] = "recv"]
    /\ nres' = [nres EXCEPT ![w] = None]
    /\ UNCHANGED <<sourceVars, overlapChan, detectChan, resultsChan, closed,
                   fpc, scanVars, wgVars, overlapVars, detectVars,
                   numFoundResults, dedupeCache, dispatches, failed>>

(* Any other result is counted, then looked up and inserted in one step.   *)
NotifyDrop(w) ==
    /\ npc[w] = "check"
    /\ nres[w] \notin Filtered
    /\ Dedupes(nres[w]) /\ Cached(KeyOf[nres[w]])
    /\ numFoundResults' = numFoundResults + 1
    /\ npc' = [npc EXCEPT ![w] = "recv"]
    /\ nres' = [nres EXCEPT ![w] = None]
    /\ UNCHANGED <<sourceVars, overlapChan, detectChan, resultsChan, closed,
                   fpc, scanVars, wgVars, overlapVars, detectVars,
                   dedupeCache, dispatches, failed>>

(* Mutant: only the duplicates are counted. *)
NotifyKeepUncounted(w) ==
    /\ npc[w] = "check"
    /\ nres[w] \notin Filtered
    /\ ~(Dedupes(nres[w]) /\ Cached(KeyOf[nres[w]]))
    /\ dedupeCache' = IF Dedupes(nres[w]) THEN CacheAdd(KeyOf[nres[w]])
                                         ELSE dedupeCache
    /\ npc' = [npc EXCEPT ![w] = "dispatch"]
    /\ UNCHANGED <<sourceVars, overlapChan, detectChan, resultsChan, closed,
                   fpc, scanVars, wgVars, overlapVars, detectVars, nres,
                   numFoundResults, dispatches, failed>>

NotifyKeep(w) ==
    /\ npc[w] = "check"
    /\ nres[w] \notin Filtered
    /\ ~(Dedupes(nres[w]) /\ Cached(KeyOf[nres[w]]))
    /\ numFoundResults' = numFoundResults + 1
    /\ dedupeCache' = IF Dedupes(nres[w]) THEN CacheAdd(KeyOf[nres[w]])
                                         ELSE dedupeCache
    /\ npc' = [npc EXCEPT ![w] = "dispatch"]
    /\ UNCHANGED <<sourceVars, overlapChan, detectChan, resultsChan, closed,
                   fpc, scanVars, wgVars, overlapVars, detectVars, nres,
                   dispatches, failed>>

(* e.dispatcher.Dispatch; its error is only logged. *)
NotifyDispatch(w) ==
    /\ npc[w] = "dispatch"
    /\ \/ /\ dispatches' = [dispatches EXCEPT ![nres[w]] = @ + 1]
          /\ UNCHANGED failed
       \/ /\ DispatchMayFail
          /\ failed' = failed \cup {nres[w]}
          /\ UNCHANGED dispatches
    /\ npc' = [npc EXCEPT ![w] = "recv"]
    /\ nres' = [nres EXCEPT ![w] = None]
    /\ UNCHANGED <<sourceVars, overlapChan, detectChan, resultsChan, closed,
                   fpc, scanVars, wgVars, overlapVars, detectVars,
                   numFoundResults, dedupeCache>>

(* The dispatcher panics: the worker ends (WgNotifier.Done, Recover). *)
NotifyPanic(w) ==
    /\ npc[w] = "dispatch"
    /\ nres[w] \in DispatchPanics
    /\ npc' = [npc EXCEPT ![w] = "done"]
    /\ nres' = [nres EXCEPT ![w] = None]
    /\ UNCHANGED <<sourceVars, overlapChan, detectChan, resultsChan, closed,
                   fpc, scanVars, wgVars, overlapVars, detectVars,
                   numFoundResults, dedupeCache, dispatches, failed>>

NotifyDrained(w) ==
    /\ npc[w] = "recv"
    /\ resultsChan = <<>> /\ "results" \in closed
    /\ npc' = [npc EXCEPT ![w] = "done"]
    /\ UNCHANGED <<sourceVars, overlapChan, detectChan, resultsChan, closed,
                   fpc, scanVars, wgVars, overlapVars, detectVars, nres,
                   numFoundResults, dedupeCache, dispatches, failed>>

-----------------------------------------------------------------------------
(* Finish: wait for a stage, close the channel it feeds, wait for the next. *)

AllDone(pc) == \A w \in DOMAIN pc : pc[w] = "done"

(* sourceManager.Wait(): every job has ended, the chunks channel is closed. *)
FinishSources ==
    /\ fpc = "sources"
    /\ unsent = {} \/ SourceMayStop
    /\ closed' = closed \cup {"chunks"}
    /\ fpc' = "scanners"
    /\ UNCHANGED <<sourceVars, overlapChan, detectChan, resultsChan, scanVars,
                   wgVars, overlapVars, detectVars, notifyVars>>

FinishScanners ==
    /\ fpc = "scanners"
    /\ AllDone(spc)
    /\ closed' = closed \cup {"overlap"}
    /\ fpc' = "overlap"
    /\ UNCHANGED <<sourceVars, overlapChan, detectChan, resultsChan, scanVars,
                   wgVars, overlapVars, detectVars, notifyVars>>

(* Mutant: the detect channel is closed without verificationOverlapWg.Wait(). *)
FinishOverlapEarly ==
    /\ fpc = "overlap"
    /\ closed' = closed \cup {"detect"}
    /\ fpc' = "detect"
    /\ UNCHANGED <<sourceVars, overlapChan, detectChan, resultsChan, scanVars,
                   wgVars, overlapVars, detectVars, notifyVars>>

FinishOverlap ==
    /\ fpc = "overlap"
    /\ AllDone(opc)
    /\ closed' = closed \cup {"detect"}
    /\ fpc' = "detect"
    /\ UNCHANGED <<sourceVars, overlapChan, detectChan, resultsChan, scanVars,
                   wgVars, overlapVars, detectVars, notifyVars>>

FinishDetect ==
    /\ fpc = "detect"
    /\ AllDone(dpc)
    /\ closed' = closed \cup {"results"}
    /\ fpc' = "notify"
    /\ UNCHANGED <<sourceVars, overlapChan, detectChan, resultsChan, scanVars,
                   wgVars, overlapVars, detectVars, notifyVars>>

(* Mutant: Finish returns without WgNotifier.Wait(). *)
FinishNotifyEarly ==
    /\ fpc = "notify"
    /\ fpc' = "returned"
    /\ UNCHANGED <<sourceVars, overlapChan, detectChan, resultsChan, closed,
                   scanVars, wgVars, overlapVars, detectVars, notifyVars>>

FinishNotify ==
    /\ fpc = "notify"
    /\ AllDone(npc)
    /\ fpc' = "returned"
    /\ UNCHANGED <<sourceVars, overlapChan, detectChan, resultsChan, closed,
                   scanVars, wgVars, overlapVars, detectVars, notifyVars>>

(* Finish has returned: the process exits. *)
Returned == fpc = "returned" /\ UNCHANGED vars

-----------------------------------------------------------------------------
ScannerStep(w) ==
    \/ ScannerRecv(w) \/ ScannerSendOverlap(w) \/ ScannerSendDetect(w)
    \/ ScannerNext(w) \/ ScannerDrained(w) \/ ScannerExit(w)

OverlapStep(w) ==
    \/ OverlapRecv(w) \/ OverlapSendResult(w) \/ OverlapDecided(w)
    \/ OverlapSendDetect(w) \/ OverlapChunkDone(w) \/ OverlapDrained(w)
    \/ OverlapExit(w) \/ OverlapPanic(w)

DetectStep(w) ==
    \/ DetectRecv(w) \/ DetectSendResult(w) \/ DetectDone(w)
    \/ DetectDrained(w)

NotifyStep(w) ==
    \/ NotifyRecv(w) \/ NotifyFilter(w) \/ NotifyDrop(w) \/ NotifyKeep(w)
    \/ NotifyDispatch(w) \/ NotifyDrained(w)

FinishStep ==
    \/ FinishSources \/ FinishScanners \/ FinishOverlap \/ FinishDetect
    \/ FinishNotify

Next ==
    \/ \E c \in Chunks : SourceSend(c)
    \/ \E w \in Scanners : ScannerStep(w) \/ ScannerPanic(w)
    \/ \E w \in Overlappers : OverlapStep(w)
    \/ \E w \in DetectWorkers : DetectStep(w) \/ DetectPanic(w)
    \/ \E w \in Notifiers : NotifyStep(w) \/ NotifyPanic(w)
    \/ FinishStep
    \/ Returned

(* The Go scheduler runs every goroutine that can run; nothing obliges a   *)
(* panic to happen.                                                        *)
Fairness ==
    /\ WF_vars(\E c \in Chunks : SourceSend(c))
    /\ \A w \in Scanners : WF_vars(ScannerStep(w))
    /\ \A w \in Overlappers : WF_vars(OverlapStep(w))
    /\ \A w \in DetectWorkers : WF_vars(DetectStep(w))
    /\ \A w \in Notifiers : WF_vars(NotifyStep(w))
    /\ WF_vars(FinishStep)

Spec == Init /\ [][Next]_vars /\ Fairness
-----------------------------------------------------------------------------
(* Type correctness of the pipeline's state. *)
TypeOK ==
    /\ unsent \subseteq Chunks
    /\ chunksChan \in Seq(Chunks)
    /\ overlapChan \in Seq(OverlapMsg)
    /\ detectChan \in Seq(DetectMsg)
    /\ resultsChan \in Seq(Results)
    /\ closed \subseteq Channels
    /\ fpc \in {"sources", "scanners", "overlap", "detect", "notify", "returned"}
    /\ spc \in [Scanners -> {"recv", "send", "wait", "done"}]
    /\ schunk \in [Scanners -> Chunks \cup {None}]
    /\ stodo \in [Scanners -> SUBSET Send]
    /\ wgOverlap \in [Scanners -> Int]
    /\ wgDetect \in [Producers -> Int]
    /\ opc \in [Overlappers -> {"recv", "report", "redetect", "wait", "done"}]
    /\ ojob \in [Overlappers -> OverlapMsg \cup {None}]
    /\ oreports \in [Overlappers -> SUBSET Results]
    /\ oredetect \in [Overlappers -> SUBSET Dets]
    /\ opanics \in [Overlappers -> BOOLEAN]
    /\ dpc \in [DetectWorkers -> {"recv", "send", "done"}]
    /\ djob \in [DetectWorkers -> DetectMsg \cup {None}]
    /\ dout \in [DetectWorkers -> SUBSET Results]
    /\ npc \in [Notifiers -> {"recv", "check", "dispatch", "done"}]
    /\ nres \in [Notifiers -> Results \cup {None}]
    /\ numFoundResults \in Nat
    /\ dedupeCache \in Seq(Keys)
    /\ dispatches \in [Results -> Nat]
    /\ failed \subseteq Results

(* No worker is about to send on a channel Finish has closed, which would  *)
(* crash the process: the order in which Finish waits and closes is enough *)
(* even when workers die of panics.                                        *)
NoSendOnClosed ==
    /\ \A w \in Scanners : stodo[w] # {} =>
            "overlap" \notin closed /\ "detect" \notin closed
    /\ \A w \in Overlappers :
            /\ oreports[w] # {} => "results" \notin closed
            /\ oredetect[w] # {} => "detect" \notin closed
    /\ \A w \in DetectWorkers : dout[w] # {} => "results" \notin closed

OverlapInFlight(w) ==
    Cardinality({i \in 1..Len(overlapChan) : overlapChan[i].owner = w})
      + Cardinality({o \in Overlappers : ojob[o] # None /\ ojob[o].owner = w})

DetectInFlight(w) ==
    Cardinality({i \in 1..Len(detectChan) : detectChan[i].owner = w})
      + Cardinality({d \in DetectWorkers : djob[d] # None /\ djob[d].owner = w})

(* A WaitGroup is never below the number of messages of its worker that    *)
(* are still queued or being processed, so that no Wait returns early and  *)
(* no Done makes the counter negative (which would be a panic).            *)
WaitGroupsCover ==
    /\ \A w \in Scanners : wgOverlap[w] >= OverlapInFlight(w)
    /\ \A w \in Producers : wgDetect[w] >= DetectInFlight(w)

(* When no detector panics a WaitGroup is exactly that number.             *)
WaitGroupsExact ==
    /\ \A w \in Scanners : wgOverlap[w] = OverlapInFlight(w)
    /\ \A w \in Producers : wgDetect[w] = DetectInFlight(w)

(* When Finish returns nothing is left in a channel or in a worker's hands.*)
NothingLeftBehind ==
    fpc = "returned" =>
        /\ chunksChan = <<>> /\ overlapChan = <<>>
        /\ detectChan = <<>> /\ resultsChan = <<>>
        /\ \A w \in Scanners : stodo[w] = {}
        /\ \A w \in Overlappers : oreports[w] = {} /\ oredetect[w] = {}
        /\ \A w \in DetectWorkers : dout[w] = {}
        /\ \A w \in Notifiers : nres[w] = None

Dispatched == {r \in Results : dispatches[r] > 0}

(* While the cache has room for every key, a finding at one place is       *)
(* dispatched once at most, however many decoders, detectors' passes and   *)
(* notifier workers produced it (engine_test.go, "dispatched exactly once").*)
DispatchedOncePerKey ==
    \A q, r \in Dispatched \ Reverified :
        /\ dispatches[r] = 1
        /\ KeyOf[q] = KeyOf[r] => q = r

(* HasFoundResults decides the exit code: at the end it is true exactly    *)
(* when something was handed to the dispatcher.                            *)
FoundMeansReported ==
    fpc = "returned" => (numFoundResults > 0 <=> Dispatched \cup failed # {})

(* Finish returns (Finish "waits for running sources to complete and       *)
(* workers to finish", and Recover "handles panics").                      *)
FinishReturns == <>(fpc = "returned")

-----------------------------------------------------------------------------
(* The pipeline implements ScanPromise. *)
ShownKeys(S) == {KeyOf[r] : r \in S \ Filtered}

DetectedBy(p, D) == UNION {Detected[<<p, d>>] : d \in D}

PieceRuns(p) ==
    IF Overlaps(p)
    THEN {ShownKeys(out.reports \cup DetectedBy(p, out.redetect)) :
              out \in OverlapOutcomes[p]}
    ELSE {ShownKeys(DetectedBy(p, Matching[p]))}

MustReport ==
    [c \in Chunks |->
        UNION {{k \in Keys : \A run \in PieceRuns(p) : k \in run} :
                   p \in PiecesOf[c]}]

MayReport ==
    [c \in Chunks |-> UNION {UNION PieceRuns(p) : p \in PiecesOf[c]}]

Promise == INSTANCE ScanPromise WITH
    Must <- MustReport,
    May <- MayReport,
    accepted <- Chunks \ unsent,
    reported <- {KeyOf[r] : r \in Dispatched \cup failed},
    returned <- (fpc = "returned")

(* The detailed pipeline, with its fairness, does what ScanPromise says:   *)
(* every key owed for an accepted chunk is handed to the dispatcher before *)
(* Finish returns, no other key ever is, nothing follows the return, and   *)
(* the scan returns.                                                       *)
ImplementsPromise == Promise!Spec
=============================================================================
