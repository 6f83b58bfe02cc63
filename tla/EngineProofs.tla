---------------------------- MODULE EngineProofs ----------------------------
(***************************************************************************)
(* Proofs about Engine, for every number of workers, every capacity and    *)
(* every behaviour of the decoders and detectors.                          *)
(***************************************************************************)
EXTENDS Engine, FiniteSetTheorems, TLAPS

(***************************************************************************)
(* The inductive invariant has three parts besides the types.              *)
(***************************************************************************)

(* A worker holds a message exactly in the middle of handling it, and      *)
(* nothing remains to be sent once it is done with it.                     *)
Hands ==
    /\ \A w \in Scanners : spc[w] # "send" => stodo[w] = {}
    /\ \A w \in Overlappers :
          /\ opc[w] \in {"report", "redetect"} => ojob[w] \in OverlapMsg
          /\ opc[w] \in {"recv", "wait", "done"} => oredetect[w] = {}
          /\ opc[w] # "report" => oreports[w] = {}
    /\ \A w \in DetectWorkers :
          IF dpc[w] = "send" THEN djob[w] \in DetectMsg ELSE dout[w] = {}
    /\ \A w \in Notifiers :
          IF npc[w] \in {"check", "dispatch"} THEN nres[w] \in Results
                                             ELSE nres[w] = None

(* Finish closes a channel only after every worker of the stages that send *)
(* on it has ended, and the first before it waits for any worker.          *)
Stages ==
    /\ fpc \notin {"sources", "scanners"} => AllDone(spc)
    /\ fpc \notin {"sources", "scanners", "overlap"} => AllDone(opc)
    /\ fpc \in {"notify", "returned"} => AllDone(dpc)
    /\ fpc = "returned" => AllDone(npc)
    /\ "chunks" \notin closed => fpc = "sources"
    /\ "overlap" \in closed => fpc \notin {"sources", "scanners"}
    /\ "detect" \in closed => fpc \notin {"sources", "scanners", "overlap"}
    /\ "results" \in closed => fpc \in {"notify", "returned"}

(* A chunk is routed to well-formed sends. *)
LEMMA RouteType ==
    ASSUME NEW c \in Chunks
    PROVE  Route(c) \subseteq Send
BY DataAssumption DEF Route, Send

LEMMA InitType == Init => TypeOK
BY DEF Init, TypeOK, Channels, Producers

LEMMA TypeStep ==
    ASSUME TypeOK, Hands, [Next]_vars
    PROVE  TypeOK'
<1> USE DEF TypeOK, sourceVars, scanVars, wgVars, overlapVars, detectVars,
            notifyVars
<1>1. ASSUME NEW c \in Chunks, SourceSend(c) PROVE TypeOK'
  BY <1>1 DEF SourceSend
<1>2. ASSUME NEW w \in Scanners, ScannerRecv(w) PROVE TypeOK'
  <2>1. Head(chunksChan) \in Chunks /\ Tail(chunksChan) \in Seq(Chunks)
    BY <1>2 DEF ScannerRecv
  <2> QED BY <1>2, <2>1, RouteType DEF ScannerRecv
<1>3. ASSUME NEW w \in Scanners, ScannerSendOverlap(w) PROVE TypeOK'
  <2>1. PICK s \in stodo[w] :
            /\ stodo' = [stodo EXCEPT ![w] = @ \ {s}]
            /\ overlapChan' = Append(overlapChan, [piece |-> s.piece, owner |-> w])
            /\ s.kind = "overlap"
    BY <1>3 DEF ScannerSendOverlap
  <2>2. [piece |-> s.piece, owner |-> w] \in OverlapMsg
    BY <2>1 DEF Send, OverlapMsg
  <2>3. /\ stodo' \in [Scanners -> SUBSET Send]
        /\ overlapChan' \in Seq(OverlapMsg)
    <3> DEFINE m == [piece |-> s.piece, owner |-> w]
    <3>1. m \in OverlapMsg /\ overlapChan' = Append(overlapChan, m)
      BY <2>1, <2>2
    <3> HIDE DEF m
    <3>2. overlapChan \in Seq(OverlapMsg)
      OBVIOUS
    <3>3. overlapChan' \in Seq(OverlapMsg)
      BY <3>1, <3>2
    <3>4. stodo' \in [Scanners -> SUBSET Send]
      BY <2>1
    <3> QED BY <3>3, <3>4
  <2> QED BY <1>3, <2>3 DEF ScannerSendOverlap
<1>4. ASSUME NEW w \in Scanners, ScannerSendDetect(w) PROVE TypeOK'
  <2>1. PICK s \in stodo[w] :
            /\ stodo' = [stodo EXCEPT ![w] = @ \ {s}]
            /\ detectChan' = Append(detectChan,
                                [piece |-> s.piece, det |-> s.det, owner |-> w])
            /\ s.kind = "detect"
    BY <1>4 DEF ScannerSendDetect
  <2>2. [piece |-> s.piece, det |-> s.det, owner |-> w] \in DetectMsg
    <3>1. s \in Send /\ s.kind = "detect"
      BY <2>1
    <3>2. s.piece \in Pieces /\ s.det \in Dets
      BY <3>1 DEF Send
    <3> QED BY <3>2 DEF DetectMsg, Producers
  <2>3. /\ stodo' \in [Scanners -> SUBSET Send]
        /\ detectChan' \in Seq(DetectMsg)
    <3> DEFINE m == [piece |-> s.piece, det |-> s.det, owner |-> w]
    <3>1. m \in DetectMsg /\ detectChan' = Append(detectChan, m)
      BY <2>1, <2>2
    <3> HIDE DEF m
    <3>2. detectChan \in Seq(DetectMsg)
      OBVIOUS
    <3>3. detectChan' \in Seq(DetectMsg)
      BY <3>1, <3>2
    <3>4. stodo' \in [Scanners -> SUBSET Send]
      BY <2>1
    <3> QED BY <3>3, <3>4
  <2> QED BY <1>4, <2>3 DEF ScannerSendDetect, Producers
<1>5. ASSUME NEW w \in Scanners, ScannerNext(w) PROVE TypeOK'
  BY <1>5 DEF ScannerNext
<1>6. ASSUME NEW w \in Scanners, ScannerDrained(w) PROVE TypeOK'
  BY <1>6 DEF ScannerDrained
<1>7. ASSUME NEW w \in Scanners, ScannerExit(w) PROVE TypeOK'
  BY <1>7 DEF ScannerExit
<1>8. ASSUME NEW w \in Scanners, ScannerPanic(w) PROVE TypeOK'
  BY <1>8 DEF ScannerPanic
<1>9. ASSUME NEW w \in Overlappers, OverlapRecv(w) PROVE TypeOK'
  <2> DEFINE m == Head(overlapChan)
  <2>1. m \in OverlapMsg /\ Tail(overlapChan) \in Seq(OverlapMsg)
    BY <1>9 DEF OverlapRecv
  <2>2. OverlapOutcomes[m.piece] \subseteq OverlapOutcome
    BY <2>1, DataAssumption DEF OverlapMsg
  <2>3. PICK out \in OverlapOutcomes[m.piece] :
            /\ oreports' = [oreports EXCEPT ![w] = out.reports]
            /\ oredetect' = [oredetect EXCEPT ![w] = out.redetect]
            /\ opanics' = [opanics EXCEPT ![w] = out.panics]
    BY <1>9 DEF OverlapRecv
  <2>4. out.reports \subseteq Results /\ out.redetect \subseteq Dets
          /\ out.panics \in BOOLEAN
    BY <2>2, <2>3 DEF OverlapOutcome
  <2>5. /\ oreports' \in [Overlappers -> SUBSET Results]
        /\ oredetect' \in [Overlappers -> SUBSET Dets]
        /\ opanics' \in [Overlappers -> BOOLEAN]
    BY <2>3, <2>4
  <2>6. /\ ojob' \in [Overlappers -> OverlapMsg \cup {None}]
        /\ overlapChan' \in Seq(OverlapMsg)
        /\ opc' = [opc EXCEPT ![w] = "report"]
    BY <1>9, <2>1 DEF OverlapRecv
  <2> QED BY <1>9, <2>5, <2>6 DEF OverlapRecv
<1>10. ASSUME NEW w \in Overlappers, OverlapSendResult(w) PROVE TypeOK'
  BY <1>10 DEF OverlapSendResult
<1>11. ASSUME NEW w \in Overlappers, OverlapDecided(w) PROVE TypeOK'
  BY <1>11 DEF OverlapDecided
<1>12. ASSUME NEW w \in Overlappers, OverlapSendDetect(w) PROVE TypeOK'
  <2>1. ojob[w] \in OverlapMsg
    BY <1>12 DEF OverlapSendDetect, Hands
  <2>2. \A d \in oredetect[w] :
            [piece |-> ojob[w].piece, det |-> d, owner |-> w] \in DetectMsg
    BY <2>1 DEF OverlapMsg, DetectMsg, Producers
  <2>3. PICK d \in oredetect[w] :
            /\ oredetect' = [oredetect EXCEPT ![w] = @ \ {d}]
            /\ detectChan' = Append(detectChan,
                      [piece |-> ojob[w].piece, det |-> d, owner |-> w])
    BY <1>12 DEF OverlapSendDetect
  <2>4. detectChan' \in Seq(DetectMsg)
    BY <2>2, <2>3
  <2>5. oredetect' \in [Overlappers -> SUBSET Dets]
    BY <2>3
  <2>6. wgDetect' \in [Producers -> Int]
    BY <1>12 DEF OverlapSendDetect, Producers
  <2> QED BY <1>12, <2>4, <2>5, <2>6 DEF OverlapSendDetect
<1>13. ASSUME NEW w \in Overlappers, OverlapChunkDone(w) PROVE TypeOK'
  <2>1. ojob[w] \in OverlapMsg /\ ojob[w].owner \in Scanners
    BY <1>13 DEF OverlapChunkDone, Hands, OverlapMsg
  <2>2. wgOverlap' \in [Scanners -> Int]
    BY <1>13, <2>1 DEF OverlapChunkDone
  <2> QED BY <1>13, <2>2 DEF OverlapChunkDone
<1>14. ASSUME NEW w \in Overlappers, OverlapDrained(w) PROVE TypeOK'
  BY <1>14 DEF OverlapDrained
<1>15. ASSUME NEW w \in Overlappers, OverlapExit(w) PROVE TypeOK'
  BY <1>15 DEF OverlapExit
<1>16. ASSUME NEW w \in Overlappers, OverlapPanic(w) PROVE TypeOK'
  BY <1>16 DEF OverlapPanic
<1>17. ASSUME NEW w \in DetectWorkers, DetectRecv(w) PROVE TypeOK'
  <2> DEFINE m == Head(detectChan)
  <2>1. m \in DetectMsg /\ Tail(detectChan) \in Seq(DetectMsg)
    BY <1>17 DEF DetectRecv
  <2>2. Detected[<<m.piece, m.det>>] \subseteq Results
    BY <2>1, DataAssumption DEF DetectMsg
  <2>3. /\ djob' \in [DetectWorkers -> DetectMsg \cup {None}]
        /\ dout' \in [DetectWorkers -> SUBSET Results]
        /\ detectChan' \in Seq(DetectMsg)
        /\ dpc' = [dpc EXCEPT ![w] = "send"]
    BY <1>17, <2>1, <2>2 DEF DetectRecv
  <2> QED BY <1>17, <2>3 DEF DetectRecv
<1>18. ASSUME NEW w \in DetectWorkers, DetectSendResult(w) PROVE TypeOK'
  BY <1>18 DEF DetectSendResult
<1>19. ASSUME NEW w \in DetectWorkers, DetectDone(w) PROVE TypeOK'
  <2>1. djob[w] \in DetectMsg /\ djob[w].owner \in Producers
    BY <1>19 DEF DetectDone, Hands, DetectMsg
  <2>2. wgDetect' \in [Producers -> Int]
    BY <1>19, <2>1 DEF DetectDone
  <2> QED BY <1>19, <2>2 DEF DetectDone
<1>20. ASSUME NEW w \in DetectWorkers, DetectPanic(w) PROVE TypeOK'
  BY <1>20 DEF DetectPanic
<1>21. ASSUME NEW w \in DetectWorkers, DetectDrained(w) PROVE TypeOK'
  BY <1>21 DEF DetectDrained
<1>22. ASSUME NEW w \in Notifiers, NotifyRecv(w) PROVE TypeOK'
  <2>1. Head(resultsChan) \in Results /\ Tail(resultsChan) \in Seq(Results)
    BY <1>22 DEF NotifyRecv
  <2> QED BY <1>22, <2>1 DEF NotifyRecv
<1>23. ASSUME NEW w \in Notifiers, NotifyFilter(w) PROVE TypeOK'
  BY <1>23 DEF NotifyFilter
<1>24. ASSUME NEW w \in Notifiers, NotifyDrop(w) PROVE TypeOK'
  BY <1>24 DEF NotifyDrop
<1>25. ASSUME NEW w \in Notifiers, NotifyKeep(w) PROVE TypeOK'
  <2>1. KeyOf[nres[w]] \in Keys
    BY <1>25, DataAssumption DEF NotifyKeep, Hands
  <2>2. dedupeCache' \in Seq(Keys)
    <3>1. CASE Dedupes(nres[w]) /\ Len(dedupeCache) < DedupeSize
      BY <1>25, <2>1, <3>1 DEF NotifyKeep, CacheAdd
    <3>2. CASE Dedupes(nres[w]) /\ ~(Len(dedupeCache) < DedupeSize)
      <4>1. dedupeCache # <<>>
        BY <3>2, CapacityAssumption DEF Dedupes
      <4> QED BY <1>25, <2>1, <3>2, <4>1 DEF NotifyKeep, CacheAdd
    <3>3. CASE ~Dedupes(nres[w])
      BY <1>25, <3>3 DEF NotifyKeep
    <3> QED BY <3>1, <3>2, <3>3
  <2> QED BY <1>25, <2>2 DEF NotifyKeep
<1>26. ASSUME NEW w \in Notifiers, NotifyDispatch(w) PROVE TypeOK'
  <2>1. nres[w] \in Results
    BY <1>26 DEF NotifyDispatch, Hands
  <2>2. dispatches' \in [Results -> Nat] /\ failed' \subseteq Results
    <3>1. CASE /\ dispatches' = [dispatches EXCEPT ![nres[w]] = @ + 1]
               /\ UNCHANGED failed
      BY <2>1, <3>1
    <3>2. CASE failed' = failed \cup {nres[w]} /\ UNCHANGED dispatches
      BY <2>1, <3>2
    <3> QED BY <1>26, <3>1, <3>2 DEF NotifyDispatch
  <2> QED BY <1>26, <2>2 DEF NotifyDispatch
<1>27. ASSUME NEW w \in Notifiers, NotifyPanic(w) PROVE TypeOK'
  BY <1>27 DEF NotifyPanic
<1>28. ASSUME NEW w \in Notifiers, NotifyDrained(w) PROVE TypeOK'
  BY <1>28 DEF NotifyDrained
<1>29. ASSUME FinishStep PROVE TypeOK'
  BY <1>29 DEF FinishStep, FinishSources, FinishScanners, FinishOverlap,
               FinishDetect, FinishNotify, Channels
<1>30. ASSUME UNCHANGED vars PROVE TypeOK'
  BY <1>30 DEF vars
<1>31. ASSUME NEW w \in Scanners, ScannerStep(w) \/ ScannerPanic(w) PROVE TypeOK'
  BY <1>31, <1>2, <1>3, <1>4, <1>5, <1>6, <1>7, <1>8 DEF ScannerStep
<1>32. ASSUME NEW w \in Overlappers, OverlapStep(w) PROVE TypeOK'
  BY <1>32, <1>9, <1>10, <1>11, <1>12, <1>13, <1>14, <1>15, <1>16 DEF OverlapStep
<1>33. ASSUME NEW w \in DetectWorkers, DetectStep(w) \/ DetectPanic(w)
       PROVE TypeOK'
  BY <1>33, <1>17, <1>18, <1>19, <1>20, <1>21 DEF DetectStep
<1>34. ASSUME NEW w \in Notifiers, NotifyStep(w) \/ NotifyPanic(w) PROVE TypeOK'
  BY <1>34, <1>22, <1>23, <1>24, <1>25, <1>26, <1>27, <1>28 DEF NotifyStep
<1>35. ASSUME Returned PROVE TypeOK'
  BY <1>35, <1>30 DEF Returned
<1> HIDE DEF TypeOK
<1> QED
  BY <1>1, <1>29, <1>30, <1>31, <1>32, <1>33, <1>34, <1>35 DEF Next

LEMMA HandsStep ==
    ASSUME TypeOK, Hands, [Next]_vars
    PROVE  Hands'
<1> USE DEF Hands, sourceVars, scanVars, wgVars, overlapVars, detectVars,
            notifyVars
<1>1. ASSUME NEW c \in Chunks, SourceSend(c) PROVE Hands'
  BY <1>1 DEF SourceSend
<1>2. ASSUME NEW w \in Scanners, ScannerStep(w) \/ ScannerPanic(w) PROVE Hands'
  <2>1. DOMAIN spc = Scanners /\ DOMAIN stodo = Scanners
    BY DEF TypeOK
  <2>2. UNCHANGED <<overlapVars, detectVars, notifyVars>>
    BY <1>2 DEF ScannerStep, ScannerRecv, ScannerSendOverlap, ScannerSendDetect,
       ScannerNext, ScannerDrained, ScannerExit, ScannerPanic
  <2>3. \A v \in Scanners : spc'[v] # "send" => stodo'[v] = {}
    <3>1. CASE ScannerSendOverlap(w) \/ ScannerSendDetect(w)
      <4>1. /\ spc' = spc /\ spc[w] = "send"
            /\ \E s : stodo' = [stodo EXCEPT ![w] = @ \ {s}]
        BY <3>1 DEF ScannerSendOverlap, ScannerSendDetect
      <4> QED BY <2>1, <4>1
    <3>2. CASE ScannerRecv(w)
      BY <2>1, <3>2 DEF ScannerRecv
    <3>3. CASE ScannerNext(w) \/ ScannerDrained(w) \/ ScannerExit(w) \/ ScannerPanic(w)
      BY <2>1, <3>3 DEF ScannerNext, ScannerDrained, ScannerExit, ScannerPanic
    <3> QED BY <1>2, <3>1, <3>2, <3>3 DEF ScannerStep
  <2> QED BY <2>2, <2>3
<1>3. ASSUME NEW w \in Overlappers, OverlapStep(w) PROVE Hands'
  <2>1. CASE OverlapRecv(w)
    <3>1. Head(overlapChan) \in OverlapMsg
      BY <2>1 DEF OverlapRecv, TypeOK
    <3> QED BY <2>1, <3>1 DEF OverlapRecv, TypeOK
  <2>2. CASE OverlapSendResult(w)
    BY <2>2 DEF OverlapSendResult, TypeOK
  <2>3. CASE OverlapDecided(w)
    BY <2>3 DEF OverlapDecided, TypeOK
  <2>4. CASE OverlapSendDetect(w)
    BY <2>4 DEF OverlapSendDetect, TypeOK
  <2>5. CASE OverlapChunkDone(w)
    BY <2>5 DEF OverlapChunkDone, TypeOK
  <2>6. CASE OverlapDrained(w)
    BY <2>6 DEF OverlapDrained, TypeOK
  <2>7. CASE OverlapExit(w)
    BY <2>7 DEF OverlapExit, TypeOK
  <2>8. CASE OverlapPanic(w)
    BY <2>8 DEF OverlapPanic, TypeOK
  <2> QED BY <1>3, <2>1, <2>2, <2>3, <2>4, <2>5, <2>6, <2>7, <2>8 DEF OverlapStep
<1>4. ASSUME NEW w \in DetectWorkers, DetectStep(w) \/ DetectPanic(w) PROVE Hands'
  <2>1. CASE DetectRecv(w)
    <3>1. Head(detectChan) \in DetectMsg
      BY <2>1 DEF DetectRecv, TypeOK
    <3> QED BY <2>1, <3>1 DEF DetectRecv, TypeOK
  <2>2. CASE DetectSendResult(w)
    BY <2>2 DEF DetectSendResult, TypeOK
  <2>3. CASE DetectDone(w)
    BY <2>3 DEF DetectDone, TypeOK
  <2>4. CASE DetectDrained(w)
    BY <2>4 DEF DetectDrained, TypeOK
  <2>5. CASE DetectPanic(w)
    BY <2>5 DEF DetectPanic, TypeOK
  <2> QED BY <1>4, <2>1, <2>2, <2>3, <2>4, <2>5 DEF DetectStep
<1>5. ASSUME NEW w \in Notifiers, NotifyStep(w) \/ NotifyPanic(w) PROVE Hands'
  <2>1. CASE NotifyRecv(w)
    <3>1. Head(resultsChan) \in Results
      BY <2>1 DEF NotifyRecv, TypeOK
    <3> QED BY <2>1, <3>1 DEF NotifyRecv, TypeOK
  <2>2. CASE NotifyFilter(w)
    BY <2>2 DEF NotifyFilter, TypeOK
  <2>3. CASE NotifyDrop(w)
    BY <2>3 DEF NotifyDrop, TypeOK
  <2>4. CASE NotifyKeep(w)
    BY <2>4 DEF NotifyKeep, TypeOK
  <2>5. CASE NotifyDispatch(w)
    BY <2>5 DEF NotifyDispatch, TypeOK
  <2>6. CASE NotifyPanic(w)
    BY <2>6 DEF NotifyPanic, TypeOK
  <2>7. CASE NotifyDrained(w)
    BY <2>7 DEF NotifyDrained, TypeOK
  <2> QED BY <1>5, <2>1, <2>2, <2>3, <2>4, <2>5, <2>6, <2>7 DEF NotifyStep
<1>6. ASSUME FinishStep PROVE Hands'
  BY <1>6 DEF FinishStep, FinishSources, FinishScanners, FinishOverlap,
              FinishDetect, FinishNotify
<1>7. ASSUME UNCHANGED vars PROVE Hands'
  BY <1>7 DEF vars
<1> HIDE DEF Hands
<1> QED
  BY <1>1, <1>2, <1>3, <1>4, <1>5, <1>6, <1>7 DEF Next, Returned

LEMMA StagesStep ==
    ASSUME TypeOK, Stages, [Next]_vars
    PROVE  Stages'
<1> USE DEF Stages, AllDone, sourceVars, scanVars, wgVars, overlapVars,
            detectVars, notifyVars
<1>1. ASSUME NEW c \in Chunks, SourceSend(c) PROVE Stages'
  BY <1>1 DEF SourceSend
<1>2. ASSUME NEW w \in Scanners, ScannerStep(w) \/ ScannerPanic(w) PROVE Stages'
  BY <1>2 DEF TypeOK, ScannerStep, ScannerRecv, ScannerSendOverlap,
     ScannerSendDetect, ScannerNext, ScannerDrained, ScannerExit, ScannerPanic
<1>3. ASSUME NEW w \in Overlappers, OverlapStep(w) PROVE Stages'
  BY <1>3 DEF TypeOK, OverlapStep, OverlapRecv, OverlapSendResult,
     OverlapDecided, OverlapSendDetect, OverlapChunkDone, OverlapDrained,
     OverlapExit, OverlapPanic
<1>4. ASSUME NEW w \in DetectWorkers, DetectStep(w) \/ DetectPanic(w) PROVE Stages'
  BY <1>4 DEF TypeOK, DetectStep, DetectRecv, DetectSendResult, DetectDone,
     DetectDrained, DetectPanic
<1>5. ASSUME NEW w \in Notifiers, NotifyStep(w) \/ NotifyPanic(w) PROVE Stages'
  BY <1>5 DEF TypeOK, NotifyStep, NotifyRecv, NotifyFilter, NotifyDrop,
     NotifyKeep, NotifyDispatch, NotifyPanic, NotifyDrained
<1>6. ASSUME FinishStep PROVE Stages'
  BY <1>6 DEF TypeOK, FinishStep, FinishSources, FinishScanners, FinishOverlap,
              FinishDetect, FinishNotify
<1>7. ASSUME UNCHANGED vars PROVE Stages'
  BY <1>7 DEF vars
<1> HIDE DEF Stages
<1> QED
  BY <1>1, <1>2, <1>3, <1>4, <1>5, <1>6, <1>7 DEF Next, Returned

(* The type invariant holds in every reachable state, panics included. *)
THEOREM TypeCorrect == Spec => []TypeOK
<1>1. Init => TypeOK /\ Hands
  BY InitType DEF Init, Hands
<1>2. TypeOK /\ Hands /\ [Next]_vars => TypeOK' /\ Hands'
  BY TypeStep, HandsStep
<1> QED BY <1>1, <1>2, PTL DEF Spec

(* No worker ever sends on a closed channel: a worker with something to    *)
(* send has not ended, and Finish closes a channel only after the workers  *)
(* that send on it have ended, by whatever way.                            *)
THEOREM ClosedChannelsAreQuiet == Spec => []NoSendOnClosed
<1> DEFINE IInv == TypeOK /\ Hands /\ Stages
<1>1. Init => IInv
  BY InitType DEF Init, Hands, Stages
<1>2. IInv /\ [Next]_vars => IInv'
  BY TypeStep, HandsStep, StagesStep
<1>3. IInv => NoSendOnClosed
  <2> SUFFICES ASSUME IInv PROVE NoSendOnClosed
    OBVIOUS
  <2>1. \A w \in Scanners : stodo[w] # {} => spc[w] # "done"
    BY DEF Hands
  <2>2. \A w \in Overlappers :
            oreports[w] # {} \/ oredetect[w] # {} => opc[w] # "done"
    BY DEF Hands
  <2>3. \A w \in DetectWorkers : dout[w] # {} => dpc[w] # "done"
    BY DEF Hands
  <2> QED BY <2>1, <2>2, <2>3 DEF NoSendOnClosed, Stages, AllDone, TypeOK
<1> QED BY <1>1, <1>2, <1>3, PTL DEF Spec

-----------------------------------------------------------------------------
(* No panic ends a scanner, overlap or notifier worker.  (Detectors may    *)
(* still panic in detectChunk, which recovers and keeps its worker.)       *)
NoWorkerDies ==
    /\ ScanPanics = {} /\ DispatchPanics = {}
    /\ \A p \in Pieces : \A out \in OverlapOutcomes[p] : out.panics = FALSE

(* A worker leaves its range loop only when its channel is closed and      *)
(* empty, and then the channel stays so.                                   *)
Drained ==
    /\ \A w \in Scanners :
          spc[w] \in {"wait", "done"} => chunksChan = <<>> /\ "chunks" \in closed
    /\ \A w \in Overlappers :
          /\ opanics[w] = FALSE
          /\ opc[w] \in {"wait", "done"} => overlapChan = <<>> /\ "overlap" \in closed
    /\ \A w \in DetectWorkers :
          dpc[w] = "done" => detectChan = <<>> /\ "detect" \in closed
    /\ \A w \in Notifiers :
          npc[w] = "done" => resultsChan = <<>> /\ "results" \in closed

LEMMA DrainedStep ==
    ASSUME NoWorkerDies, TypeOK, Hands, Stages, Drained, [Next]_vars
    PROVE  Drained'
<1> USE DEF Drained, sourceVars, scanVars, wgVars, overlapVars, detectVars,
            notifyVars
<1>a. /\ \A w \in Scanners : spc[w] # "done" =>
              "overlap" \notin closed /\ "detect" \notin closed
      /\ \A w \in Overlappers : opc[w] # "done" =>
              "detect" \notin closed /\ "results" \notin closed
      /\ \A w \in DetectWorkers : dpc[w] # "done" => "results" \notin closed
  BY DEF Stages, AllDone, TypeOK
<1>1. ASSUME NEW c \in Chunks, SourceSend(c) PROVE Drained'
  BY <1>1 DEF SourceSend
<1>2. ASSUME NEW w \in Scanners, ScannerStep(w) \/ ScannerPanic(w) PROVE Drained'
  <2>1. spc[w] # "done"
    BY <1>2 DEF ScannerStep, ScannerRecv, ScannerSendOverlap,
       ScannerSendDetect, ScannerNext, ScannerDrained, ScannerExit, ScannerPanic
  <2>2. ~ScannerPanic(w)
    BY DEF ScannerPanic, NoWorkerDies
  <2>3. CASE ScannerRecv(w)
    BY <1>a, <2>1, <2>3 DEF TypeOK, ScannerRecv
  <2>4. CASE ScannerSendOverlap(w)
    BY <1>a, <2>1, <2>4 DEF TypeOK, ScannerSendOverlap
  <2>5. CASE ScannerSendDetect(w)
    BY <1>a, <2>1, <2>5 DEF TypeOK, ScannerSendDetect
  <2>6. CASE ScannerNext(w) \/ ScannerDrained(w)
    BY <1>a, <2>1, <2>6 DEF TypeOK, ScannerNext, ScannerDrained
  <2>7. CASE ScannerExit(w)
    BY <1>a, <2>1, <2>7 DEF TypeOK, ScannerExit
  <2> QED BY <1>2, <2>2, <2>3, <2>4, <2>5, <2>6, <2>7 DEF ScannerStep
<1>3. ASSUME NEW w \in Overlappers, OverlapStep(w) PROVE Drained'
  <2>1. CASE OverlapRecv(w)
    <3>0. overlapChan \in Seq(OverlapMsg) /\ overlapChan # <<>>
      BY <2>1 DEF OverlapRecv, TypeOK
    <3>1. Head(overlapChan).piece \in Pieces /\ overlapChan # <<>>
      <4>1. Head(overlapChan) \in OverlapMsg
        BY <3>0
      <4> QED BY <3>0, <4>1 DEF OverlapMsg
    <3>2. \A o \in Overlappers : opc[o] \notin {"wait", "done"}
      BY <3>1
    <3>3. opanics' = [opanics EXCEPT ![w] = FALSE]
      <4>1. PICK out \in OverlapOutcomes[Head(overlapChan).piece] :
                opanics' = [opanics EXCEPT ![w] = out.panics]
        BY <2>1 DEF OverlapRecv
      <4>2. out.panics = FALSE
        BY <3>1, <4>1 DEF NoWorkerDies
      <4> QED BY <4>1, <4>2
    <3> QED BY <2>1, <3>2, <3>3 DEF OverlapRecv, TypeOK
  <2>2. CASE OverlapSendResult(w) \/ OverlapSendDetect(w)
    <3>1. opc[w] # "done"
      BY <2>2 DEF OverlapSendResult, OverlapSendDetect
    <3>2. CASE OverlapSendResult(w)
      BY <1>a, <3>1, <3>2 DEF OverlapSendResult, TypeOK
    <3>3. CASE OverlapSendDetect(w)
      BY <1>a, <3>1, <3>3 DEF OverlapSendDetect, TypeOK
    <3> QED BY <2>2, <3>2, <3>3
  <2>3. CASE OverlapDecided(w) \/ OverlapChunkDone(w)
    BY <2>3 DEF OverlapDecided, OverlapChunkDone, TypeOK
  <2>4. CASE OverlapDrained(w) \/ OverlapExit(w) \/ OverlapPanic(w)
    BY <2>4 DEF OverlapDrained, OverlapExit, OverlapPanic, TypeOK
  <2> QED BY <1>3, <2>1, <2>2, <2>3, <2>4 DEF OverlapStep
<1>4. ASSUME NEW w \in DetectWorkers, DetectStep(w) \/ DetectPanic(w) PROVE Drained'
  <2>1. CASE DetectSendResult(w)
    BY <2>1, <1>a DEF DetectSendResult, TypeOK
  <2>2. CASE DetectRecv(w) \/ DetectDone(w) \/ DetectDrained(w) \/ DetectPanic(w)
    BY <2>2 DEF TypeOK, DetectRecv, DetectDone, DetectDrained, DetectPanic
  <2> QED BY <1>4, <2>1, <2>2 DEF DetectStep
<1>5. ASSUME NEW w \in Notifiers, NotifyStep(w) \/ NotifyPanic(w) PROVE Drained'
  <2>1. ~NotifyPanic(w)
    BY DEF NotifyPanic, NoWorkerDies
  <2> QED BY <1>5, <2>1 DEF TypeOK, NotifyStep, NotifyRecv, NotifyFilter,
             NotifyDrop, NotifyKeep, NotifyDispatch, NotifyDrained
<1>6. ASSUME FinishStep PROVE Drained'
  BY <1>6 DEF FinishStep, FinishSources, FinishScanners, FinishOverlap,
              FinishDetect, FinishNotify
<1>7. ASSUME UNCHANGED vars PROVE Drained'
  BY <1>7 DEF vars
<1> HIDE DEF Drained
<1> QED
  BY <1>1, <1>2, <1>3, <1>4, <1>5, <1>6, <1>7 DEF Next, Returned

(* When Finish returns, every message that entered a channel was taken out *)
(* of it and handled to the end, as long as no panic ended a worker: each  *)
(* stage waits until its predecessor can send no more, and every stage has *)
(* at least one worker to drain its channel.                               *)
THEOREM FinishLeavesNothing ==
    ASSUME NoWorkerDies
    PROVE  Spec => []NothingLeftBehind
<1> DEFINE IInv == TypeOK /\ Hands /\ Stages /\ Drained
<1>1. Init => IInv
  BY InitType DEF Init, Hands, Stages, Drained
<1>2. IInv /\ [Next]_vars => IInv'
  BY NoWorkerDies, TypeStep, HandsStep, StagesStep, DrainedStep
<1>3. IInv => NothingLeftBehind
  <2> SUFFICES ASSUME IInv, fpc = "returned" PROVE NothingLeftBehind
    BY DEF NothingLeftBehind
  <2>1. /\ \A w \in Scanners : spc[w] = "done"
        /\ \A w \in Overlappers : opc[w] = "done"
        /\ \A w \in DetectWorkers : dpc[w] = "done"
        /\ \A w \in Notifiers : npc[w] = "done"
    BY DEF Stages, AllDone, TypeOK
  <2>2. /\ chunksChan = <<>> /\ overlapChan = <<>>
        /\ detectChan = <<>> /\ resultsChan = <<>>
    BY <2>1, WorkersAssumption DEF Drained
  <2> QED BY <2>1, <2>2 DEF NothingLeftBehind, Hands
<1> QED BY <1>1, <1>2, <1>3, PTL DEF Spec

-----------------------------------------------------------------------------
(***************************************************************************)
(* What the notifier workers make of the results.                          *)
(***************************************************************************)

(* The dedupe cache has room for every key there is, so that it never      *)
(* gives one up.                                                           *)
CacheHoldsAll ==
    IsFiniteSet(Keys) /\ Cardinality(Keys) <= DedupeSize /\ DedupeSize > 0

Dispatching(w) == npc[w] = "dispatch" /\ nres[w] \notin Reverified

(* A key that was dispatched, or is about to be, is in the cache; it was   *)
(* let through for one result, and by one worker.                          *)
OneWayThrough ==
    /\ \A i, j \in 1..Len(dedupeCache) :
          dedupeCache[i] = dedupeCache[j] => i = j
    /\ \A r \in Dispatched \ Reverified :
          dispatches[r] = 1 /\ Cached(KeyOf[r])
    /\ \A q, r \in Dispatched \ Reverified : KeyOf[q] = KeyOf[r] => q = r
    /\ \A w \in Notifiers : Dispatching(w) =>
          /\ Cached(KeyOf[nres[w]])
          /\ \A r \in Dispatched \ Reverified : KeyOf[r] # KeyOf[nres[w]]
          /\ \A v \in Notifiers :
                Dispatching(v) /\ KeyOf[nres[v]] = KeyOf[nres[w]] => v = w

(* What was counted was dispatched, or a worker is about to: the cache     *)
(* drops only the copies of what was counted before.                       *)
CountedIsKept ==
    /\ numFoundResults > 0 =>
          \/ Dispatched \cup failed # {}
          \/ \E w \in Notifiers : npc[w] = "dispatch"
    /\ numFoundResults = 0 =>
          /\ Dispatched \cup failed = {}
          /\ dedupeCache = <<>>
          /\ \A w \in Notifiers : npc[w] # "dispatch"

(* A sequence of distinct keys that misses one is shorter than the cache.  *)
LEMMA RoomInCache ==
    ASSUME CacheHoldsAll, NEW s \in Seq(Keys), NEW k \in Keys,
           \A i, j \in 1..Len(s) : s[i] = s[j] => i = j,
           \A i \in 1..Len(s) : s[i] # k
    PROVE  Len(s) < DedupeSize
<1> DEFINE Rest == Keys \ {k}
<1>1. IsFiniteSet(Rest) /\ Cardinality(Rest) = Cardinality(Keys) - 1
  BY FS_RemoveElement DEF CacheHoldsAll
<1>2. s \in Injection(1..Len(s), Rest)
  BY DEF Injection, IsInjective
<1>3. Cardinality(1..Len(s)) <= Cardinality(Rest)
  BY <1>1, <1>2, FS_Injection
<1>4. Cardinality(1..Len(s)) = Len(s) /\ Len(s) \in Nat
  <2> DEFINE n == Len(s)
  <2>1. n \in Nat
    OBVIOUS
  <2> HIDE DEF n
  <2>2. Cardinality(1..n) = IF 1 > n THEN 0 ELSE n - 1 + 1
    BY <2>1, FS_Interval
  <2>3. Cardinality(1..n) = n
    BY <2>1, <2>2
  <2> QED BY <2>1, <2>3 DEF n
<1> QED
  BY <1>1, <1>3, <1>4, CapacityAssumption, FS_CardinalityType DEF CacheHoldsAll

(* The other workers leave the notifier workers' state alone.              *)
LEMMA OnlyNotifiersNotify ==
    ASSUME [Next]_vars
    PROVE  \/ UNCHANGED notifyVars
           \/ \E w \in Notifiers : NotifyStep(w) \/ NotifyPanic(w)
<1>1. ASSUME NEW c \in Chunks, SourceSend(c) PROVE UNCHANGED notifyVars
  BY <1>1 DEF SourceSend
<1>2. ASSUME NEW w \in Scanners, ScannerStep(w) \/ ScannerPanic(w)
      PROVE  UNCHANGED notifyVars
  BY <1>2 DEF ScannerStep, ScannerRecv, ScannerSendOverlap,
     ScannerSendDetect, ScannerNext, ScannerDrained, ScannerExit, ScannerPanic
<1>3. ASSUME NEW w \in Overlappers, OverlapStep(w) PROVE UNCHANGED notifyVars
  BY <1>3 DEF OverlapStep, OverlapRecv, OverlapSendResult, OverlapDecided,
     OverlapSendDetect, OverlapChunkDone, OverlapDrained, OverlapExit,
     OverlapPanic
<1>4. ASSUME NEW w \in DetectWorkers, DetectStep(w) \/ DetectPanic(w)
      PROVE  UNCHANGED notifyVars
  BY <1>4 DEF DetectStep, DetectRecv, DetectSendResult, DetectDone,
     DetectDrained, DetectPanic
<1>5. ASSUME FinishStep PROVE UNCHANGED notifyVars
  BY <1>5 DEF FinishStep, FinishSources, FinishScanners, FinishOverlap,
              FinishDetect, FinishNotify
<1>6. ASSUME UNCHANGED vars PROVE UNCHANGED notifyVars
  BY <1>6 DEF vars
<1> QED
  BY <1>1, <1>2, <1>3, <1>4, <1>5, <1>6 DEF Next, Returned

LEMMA OneWayThroughStep ==
    ASSUME CacheHoldsAll, TypeOK, Hands, OneWayThrough, [Next]_vars
    PROVE  OneWayThrough'
<1>a. ASSUME UNCHANGED <<dedupeCache, dispatches>>,
             \A v \in Notifiers : Dispatching(v)' =>
                 Dispatching(v) /\ nres'[v] = nres[v]
      PROVE  OneWayThrough'
  BY <1>a DEF OneWayThrough, Cached, Dispatched
<1>1. ASSUME UNCHANGED notifyVars PROVE OneWayThrough'
  BY <1>1, <1>a DEF notifyVars, Dispatching
<1>2. ASSUME NEW w \in Notifiers, NotifyRecv(w) PROVE OneWayThrough'
  BY <1>2, <1>a DEF NotifyRecv, Dispatching, TypeOK
<1>3. ASSUME NEW w \in Notifiers,
             NotifyFilter(w) \/ NotifyDrop(w) \/ NotifyPanic(w) \/ NotifyDrained(w)
      PROVE  OneWayThrough'
  BY <1>3, <1>a DEF NotifyFilter, NotifyDrop, NotifyPanic, NotifyDrained,
                    Dispatching, TypeOK
<1>b. \A v \in Notifiers : Dispatching(v) => KeyOf[nres[v]] \in Keys
  BY DataAssumption DEF Dispatching, Hands
<1>c. \A r \in Results : KeyOf[r] \in Keys
  BY DataAssumption
<1>4. ASSUME NEW w \in Notifiers, NotifyKeep(w) PROVE OneWayThrough'
  <2> DEFINE k == KeyOf[nres[w]]
  <2>1. nres[w] \in Results /\ k \in Keys
    BY <1>4, DataAssumption DEF NotifyKeep, Hands
  <2>2. CASE ~Dedupes(nres[w])
    <3>1. nres[w] \in Reverified
      BY <2>2 DEF Dedupes, CacheHoldsAll
    <3>2. UNCHANGED <<nres, dispatches, dedupeCache>>
      BY <1>4, <2>2 DEF NotifyKeep
    <3>3. \A v \in Notifiers : Dispatching(v)' => Dispatching(v)
      BY <1>4, <3>1, <3>2 DEF NotifyKeep, Dispatching, TypeOK
    <3> QED BY <1>a, <3>2, <3>3
  <2>3. CASE Dedupes(nres[w])
    <3>1. ~Cached(k)
      BY <1>4, <2>3 DEF NotifyKeep
    <3>2. Len(dedupeCache) < DedupeSize
      BY <2>1, <3>1, RoomInCache DEF OneWayThrough, Cached, TypeOK
    <3>3. dedupeCache' = Append(dedupeCache, k)
      BY <1>4, <2>3, <3>2 DEF NotifyKeep, CacheAdd
    <3>4. /\ Len(dedupeCache') = Len(dedupeCache) + 1
          /\ \A i \in 1..Len(dedupeCache) : dedupeCache'[i] = dedupeCache[i]
          /\ dedupeCache'[Len(dedupeCache) + 1] = k
          /\ Len(dedupeCache) \in Nat
      BY <2>1, <3>3 DEF TypeOK
    <3>5. \A i, j \in 1..Len(dedupeCache') :
              dedupeCache'[i] = dedupeCache'[j] => i = j
      <4>1. \A i \in 1..Len(dedupeCache) : dedupeCache[i] # k
        BY <3>1 DEF Cached
      <4>2. \A i, j \in 1..Len(dedupeCache) :
                dedupeCache[i] = dedupeCache[j] => i = j
        BY DEF OneWayThrough
      <4>3. 1..Len(dedupeCache') = 1..Len(dedupeCache) \cup {Len(dedupeCache) + 1}
        BY <3>4
      <4> QED BY <3>4, <4>1, <4>2, <4>3
    <3>6. Cached(k)' /\ \A key \in Keys : Cached(key) => Cached(key)'
      <4>1. Len(dedupeCache) + 1 \in 1..Len(dedupeCache')
        BY <3>4
      <4>2. \A i \in 1..Len(dedupeCache) : i \in 1..Len(dedupeCache')
        BY <3>4
      <4>3. k' = k
        BY <1>4 DEF NotifyKeep
      <4> QED BY <3>4, <4>1, <4>2, <4>3 DEF Cached
    <3>7. UNCHANGED <<nres, dispatches>>
      BY <1>4 DEF NotifyKeep
    <3>8. \A v \in Notifiers : Dispatching(v)' => Dispatching(v) \/ v = w
      BY <1>4, <3>7 DEF NotifyKeep, Dispatching, TypeOK
    <3>9. \A r \in Dispatched \ Reverified : Cached(KeyOf[r]) /\ KeyOf[r] # k
      BY <3>1 DEF OneWayThrough
    <3>10. \A v \in Notifiers : Dispatching(v) =>
               Cached(KeyOf[nres[v]]) /\ KeyOf[nres[v]] # k
      BY <3>1 DEF OneWayThrough
    <3>11. Dispatched' = Dispatched /\ Dispatched \subseteq Results
      BY <3>7 DEF Dispatched
    <3>12. /\ \A r \in (Dispatched \ Reverified)' :
                  dispatches'[r] = 1 /\ Cached(KeyOf[r])'
           /\ \A q, r \in (Dispatched \ Reverified)' : KeyOf[q] = KeyOf[r] => q = r
      <4>1. \A r \in Results : Cached(KeyOf[r]) => Cached(KeyOf[r])'
        BY <3>6, <1>c
      <4> QED BY <4>1, <3>7, <3>11 DEF OneWayThrough
    <3>13. ASSUME NEW v \in Notifiers, Dispatching(v)'
           PROVE  /\ Cached(KeyOf[nres[v]])'
                  /\ \A r \in (Dispatched \ Reverified)' : KeyOf[r] # KeyOf[nres'[v]]
                  /\ \A u \in Notifiers :
                       Dispatching(u)' /\ KeyOf[nres'[u]] = KeyOf[nres'[v]] => u = v
      <4>1. CASE v = w
        BY <4>1, <3>6, <3>7, <3>8, <3>9, <3>10, <3>11
      <4>2. CASE v # w
        <5>1. Dispatching(v) /\ KeyOf[nres[v]] # k
          BY <4>2, <3>8, <3>10, <3>13
        <5>2. Cached(KeyOf[nres[v]])'
          BY <5>1, <3>6, <3>7, <3>10, <1>b
        <5> QED BY <5>1, <5>2, <3>7, <3>8, <3>11 DEF OneWayThrough
      <4> QED BY <4>1, <4>2
    <3> QED BY <3>5, <3>12, <3>13 DEF OneWayThrough
  <2> QED BY <2>2, <2>3
<1>5. ASSUME NEW w \in Notifiers, NotifyDispatch(w) PROVE OneWayThrough'
  <2>1. nres[w] \in Results /\ npc[w] = "dispatch"
    BY <1>5 DEF NotifyDispatch, Hands
  <2>2. /\ \A v \in Notifiers : Dispatching(v)' =>
               Dispatching(v) /\ v # w /\ nres'[v] = nres[v]
        /\ UNCHANGED dedupeCache
    BY <1>5 DEF NotifyDispatch, Dispatching, TypeOK
  <2>3. CASE UNCHANGED dispatches
    BY <1>a, <2>2, <2>3
  <2>4. CASE dispatches' = [dispatches EXCEPT ![nres[w]] = @ + 1]
    <3>1. CASE nres[w] \in Reverified
      <4>1. /\ (Dispatched \ Reverified)' = Dispatched \ Reverified
            /\ \A r \in Dispatched \ Reverified : dispatches'[r] = dispatches[r]
        BY <2>1, <2>4, <3>1 DEF Dispatched, TypeOK
      <4> QED BY <2>2, <4>1 DEF OneWayThrough, Cached
    <3>2. CASE nres[w] \notin Reverified
      <4>0. Dispatching(w)
        BY <2>1, <3>2 DEF Dispatching
      <4>1. nres[w] \notin Dispatched
        BY <4>0, <3>2 DEF OneWayThrough
      <4>2. (Dispatched \ Reverified)' =
              (Dispatched \ Reverified) \cup {nres[w]}
        BY <2>1, <2>4, <3>2, <4>1 DEF TypeOK, Dispatched
      <4>3. \A r \in (Dispatched \ Reverified)' : dispatches'[r] = 1
        BY <2>1, <2>4, <4>1, <4>2 DEF TypeOK, Dispatched, OneWayThrough
      <4>4. /\ Cached(KeyOf[nres[w]])
            /\ \A r \in Dispatched \ Reverified : KeyOf[r] # KeyOf[nres[w]]
            /\ \A v \in Notifiers :
                  Dispatching(v)' => KeyOf[nres'[v]] # KeyOf[nres[w]]
        BY <2>2, <4>0 DEF OneWayThrough
      <4>5. \A q, r \in (Dispatched \ Reverified)' : KeyOf[q] = KeyOf[r] => q = r
        BY <4>2, <4>4 DEF OneWayThrough
      <4>6. \A r \in (Dispatched \ Reverified)' : Cached(KeyOf[r])
        BY <4>2, <4>4 DEF OneWayThrough
      <4>7. \A v \in Notifiers : Dispatching(v)' =>
                \A r \in (Dispatched \ Reverified)' : KeyOf[r] # KeyOf[nres'[v]]
        BY <2>2, <4>2, <4>4 DEF OneWayThrough
      <4> QED BY <2>2, <4>3, <4>5, <4>6, <4>7 DEF OneWayThrough, Cached
    <3> QED BY <3>1, <3>2
  <2> QED BY <1>5, <2>3, <2>4 DEF NotifyDispatch
<1>6. ASSUME NEW w \in Notifiers, NotifyStep(w) \/ NotifyPanic(w)
      PROVE  OneWayThrough'
  BY <1>6, <1>2, <1>3, <1>4, <1>5 DEF NotifyStep
<1> QED
  BY <1>1, <1>6, OnlyNotifiersNotify

LEMMA CountedIsKeptStep ==
    ASSUME DispatchPanics = {}, TypeOK, Hands, CountedIsKept, [Next]_vars
    PROVE  CountedIsKept'
<1> USE DEF Dispatched
<1>1. ASSUME UNCHANGED notifyVars PROVE CountedIsKept'
  BY <1>1 DEF CountedIsKept, notifyVars
<1>2. ASSUME NEW w \in Notifiers,
             NotifyRecv(w) \/ NotifyFilter(w) \/ NotifyDrained(w)
      PROVE  CountedIsKept'
  BY <1>2 DEF CountedIsKept, NotifyRecv, NotifyFilter, NotifyDrained, TypeOK
<1>3. ASSUME NEW w \in Notifiers, NotifyDrop(w) PROVE CountedIsKept'
  <2>1. dedupeCache # <<>>
    BY <1>3 DEF NotifyDrop, Cached
  <2>2. numFoundResults > 0 /\ numFoundResults' > 0
    BY <1>3, <2>1 DEF CountedIsKept, NotifyDrop, TypeOK
  <2> QED BY <1>3, <2>2 DEF CountedIsKept, NotifyDrop, TypeOK
<1>4. ASSUME NEW w \in Notifiers, NotifyKeep(w) PROVE CountedIsKept'
  <2>1. numFoundResults' > 0 /\ npc'[w] = "dispatch"
    BY <1>4 DEF NotifyKeep, TypeOK
  <2> QED BY <2>1 DEF CountedIsKept
<1>5. ASSUME NEW w \in Notifiers, NotifyDispatch(w) PROVE CountedIsKept'
  <2>1. nres[w] \in Results /\ npc[w] = "dispatch"
    BY <1>5 DEF NotifyDispatch, Hands
  <2>2. numFoundResults' > 0
    BY <1>5, <2>1 DEF NotifyDispatch, CountedIsKept, TypeOK
  <2>3. nres[w] \in (Dispatched \cup failed)'
    BY <1>5, <2>1 DEF NotifyDispatch, TypeOK
  <2> QED BY <2>2, <2>3 DEF CountedIsKept
<1>6. ASSUME NEW w \in Notifiers, NotifyStep(w) \/ NotifyPanic(w)
      PROVE  CountedIsKept'
  <2>1. ~NotifyPanic(w)
    BY DEF NotifyPanic
  <2> QED BY <1>6, <1>2, <1>3, <1>4, <1>5, <2>1 DEF NotifyStep
<1> HIDE DEF Dispatched
<1> QED
  BY <1>1, <1>6, OnlyNotifiersNotify

(* While the cache holds every key, no finding is dispatched twice: a      *)
(* result is let through by the one worker that puts its key in the cache, *)
(* whatever panics, and whether or not the dispatch succeeds.              *)
THEOREM FindingsAreDispatchedOnce ==
    ASSUME CacheHoldsAll
    PROVE  Spec => []DispatchedOncePerKey
<1> DEFINE IInv == TypeOK /\ Hands /\ OneWayThrough
<1>1. Init => IInv
  <2> SUFFICES ASSUME Init PROVE IInv
    OBVIOUS
  <2>1. Dispatched = {} /\ \A w \in Notifiers : ~Dispatching(w)
    BY DEF Init, Dispatched, Dispatching
  <2>2. dedupeCache = <<>>
    BY DEF Init
  <2> QED BY <2>1, <2>2, InitType DEF Init, Hands, OneWayThrough
<1>2. IInv /\ [Next]_vars => IInv'
  BY CacheHoldsAll, TypeStep, HandsStep, OneWayThroughStep
<1>3. IInv => DispatchedOncePerKey
  BY DEF OneWayThrough, DispatchedOncePerKey
<1> QED BY <1>1, <1>2, <1>3, PTL DEF Spec

(* HasFoundResults tells the truth when Finish has returned: as long as    *)
(* the dispatcher does not panic, something was counted exactly when       *)
(* something was handed to the dispatcher.                                 *)
THEOREM ExitCodeIsRight ==
    ASSUME DispatchPanics = {}
    PROVE  Spec => []FoundMeansReported
<1> DEFINE IInv == TypeOK /\ Hands /\ Stages /\ CountedIsKept
<1>1. Init => IInv
  BY InitType DEF Init, Hands, Stages, CountedIsKept, Dispatched
<1>2. IInv /\ [Next]_vars => IInv'
  BY DispatchPanics = {}, TypeStep, HandsStep, StagesStep, CountedIsKeptStep
<1>3. IInv => FoundMeansReported
  BY DEF Stages, AllDone, CountedIsKept, FoundMeansReported, TypeOK
<1> QED BY <1>1, <1>2, <1>3, PTL DEF Spec

-----------------------------------------------------------------------------
(***************************************************************************)
(* The WaitGroups.                                                         *)
(***************************************************************************)

(* The places in a channel, and the workers, that hold a message of w.     *)
Queued(chan, w) == {i \in 1..Len(chan) : chan[i].owner = w}
Holding(job, w) == {o \in DOMAIN job : job[o] # None /\ job[o].owner = w}

Tally(m, w) == IF m.owner = w THEN 1 ELSE 0

LEMMA QueuedIsFinite ==
    ASSUME NEW S, NEW s \in Seq(S), NEW w
    PROVE  IsFiniteSet(Queued(s, w)) /\ Cardinality(Queued(s, w)) \in Nat
<1>1. Len(s) \in Nat
  OBVIOUS
<1>2. IsFiniteSet(1..Len(s))
  BY <1>1, FS_Interval
<1>3. Queued(s, w) \in SUBSET (1..Len(s))
  BY DEF Queued
<1>4. IsFiniteSet(Queued(s, w))
  BY <1>2, <1>3, FS_Subset
<1> QED BY <1>4, FS_CardinalityType

(* Sending a message adds it to what is queued for its owner, and          *)
(* receiving one takes it away.                                            *)
LEMMA QueuedAppend ==
    ASSUME NEW S, NEW s \in Seq(S), NEW m \in S, NEW w
    PROVE  Cardinality(Queued(Append(s, m), w)) =
              Cardinality(Queued(s, w)) + Tally(m, w)
<1> DEFINE n == Len(s)  t == Append(s, m)
<1>1. /\ n \in Nat /\ Len(t) = n + 1 /\ t[n + 1] = m
      /\ \A i \in 1..n : t[i] = s[i]
  OBVIOUS
<1>2. IsFiniteSet(Queued(s, w)) /\ Cardinality(Queued(s, w)) \in Nat
  BY QueuedIsFinite
<1>3. n + 1 \notin Queued(s, w)
  BY <1>1 DEF Queued
<1> HIDE DEF n, t
<1>4. Queued(t, w) = IF m.owner = w THEN Queued(s, w) \cup {n + 1}
                                    ELSE Queued(s, w)
  <2>1. 1..Len(t) = 1..n \cup {n + 1}
    BY <1>1
  <2> QED BY <1>1, <2>1 DEF Queued, n
<1>5. Cardinality(Queued(t, w)) = Cardinality(Queued(s, w)) + Tally(m, w)
  <2>1. Cardinality(Queued(s, w) \cup {n + 1}) = Cardinality(Queued(s, w)) + 1
    BY <1>2, <1>3, FS_AddElement
  <2> QED BY <1>2, <1>4, <2>1 DEF Tally
<1> QED BY <1>5 DEF t

LEMMA QueuedTail ==
    ASSUME NEW S, NEW s \in Seq(S), s # <<>>, NEW w
    PROVE  Cardinality(Queued(Tail(s), w)) =
              Cardinality(Queued(s, w)) - Tally(Head(s), w)
<1> DEFINE n == Len(s)  t == Tail(s)
           Old == Queued(s, w) \ {1}
           f == [i \in Old |-> i - 1]
<1>1. /\ n \in Nat /\ n > 0 /\ Len(t) = n - 1 /\ Head(s) = s[1]
      /\ \A i \in 1..(n - 1) : t[i] = s[i + 1]
  OBVIOUS
<1>2. IsFiniteSet(Queued(s, w)) /\ Cardinality(Queued(s, w)) \in Nat
  BY QueuedIsFinite
<1>3. /\ IsFiniteSet(Old)
      /\ Cardinality(Old) = Cardinality(Queued(s, w)) - Tally(Head(s), w)
  <2>1. 1 \in Queued(s, w) <=> Head(s).owner = w
    BY <1>1 DEF Queued
  <2> QED BY <1>2, <2>1, FS_RemoveElement DEF Tally
<1> HIDE DEF n, t
<1>4. Old = {i \in 2..n : s[i].owner = w} /\ Queued(t, w) = {i \in 1..(n - 1) : s[i + 1].owner = w}
  BY <1>1 DEF Queued, n
<1>5. f \in Bijection(Old, Queued(t, w))
  <2>1. f \in [Old -> Queued(t, w)]
    BY <1>1, <1>4
  <2>2. \A i, j \in Old : f[i] = f[j] => i = j
    BY <1>1, <1>4
  <2>3. ASSUME NEW j \in Queued(t, w) PROVE \E i \in Old : f[i] = j
    <3>1. j \in Int /\ j + 1 \in Old
      BY <1>1, <1>4
    <3>2. f[j + 1] = j
      BY <3>1
    <3> QED BY <3>1, <3>2
  <2> HIDE DEF f
  <2>4. f \in Injection(Old, Queued(t, w))
    BY <2>1, <2>2 DEF Injection, IsInjective
  <2>5. f \in Surjection(Old, Queued(t, w))
    BY <2>1, <2>3 DEF Surjection
  <2> QED BY <2>4, <2>5 DEF Bijection
<1>6. Cardinality(Queued(t, w)) = Cardinality(Old)
  BY <1>3, <1>5, FS_Bijection DEF ExistsBijection
<1> QED BY <1>3, <1>6 DEF t

(* A worker with empty hands that takes a message holds one message of its *)
(* owner more, and one less when it puts it away.                          *)
LEMMA HoldingTake ==
    ASSUME NEW job, NEW new, NEW o \in DOMAIN job, NEW w,
           job[o] = None, new[o] # None, DOMAIN new = DOMAIN job,
           \A x \in DOMAIN job : x # o => new[x] = job[x],
           IsFiniteSet(Holding(job, w))
    PROVE  /\ IsFiniteSet(Holding(new, w))
           /\ Cardinality(Holding(new, w)) =
                 Cardinality(Holding(job, w)) + Tally(new[o], w)
<1>1. Holding(new, w) = IF new[o].owner = w THEN Holding(job, w) \cup {o}
                                            ELSE Holding(job, w)
  BY DEF Holding
<1>2. o \notin Holding(job, w)
  BY DEF Holding
<1>3. Cardinality(Holding(job, w)) \in Nat
  BY FS_CardinalityType
<1>4. /\ IsFiniteSet(Holding(job, w) \cup {o})
      /\ Cardinality(Holding(job, w) \cup {o}) = Cardinality(Holding(job, w)) + 1
  BY <1>2, FS_AddElement
<1> QED BY <1>1, <1>3, <1>4 DEF Tally

LEMMA HoldingPut ==
    ASSUME NEW job, NEW new, NEW o \in DOMAIN job, NEW w,
           job[o] # None, new[o] = None, DOMAIN new = DOMAIN job,
           \A x \in DOMAIN job : x # o => new[x] = job[x],
           IsFiniteSet(Holding(job, w))
    PROVE  /\ IsFiniteSet(Holding(new, w))
           /\ Cardinality(Holding(new, w)) =
                 Cardinality(Holding(job, w)) - Tally(job[o], w)
<1>1. Holding(new, w) = Holding(job, w) \ {o}
  BY DEF Holding
<1>2. o \in Holding(job, w) <=> job[o].owner = w
  BY DEF Holding
<1>3. Cardinality(Holding(job, w)) \in Nat
  BY FS_CardinalityType
<1>4. /\ IsFiniteSet(Holding(job, w) \ {o})
      /\ Cardinality(Holding(job, w) \ {o}) =
            IF o \in Holding(job, w) THEN Cardinality(Holding(job, w)) - 1
                                     ELSE Cardinality(Holding(job, w))
  BY FS_RemoveElement
<1> QED BY <1>1, <1>2, <1>3, <1>4 DEF Tally

(* Who takes a step, and what the other workers keep.                      *)
LEMMA WhoseStep ==
    ASSUME [Next]_vars
    PROVE  \/ /\ \E w \in Scanners : ScannerStep(w) \/ ScannerPanic(w)
              /\ UNCHANGED <<overlapVars, detectVars>>
           \/ /\ \E w \in Overlappers : OverlapStep(w)
              /\ UNCHANGED detectVars
           \/ /\ \E w \in DetectWorkers : DetectStep(w) \/ DetectPanic(w)
              /\ UNCHANGED <<wgOverlap, overlapChan, overlapVars>>
           \/ UNCHANGED <<wgVars, overlapChan, detectChan, overlapVars, detectVars>>
<1>1. ASSUME NEW c \in Chunks, SourceSend(c)
      PROVE  UNCHANGED <<wgVars, overlapChan, detectChan, overlapVars, detectVars>>
  BY <1>1 DEF SourceSend
<1>2. ASSUME NEW w \in Scanners, ScannerStep(w) \/ ScannerPanic(w)
      PROVE  UNCHANGED <<overlapVars, detectVars>>
  BY <1>2 DEF ScannerStep, ScannerRecv, ScannerSendOverlap,
     ScannerSendDetect, ScannerNext, ScannerDrained, ScannerExit, ScannerPanic
<1>3. ASSUME NEW w \in Overlappers, OverlapStep(w)
      PROVE  UNCHANGED detectVars
  BY <1>3 DEF OverlapStep, OverlapRecv, OverlapSendResult, OverlapDecided,
     OverlapSendDetect, OverlapChunkDone, OverlapDrained, OverlapExit,
     OverlapPanic
<1>4. ASSUME NEW w \in DetectWorkers, DetectStep(w) \/ DetectPanic(w)
      PROVE  UNCHANGED <<wgOverlap, overlapChan, overlapVars>>
  BY <1>4 DEF DetectStep, DetectRecv, DetectSendResult, DetectDone,
     DetectDrained, DetectPanic, wgVars
<1>5. ASSUME NEW w \in Notifiers, NotifyStep(w) \/ NotifyPanic(w)
      PROVE  UNCHANGED <<wgVars, overlapChan, detectChan, overlapVars, detectVars>>
  BY <1>5 DEF NotifyStep, NotifyRecv, NotifyFilter, NotifyDrop, NotifyKeep,
     NotifyDispatch, NotifyPanic, NotifyDrained
<1>6. ASSUME FinishStep
      PROVE  UNCHANGED <<wgVars, overlapChan, detectChan, overlapVars, detectVars>>
  BY <1>6 DEF FinishStep, FinishSources, FinishScanners, FinishOverlap,
              FinishDetect, FinishNotify
<1>7. ASSUME UNCHANGED vars
      PROVE  UNCHANGED <<wgVars, overlapChan, detectChan, overlapVars, detectVars>>
  BY <1>7 DEF vars
<1> QED
  BY <1>1, <1>2, <1>3, <1>4, <1>5, <1>6, <1>7 DEF Next, Returned

(* A worker that handles no message holds none.                            *)
FreeHands ==
    /\ \A w \in Overlappers :
          opc[w] \notin {"report", "redetect"} => ojob[w] = None
    /\ \A w \in DetectWorkers : dpc[w] # "send" => djob[w] = None

LEMMA FreeHandsStep ==
    ASSUME TypeOK, FreeHands, [Next]_vars
    PROVE  FreeHands'
<1>1. CASE UNCHANGED <<overlapVars, detectVars>>
  BY <1>1 DEF FreeHands, overlapVars, detectVars
<1>2. ASSUME NEW w \in Overlappers, OverlapStep(w), UNCHANGED detectVars
      PROVE  FreeHands'
  <2> SUFFICES ASSUME NEW v \in Overlappers, opc'[v] \notin {"report", "redetect"}
               PROVE  ojob'[v] = None
    BY <1>2 DEF FreeHands, detectVars
  <2>0. DOMAIN opc = Overlappers /\ DOMAIN ojob = Overlappers
    BY DEF TypeOK
  <2>1. CASE OverlapRecv(w)
    BY <2>0, <2>1 DEF FreeHands, OverlapRecv
  <2>2. CASE OverlapSendResult(w) \/ OverlapSendDetect(w)
    BY <2>2 DEF FreeHands, OverlapSendResult, OverlapSendDetect
  <2>3. CASE OverlapDecided(w)
    BY <2>0, <2>3 DEF FreeHands, OverlapDecided
  <2>4. CASE OverlapDrained(w) \/ OverlapExit(w)
    BY <2>0, <2>4 DEF FreeHands, OverlapDrained, OverlapExit
  <2>5. CASE OverlapChunkDone(w) \/ OverlapPanic(w)
    BY <2>0, <2>5 DEF FreeHands, OverlapChunkDone, OverlapPanic
  <2> QED BY <1>2, <2>1, <2>2, <2>3, <2>4, <2>5 DEF OverlapStep
<1>3. ASSUME NEW w \in DetectWorkers, DetectStep(w) \/ DetectPanic(w),
             UNCHANGED overlapVars
      PROVE  FreeHands'
  BY <1>3 DEF FreeHands, TypeOK, overlapVars, DetectStep, DetectRecv,
     DetectSendResult, DetectDone, DetectDrained, DetectPanic
<1> QED
  BY <1>1, <1>2, <1>3, WhoseStep

(* What a WaitGroup counts beyond the messages in flight.                  *)
OverlapSlack(w) ==
    wgOverlap[w] - Cardinality(Queued(overlapChan, w))
                 - Cardinality(Holding(ojob, w))

DetectSlack(w) ==
    wgDetect[w] - Cardinality(Queued(detectChan, w))
                - Cardinality(Holding(djob, w))

HoldersAreFinite ==
    /\ \A w \in Scanners : IsFiniteSet(Holding(ojob, w))
    /\ \A w \in Producers : IsFiniteSet(Holding(djob, w))

(* Every Add comes with the message it counts and every Done follows it    *)
(* out; only a panic takes a message away without its Done.                *)
LEMMA OverlapSlackStep ==
    ASSUME TypeOK, Hands, FreeHands, [Next]_vars,
           NEW v \in Scanners, IsFiniteSet(Holding(ojob, v))
    PROVE  /\ IsFiniteSet(Holding(ojob, v))'
           /\ OverlapSlack(v) \in Int /\ OverlapSlack(v)' \in Int
           /\ \/ OverlapSlack(v)' = OverlapSlack(v)
              \/ /\ OverlapSlack(v)' > OverlapSlack(v)
                 /\ \E o \in Overlappers : OverlapPanic(o)
<1> DEFINE Goal == /\ IsFiniteSet(Holding(ojob, v))'
                   /\ OverlapSlack(v)' = OverlapSlack(v)
<1>a. /\ overlapChan \in Seq(OverlapMsg)
      /\ ojob \in [Overlappers -> OverlapMsg \cup {None}]
      /\ None \notin OverlapMsg
      /\ wgOverlap \in [Scanners -> Int]
  BY NoMessageAssumption DEF TypeOK
<1>b. Cardinality(Queued(overlapChan, v)) \in Nat
      /\ Cardinality(Holding(ojob, v)) \in Nat
  BY <1>a, QueuedIsFinite, FS_CardinalityType
<1>c. OverlapSlack(v) \in Int
  BY <1>a, <1>b DEF OverlapSlack
<1>1. ASSUME UNCHANGED <<wgOverlap, overlapChan, ojob>> PROVE Goal
  BY <1>1 DEF OverlapSlack
<1>2. ASSUME NEW w \in Scanners, ScannerSendOverlap(w) PROVE Goal
  <2>1. PICK s \in stodo[w] :
            /\ s.kind = "overlap"
            /\ overlapChan' = Append(overlapChan, [piece |-> s.piece, owner |-> w])
    BY <1>2 DEF ScannerSendOverlap
  <2> DEFINE m == [piece |-> s.piece, owner |-> w]
  <2>2. m \in OverlapMsg
    BY <2>1 DEF TypeOK, Send, OverlapMsg
  <2>3. Cardinality(Queued(overlapChan, v))' =
            Cardinality(Queued(overlapChan, v)) + Tally(m, v)
    BY <1>a, <2>1, <2>2, QueuedAppend
  <2>4. wgOverlap'[v] = wgOverlap[v] + Tally(m, v) /\ UNCHANGED ojob
    BY <1>2, <1>a DEF ScannerSendOverlap, overlapVars, Tally
  <2>5. Tally(m, v) \in Int
    BY DEF Tally
  <2> QED BY <1>a, <1>b, <2>3, <2>4, <2>5 DEF OverlapSlack
<1>3. ASSUME NEW w \in Overlappers, OverlapRecv(w) PROVE Goal
  <2> DEFINE m == Head(overlapChan)
  <2>1. m \in OverlapMsg /\ overlapChan # <<>> /\ ojob[w] = None
    <3>1. overlapChan # <<>> /\ opc[w] = "recv"
      BY <1>3 DEF OverlapRecv
    <3>2. ojob[w] = None
      BY <3>1 DEF FreeHands
    <3> QED BY <1>a, <3>1, <3>2
  <2>2. /\ overlapChan' = Tail(overlapChan)
        /\ ojob' = [ojob EXCEPT ![w] = m]
        /\ UNCHANGED wgOverlap
    BY <1>3 DEF OverlapRecv, wgVars
  <2>3. Cardinality(Queued(overlapChan, v))' =
            Cardinality(Queued(overlapChan, v)) - Tally(m, v)
    BY <1>a, <2>1, <2>2, QueuedTail
  <2>4. /\ IsFiniteSet(Holding(ojob, v))'
        /\ Cardinality(Holding(ojob, v))' = Cardinality(Holding(ojob, v)) + Tally(m, v)
    <3>1. /\ w \in DOMAIN ojob /\ DOMAIN ojob' = DOMAIN ojob
          /\ ojob[w] = None /\ ojob'[w] # None /\ ojob'[w] = m
          /\ \A x \in DOMAIN ojob : x # w => ojob'[x] = ojob[x]
      BY <1>a, <2>1, <2>2
    <3> QED BY <3>1, HoldingTake
  <2>5. Tally(m, v) \in Int
    BY DEF Tally
  <2> QED BY <1>a, <1>b, <2>2, <2>3, <2>4, <2>5 DEF OverlapSlack
<1>4. ASSUME NEW w \in Overlappers, OverlapChunkDone(w) PROVE Goal
  <2>1. ojob[w] \in OverlapMsg /\ ojob[w].owner \in Scanners
    BY <1>4 DEF OverlapChunkDone, Hands, OverlapMsg
  <2>2. /\ wgOverlap'[v] = wgOverlap[v] - Tally(ojob[w], v)
        /\ ojob' = [ojob EXCEPT ![w] = None]
        /\ UNCHANGED overlapChan
    BY <1>4, <1>a, <2>1 DEF OverlapChunkDone, Tally
  <2>3. /\ IsFiniteSet(Holding(ojob, v))'
        /\ Cardinality(Holding(ojob, v))' =
              Cardinality(Holding(ojob, v)) - Tally(ojob[w], v)
    <3>1. /\ w \in DOMAIN ojob /\ DOMAIN ojob' = DOMAIN ojob
          /\ ojob[w] # None /\ ojob'[w] = None
          /\ \A x \in DOMAIN ojob : x # w => ojob'[x] = ojob[x]
      BY <1>a, <2>1, <2>2
    <3> QED BY <3>1, HoldingPut
  <2>4. Tally(ojob[w], v) \in Int
    BY DEF Tally
  <2> QED BY <1>a, <1>b, <2>2, <2>3, <2>4 DEF OverlapSlack
<1>5. ASSUME NEW w \in Overlappers, OverlapPanic(w)
      PROVE  /\ IsFiniteSet(Holding(ojob, v))'
             /\ OverlapSlack(v)' \in Int /\ OverlapSlack(v)' >= OverlapSlack(v)
  <2>1. ojob[w] \in OverlapMsg
    BY <1>5 DEF OverlapPanic, Hands
  <2>2. /\ ojob' = [ojob EXCEPT ![w] = None]
        /\ UNCHANGED <<wgOverlap, overlapChan>>
    BY <1>5 DEF OverlapPanic, wgVars
  <2>3. /\ IsFiniteSet(Holding(ojob, v))'
        /\ Cardinality(Holding(ojob, v))' =
              Cardinality(Holding(ojob, v)) - Tally(ojob[w], v)
    <3>1. /\ w \in DOMAIN ojob /\ DOMAIN ojob' = DOMAIN ojob
          /\ ojob[w] # None /\ ojob'[w] = None
          /\ \A x \in DOMAIN ojob : x # w => ojob'[x] = ojob[x]
      BY <1>a, <2>1, <2>2
    <3> QED BY <3>1, HoldingPut
  <2>4. Tally(ojob[w], v) \in Nat
    BY DEF Tally
  <2> QED BY <1>a, <1>b, <2>2, <2>3, <2>4 DEF OverlapSlack
<1>6. ASSUME NEW w \in Scanners, ScannerStep(w) \/ ScannerPanic(w)
      PROVE  ScannerSendOverlap(w) \/ UNCHANGED <<wgOverlap, overlapChan, ojob>>
  BY <1>6 DEF ScannerStep, ScannerRecv, ScannerSendDetect, ScannerNext,
     ScannerDrained, ScannerExit, ScannerPanic, wgVars, overlapVars
<1>7. ASSUME NEW w \in Overlappers, OverlapStep(w)
      PROVE  \/ OverlapRecv(w) \/ OverlapChunkDone(w) \/ OverlapPanic(w)
             \/ UNCHANGED <<wgOverlap, overlapChan, ojob>>
  BY <1>7 DEF OverlapStep, OverlapSendResult, OverlapDecided,
     OverlapSendDetect, OverlapDrained, OverlapExit, wgVars
<1>8. ASSUME UNCHANGED <<wgOverlap, overlapChan, overlapVars>> PROVE Goal
  BY <1>8, <1>1 DEF overlapVars
<1> HIDE DEF Goal
<1>9. Goal \/ \E o \in Overlappers : OverlapPanic(o)
  BY <1>1, <1>2, <1>3, <1>4, <1>6, <1>7, <1>8, WhoseStep DEF wgVars
<1>10. CASE Goal
  BY <1>10, <1>c DEF Goal
<1>11. CASE \E o \in Overlappers : OverlapPanic(o)
  BY <1>11, <1>5, <1>c
<1> QED BY <1>9, <1>10, <1>11

LEMMA DetectSlackStep ==
    ASSUME TypeOK, Hands, FreeHands, [Next]_vars,
           NEW v \in Producers, IsFiniteSet(Holding(djob, v))
    PROVE  /\ IsFiniteSet(Holding(djob, v))'
           /\ DetectSlack(v) \in Int /\ DetectSlack(v)' \in Int
           /\ \/ DetectSlack(v)' = DetectSlack(v)
              \/ /\ DetectSlack(v)' > DetectSlack(v)
                 /\ \E d \in DetectWorkers : DetectPanic(d)
<1> DEFINE Goal == /\ IsFiniteSet(Holding(djob, v))'
                   /\ DetectSlack(v)' = DetectSlack(v)
<1>a. /\ detectChan \in Seq(DetectMsg)
      /\ djob \in [DetectWorkers -> DetectMsg \cup {None}]
      /\ None \notin DetectMsg
      /\ wgDetect \in [Producers -> Int]
  BY NoMessageAssumption DEF TypeOK
<1>b. Cardinality(Queued(detectChan, v)) \in Nat
      /\ Cardinality(Holding(djob, v)) \in Nat
  BY <1>a, QueuedIsFinite, FS_CardinalityType
<1>c. DetectSlack(v) \in Int
  BY <1>a, <1>b DEF DetectSlack
<1>1. ASSUME UNCHANGED <<wgDetect, detectChan, djob>> PROVE Goal
  BY <1>1 DEF DetectSlack
<1>2. ASSUME NEW w \in Producers, NEW m \in DetectMsg, m.owner = w,
             detectChan' = Append(detectChan, m),
             wgDetect' = [wgDetect EXCEPT ![w] = @ + 1],
             UNCHANGED djob
      PROVE  Goal
  <2>1. Cardinality(Queued(detectChan, v))' =
            Cardinality(Queued(detectChan, v)) + Tally(m, v)
    BY <1>a, <1>2, QueuedAppend
  <2>2. wgDetect'[v] = wgDetect[v] + Tally(m, v)
    BY <1>2, <1>a DEF Tally
  <2>3. Tally(m, v) \in Int
    BY DEF Tally
  <2> QED BY <1>a, <1>b, <1>2, <2>1, <2>2, <2>3 DEF DetectSlack
<1>3. ASSUME NEW w \in Scanners, ScannerSendDetect(w) PROVE Goal
  <2>1. PICK s \in stodo[w] :
            /\ s.kind = "detect"
            /\ detectChan' = Append(detectChan,
                                [piece |-> s.piece, det |-> s.det, owner |-> w])
    BY <1>3 DEF ScannerSendDetect
  <2>2. [piece |-> s.piece, det |-> s.det, owner |-> w] \in DetectMsg
    BY <2>1 DEF TypeOK, Send, DetectMsg, Producers
  <2>3. /\ wgDetect' = [wgDetect EXCEPT ![w] = @ + 1]
        /\ UNCHANGED djob /\ w \in Producers
    BY <1>3 DEF ScannerSendDetect, detectVars, Producers
  <2> QED BY <1>2, <2>1, <2>2, <2>3
<1>4. ASSUME NEW w \in Overlappers, OverlapSendDetect(w) PROVE Goal
  <2>1. PICK d \in oredetect[w] :
            detectChan' = Append(detectChan,
                              [piece |-> ojob[w].piece, det |-> d, owner |-> w])
    BY <1>4 DEF OverlapSendDetect
  <2>2. ojob[w] \in OverlapMsg
    BY <1>4 DEF OverlapSendDetect, Hands
  <2>3. [piece |-> ojob[w].piece, det |-> d, owner |-> w] \in DetectMsg
    BY <2>1, <2>2 DEF TypeOK, OverlapMsg, DetectMsg, Producers
  <2>4. /\ wgDetect' = [wgDetect EXCEPT ![w] = @ + 1]
        /\ UNCHANGED djob /\ w \in Producers
    BY <1>4 DEF OverlapSendDetect, detectVars, Producers
  <2> QED BY <1>2, <2>1, <2>3, <2>4
<1>5. ASSUME NEW w \in DetectWorkers, DetectRecv(w) PROVE Goal
  <2> DEFINE m == Head(detectChan)
  <2>1. m \in DetectMsg /\ detectChan # <<>> /\ djob[w] = None
    BY <1>5, <1>a DEF DetectRecv, FreeHands
  <2>2. /\ detectChan' = Tail(detectChan)
        /\ djob' = [djob EXCEPT ![w] = m]
        /\ UNCHANGED wgDetect
    BY <1>5 DEF DetectRecv, wgVars
  <2>3. Cardinality(Queued(detectChan, v))' =
            Cardinality(Queued(detectChan, v)) - Tally(m, v)
    BY <1>a, <2>1, <2>2, QueuedTail
  <2>4. /\ IsFiniteSet(Holding(djob, v))'
        /\ Cardinality(Holding(djob, v))' = Cardinality(Holding(djob, v)) + Tally(m, v)
    <3>1. /\ w \in DOMAIN djob /\ DOMAIN djob' = DOMAIN djob
          /\ djob[w] = None /\ djob'[w] # None /\ djob'[w] = m
          /\ \A x \in DOMAIN djob : x # w => djob'[x] = djob[x]
      BY <1>a, <2>1, <2>2
    <3> QED BY <3>1, HoldingTake
  <2>5. Tally(m, v) \in Int
    BY DEF Tally
  <2> QED BY <1>a, <1>b, <2>2, <2>3, <2>4, <2>5 DEF DetectSlack
<1>6. ASSUME NEW w \in DetectWorkers, DetectDone(w) \/ DetectPanic(w)
      PROVE  /\ IsFiniteSet(Holding(djob, v))'
             /\ DetectDone(w) => DetectSlack(v)' = DetectSlack(v)
             /\ DetectPanic(w) =>
                   DetectSlack(v)' \in Int /\ DetectSlack(v)' >= DetectSlack(v)
  <2>1. djob[w] \in DetectMsg /\ djob[w].owner \in Producers
    BY <1>6 DEF DetectDone, DetectPanic, Hands, DetectMsg
  <2>2. djob' = [djob EXCEPT ![w] = None] /\ UNCHANGED detectChan
    BY <1>6 DEF DetectDone, DetectPanic
  <2>3. /\ DetectDone(w) => wgDetect'[v] = wgDetect[v] - Tally(djob[w], v)
        /\ DetectPanic(w) => wgDetect'[v] = wgDetect[v]
    BY <1>a, <2>1 DEF DetectDone, DetectPanic, wgVars, Tally
  <2>4. /\ IsFiniteSet(Holding(djob, v))'
        /\ Cardinality(Holding(djob, v))' =
              Cardinality(Holding(djob, v)) - Tally(djob[w], v)
    <3>1. /\ w \in DOMAIN djob /\ DOMAIN djob' = DOMAIN djob
          /\ djob[w] # None /\ djob'[w] = None
          /\ \A x \in DOMAIN djob : x # w => djob'[x] = djob[x]
      BY <1>a, <2>1, <2>2
    <3> QED BY <3>1, HoldingPut
  <2>5. Tally(djob[w], v) \in Nat
    BY DEF Tally
  <2> QED BY <1>a, <1>b, <2>2, <2>3, <2>4, <2>5 DEF DetectSlack
<1>7. ASSUME NEW w \in Scanners, ScannerStep(w) \/ ScannerPanic(w)
      PROVE  ScannerSendDetect(w) \/ UNCHANGED <<wgDetect, detectChan, djob>>
  BY <1>7 DEF ScannerStep, ScannerRecv, ScannerSendOverlap, ScannerNext,
     ScannerDrained, ScannerExit, ScannerPanic, wgVars, detectVars
<1>8. ASSUME NEW w \in Overlappers, OverlapStep(w)
      PROVE  OverlapSendDetect(w) \/ UNCHANGED <<wgDetect, detectChan, djob>>
  BY <1>8 DEF OverlapStep, OverlapRecv, OverlapSendResult, OverlapDecided,
     OverlapChunkDone, OverlapDrained, OverlapExit, OverlapPanic, wgVars,
     detectVars
<1>9. ASSUME NEW w \in DetectWorkers, DetectStep(w) \/ DetectPanic(w)
      PROVE  \/ DetectRecv(w) \/ DetectDone(w) \/ DetectPanic(w)
             \/ UNCHANGED <<wgDetect, detectChan, djob>>
  BY <1>9 DEF DetectStep, DetectSendResult, DetectDrained, wgVars, detectVars
<1>10. ASSUME UNCHANGED <<wgVars, overlapChan, detectChan, overlapVars, detectVars>>
       PROVE  Goal
  BY <1>10, <1>1 DEF wgVars, detectVars
<1>11. ASSUME NEW w \in DetectWorkers, DetectDone(w) PROVE Goal
  BY <1>6, <1>11
<1> HIDE DEF Goal
<1>12. Goal \/ \E d \in DetectWorkers : DetectPanic(d)
  BY <1>1, <1>3, <1>4, <1>5, <1>11, <1>7, <1>8, <1>9, <1>10, WhoseStep
<1>13. CASE Goal
  BY <1>13, <1>c DEF Goal
<1>14. CASE \E d \in DetectWorkers : DetectPanic(d)
  BY <1>14, <1>6, <1>c
<1> QED BY <1>12, <1>13, <1>14

(* The slack is what separates a WaitGroup from the messages in flight.    *)
LEMMA SlackIsTheDifference ==
    ASSUME TypeOK, HoldersAreFinite
    PROVE  /\ \A w \in Scanners :
                 /\ OverlapSlack(w) \in Int
                 /\ wgOverlap[w] - OverlapInFlight(w) = OverlapSlack(w)
                 /\ wgOverlap[w] \in Int /\ OverlapInFlight(w) \in Nat
           /\ \A w \in Producers :
                 /\ DetectSlack(w) \in Int
                 /\ wgDetect[w] - DetectInFlight(w) = DetectSlack(w)
                 /\ wgDetect[w] \in Int /\ DetectInFlight(w) \in Nat
<1>1. ASSUME NEW w \in Scanners
      PROVE  /\ OverlapSlack(w) \in Int
             /\ wgOverlap[w] - OverlapInFlight(w) = OverlapSlack(w)
             /\ wgOverlap[w] \in Int /\ OverlapInFlight(w) \in Nat
  <2>1. /\ Cardinality(Queued(overlapChan, w)) \in Nat
        /\ Cardinality(Holding(ojob, w)) \in Nat
    BY QueuedIsFinite, FS_CardinalityType DEF TypeOK, HoldersAreFinite
  <2>2. OverlapInFlight(w) =
            Cardinality(Queued(overlapChan, w)) + Cardinality(Holding(ojob, w))
    BY DEF OverlapInFlight, Queued, Holding, TypeOK
  <2>3. wgOverlap[w] \in Int
    BY DEF TypeOK
  <2> QED BY <2>1, <2>2, <2>3 DEF OverlapSlack
<1>2. ASSUME NEW w \in Producers
      PROVE  /\ DetectSlack(w) \in Int
             /\ wgDetect[w] - DetectInFlight(w) = DetectSlack(w)
             /\ wgDetect[w] \in Int /\ DetectInFlight(w) \in Nat
  <2>1. /\ Cardinality(Queued(detectChan, w)) \in Nat
        /\ Cardinality(Holding(djob, w)) \in Nat
    BY QueuedIsFinite, FS_CardinalityType DEF TypeOK, HoldersAreFinite
  <2>2. DetectInFlight(w) =
            Cardinality(Queued(detectChan, w)) + Cardinality(Holding(djob, w))
    BY DEF DetectInFlight, Queued, Holding, TypeOK
  <2>3. wgDetect[w] \in Int
    BY DEF TypeOK
  <2> QED BY <2>1, <2>2, <2>3 DEF DetectSlack
<1> QED BY <1>1, <1>2

(* Nothing is in flight at the start. *)
LEMMA InitSlack ==
    ASSUME Init
    PROVE  /\ FreeHands /\ HoldersAreFinite
           /\ \A w \in Scanners : OverlapSlack(w) = 0
           /\ \A w \in Producers : DetectSlack(w) = 0
<1>1. /\ \A w \in Scanners : Queued(overlapChan, w) = {} /\ Holding(ojob, w) = {}
      /\ \A w \in Producers : Queued(detectChan, w) = {} /\ Holding(djob, w) = {}
  BY DEF Init, Queued, Holding
<1>2. FreeHands
  BY DEF Init, FreeHands
<1>3. HoldersAreFinite
  BY <1>1, FS_EmptySet DEF HoldersAreFinite
<1>4. /\ \A w \in Scanners : wgOverlap[w] = 0
      /\ \A w \in Producers : wgDetect[w] = 0
  BY DEF Init
<1>5. Cardinality({}) = 0
  BY FS_EmptySet
<1>6. /\ \A w \in Scanners : OverlapSlack(w) = 0
      /\ \A w \in Producers : DetectSlack(w) = 0
  <2>1. ASSUME NEW w \in Scanners PROVE OverlapSlack(w) = 0
    BY <1>1, <1>4, <1>5 DEF OverlapSlack
  <2>2. ASSUME NEW w \in Producers PROVE DetectSlack(w) = 0
    BY <1>1, <1>4, <1>5 DEF DetectSlack
  <2> QED BY <2>1, <2>2
<1> QED BY <1>2, <1>3, <1>6

(* A WaitGroup never falls below the messages it stands for, whatever      *)
(* panics: no Wait returns while one of them is queued or being handled,   *)
(* and no Done makes the counter negative.                                 *)
THEOREM WaitsAreLongEnough == Spec => []WaitGroupsCover
<1> DEFINE Slack == /\ \A w \in Scanners : OverlapSlack(w) >= 0
                    /\ \A w \in Producers : DetectSlack(w) >= 0
           IInv == TypeOK /\ Hands /\ FreeHands /\ HoldersAreFinite /\ Slack
<1>1. Init => IInv
  BY InitType, InitSlack DEF Init, Hands
<1>2. IInv /\ [Next]_vars => IInv'
  <2> SUFFICES ASSUME IInv, [Next]_vars PROVE IInv'
    OBVIOUS
  <2>1. TypeOK' /\ Hands' /\ FreeHands'
    BY TypeStep, HandsStep, FreeHandsStep
  <2>2. ASSUME NEW w \in Scanners
        PROVE  IsFiniteSet(Holding(ojob, w))' /\ OverlapSlack(w)' >= 0
    <3>1. OverlapSlack(w) >= 0 /\ IsFiniteSet(Holding(ojob, w))
      BY DEF HoldersAreFinite
    <3>2. OverlapSlack(w)' \in Int
      BY <3>1, OverlapSlackStep
    <3> QED BY <3>1, <3>2, OverlapSlackStep
  <2>3. ASSUME NEW w \in Producers
        PROVE  IsFiniteSet(Holding(djob, w))' /\ DetectSlack(w)' >= 0
    <3>1. DetectSlack(w) >= 0 /\ IsFiniteSet(Holding(djob, w))
      BY DEF HoldersAreFinite
    <3>2. DetectSlack(w)' \in Int
      BY <3>1, DetectSlackStep
    <3> QED BY <3>1, <3>2, DetectSlackStep
  <2> QED BY <2>1, <2>2, <2>3 DEF HoldersAreFinite
<1>3. IInv => WaitGroupsCover
  BY SlackIsTheDifference DEF WaitGroupsCover
<1> QED BY <1>1, <1>2, <1>3, PTL DEF Spec

(* No detector panics, neither in a worker nor in the overlap pass.        *)
NoDetectorPanics ==
    /\ DetectPanics = {}
    /\ \A p \in Pieces : \A out \in OverlapOutcomes[p] : out.panics = FALSE

QuietOverlaps == \A w \in Overlappers : opanics[w] = FALSE

LEMMA QuietOverlapsStep ==
    ASSUME NoDetectorPanics, TypeOK, QuietOverlaps, [Next]_vars
    PROVE  QuietOverlaps'
<1>1. CASE UNCHANGED opanics
  BY <1>1 DEF QuietOverlaps
<1>2. ASSUME NEW w \in Overlappers, OverlapRecv(w) PROVE QuietOverlaps'
  <2>1. Head(overlapChan) \in OverlapMsg
    BY <1>2 DEF OverlapRecv, TypeOK
  <2>2. PICK out \in OverlapOutcomes[Head(overlapChan).piece] :
            opanics' = [opanics EXCEPT ![w] = out.panics]
    BY <1>2 DEF OverlapRecv
  <2>3. out.panics = FALSE
    BY <2>1, <2>2 DEF NoDetectorPanics, OverlapMsg
  <2> QED BY <2>2, <2>3 DEF QuietOverlaps, TypeOK
<1>3. ASSUME NEW w \in Overlappers, OverlapStep(w)
      PROVE  OverlapRecv(w) \/ UNCHANGED opanics
  BY <1>3 DEF OverlapStep, OverlapSendResult, OverlapDecided,
     OverlapSendDetect, OverlapChunkDone, OverlapDrained, OverlapExit,
     OverlapPanic
<1> QED
  BY <1>1, <1>2, <1>3, WhoseStep DEF overlapVars

(* When no detector panics a WaitGroup is the number of messages in flight *)
(* at every moment, so that its Wait returns as soon as it may.            *)
THEOREM WaitsAreShortEnough ==
    ASSUME NoDetectorPanics
    PROVE  Spec => []WaitGroupsExact
<1> DEFINE Slack == /\ \A w \in Scanners : OverlapSlack(w) = 0
                    /\ \A w \in Producers : DetectSlack(w) = 0
           IInv == /\ TypeOK /\ Hands /\ FreeHands /\ HoldersAreFinite
                   /\ QuietOverlaps /\ Slack
<1>1. Init => IInv
  BY InitType, InitSlack DEF Init, Hands, QuietOverlaps
<1>2. IInv /\ [Next]_vars => IInv'
  <2> SUFFICES ASSUME IInv, [Next]_vars PROVE IInv'
    OBVIOUS
  <2>1. TypeOK' /\ Hands' /\ FreeHands' /\ QuietOverlaps'
    BY NoDetectorPanics, TypeStep, HandsStep, FreeHandsStep, QuietOverlapsStep
  <2>2. /\ \A o \in Overlappers : ~OverlapPanic(o)
        /\ \A d \in DetectWorkers : ~DetectPanic(d)
    BY NoDetectorPanics
       DEF OverlapPanic, DetectPanic, QuietOverlaps, NoDetectorPanics
  <2>3. \A w \in Scanners :
            IsFiniteSet(Holding(ojob, w))' /\ OverlapSlack(w)' = 0
    BY <2>2, OverlapSlackStep DEF HoldersAreFinite
  <2>4. \A w \in Producers :
            IsFiniteSet(Holding(djob, w))' /\ DetectSlack(w)' = 0
    BY <2>2, DetectSlackStep DEF HoldersAreFinite
  <2> QED BY <2>1, <2>3, <2>4 DEF HoldersAreFinite
<1>3. IInv => WaitGroupsExact
  BY SlackIsTheDifference DEF WaitGroupsExact
<1> QED BY <1>1, <1>2, <1>3, PTL DEF Spec

-----------------------------------------------------------------------------
(***************************************************************************)
(* The pipeline keeps the promise of ScanPromise.                          *)
(***************************************************************************)

InChan(chan) == {chan[i] : i \in 1..Len(chan)}

LEMMA InAppend ==
    ASSUME NEW S, NEW s \in Seq(S), NEW m \in S
    PROVE  InChan(Append(s, m)) = InChan(s) \cup {m}
<1> DEFINE n == Len(s)  t == Append(s, m)
<1>1. /\ n \in Nat /\ Len(t) = n + 1 /\ t[n + 1] = m
      /\ \A i \in 1..n : t[i] = s[i]
  OBVIOUS
<1> HIDE DEF t
<1>2. 1..Len(t) = 1..n \cup {n + 1}
  BY <1>1
<1>3. InChan(t) = InChan(s) \cup {m}
  BY <1>1, <1>2 DEF InChan
<1> QED BY <1>3 DEF t

LEMMA TailType ==
    ASSUME NEW S, NEW s \in Seq(S), s # <<>>
    PROVE  Tail(s) \in Seq(S)
  OBVIOUS

LEMMA InTail ==
    ASSUME NEW S, NEW s \in Seq(S), s # <<>>
    PROVE  InChan(s) = InChan(Tail(s)) \cup {Head(s)}
<1> DEFINE n == Len(s)  t == Tail(s)
<1>1. /\ n \in Nat /\ n > 0 /\ Len(t) = n - 1 /\ Head(s) = s[1]
      /\ \A i \in 1..(n - 1) : t[i] = s[i + 1]
  OBVIOUS
<1> HIDE DEF t
<1>2. ASSUME NEW i \in 1..n PROVE s[i] \in InChan(t) \cup {Head(s)}
  <2>1. CASE i = 1
    BY <1>1, <2>1
  <2>2. CASE i # 1
    <3>1. i - 1 \in 1..Len(t) /\ t[i - 1] = s[i]
      BY <1>1, <2>2
    <3> QED BY <3>1 DEF InChan
  <2> QED BY <2>1, <2>2
<1>3. ASSUME NEW i \in 1..Len(t) PROVE t[i] \in InChan(s)
  <2>1. i + 1 \in 1..n /\ t[i] = s[i + 1]
    BY <1>1
  <2> QED BY <2>1 DEF InChan
<1>4. Head(s) \in InChan(s)
  BY <1>1 DEF InChan
<1>5. InChan(s) = InChan(t) \cup {Head(s)}
  BY <1>2, <1>3, <1>4 DEF InChan
<1> QED BY <1>5 DEF t

(* Which actions touch a channel or what a stage's workers hold.           *)
LEMMA WhoTouches ==
    ASSUME [Next]_vars
    PROVE  /\ \/ UNCHANGED unsent
              \/ \E c \in Chunks : SourceSend(c)
           /\ \/ UNCHANGED chunksChan
              \/ \E c \in Chunks : SourceSend(c)
              \/ \E w \in Scanners : ScannerRecv(w)
           /\ \/ UNCHANGED stodo
              \/ \E w \in Scanners : \/ ScannerRecv(w) \/ ScannerSendOverlap(w)
                                     \/ ScannerSendDetect(w) \/ ScannerPanic(w)
           /\ \/ UNCHANGED overlapChan
              \/ \E w \in Scanners : ScannerSendOverlap(w)
              \/ \E w \in Overlappers : OverlapRecv(w)
           /\ \/ UNCHANGED <<ojob, oreports, oredetect>>
              \/ \E w \in Overlappers :
                    \/ OverlapRecv(w) \/ OverlapSendResult(w)
                    \/ OverlapSendDetect(w) \/ OverlapChunkDone(w)
                    \/ OverlapPanic(w)
           /\ \/ UNCHANGED detectChan
              \/ \E w \in Scanners : ScannerSendDetect(w)
              \/ \E w \in Overlappers : OverlapSendDetect(w)
              \/ \E w \in DetectWorkers : DetectRecv(w)
           /\ \/ UNCHANGED dout
              \/ \E w \in DetectWorkers :
                    DetectRecv(w) \/ DetectSendResult(w) \/ DetectPanic(w)
           /\ \/ UNCHANGED resultsChan
              \/ \E w \in Overlappers : OverlapSendResult(w)
              \/ \E w \in DetectWorkers : DetectSendResult(w)
              \/ \E w \in Notifiers : NotifyRecv(w)
<1> USE DEF sourceVars, scanVars, overlapVars, detectVars
<1>1. CASE \E c \in Chunks : SourceSend(c)
  BY <1>1 DEF SourceSend
<1>2. CASE \E w \in Scanners : ScannerStep(w) \/ ScannerPanic(w)
  <2> PICK w \in Scanners : ScannerStep(w) \/ ScannerPanic(w)
    BY <1>2
  <2>1. CASE ScannerRecv(w)
    BY <2>1 DEF ScannerRecv
  <2>2. CASE ScannerSendOverlap(w)
    BY <2>2 DEF ScannerSendOverlap
  <2>3. CASE ScannerSendDetect(w)
    BY <2>3 DEF ScannerSendDetect
  <2>4. CASE ScannerNext(w) \/ ScannerDrained(w) \/ ScannerExit(w)
    BY <2>4 DEF ScannerNext, ScannerDrained, ScannerExit
  <2>5. CASE ScannerPanic(w)
    BY <2>5 DEF ScannerPanic
  <2> QED BY <2>1, <2>2, <2>3, <2>4, <2>5 DEF ScannerStep
<1>3. CASE \E w \in Overlappers : OverlapStep(w)
  <2> PICK w \in Overlappers : OverlapStep(w)
    BY <1>3
  <2>1. CASE OverlapRecv(w)
    BY <2>1 DEF OverlapRecv
  <2>2. CASE OverlapSendResult(w)
    BY <2>2 DEF OverlapSendResult
  <2>3. CASE OverlapSendDetect(w)
    BY <2>3 DEF OverlapSendDetect
  <2>4. CASE OverlapChunkDone(w) \/ OverlapPanic(w)
    BY <2>4 DEF OverlapChunkDone, OverlapPanic
  <2>5. CASE OverlapDecided(w) \/ OverlapDrained(w) \/ OverlapExit(w)
    BY <2>5 DEF OverlapDecided, OverlapDrained, OverlapExit
  <2> QED BY <2>1, <2>2, <2>3, <2>4, <2>5 DEF OverlapStep
<1>4. CASE \E w \in DetectWorkers : DetectStep(w) \/ DetectPanic(w)
  BY <1>4 DEF DetectStep, DetectRecv, DetectSendResult, DetectDone,
     DetectDrained, DetectPanic
<1>5. CASE \E w \in Notifiers : NotifyStep(w) \/ NotifyPanic(w)
  BY <1>5 DEF NotifyStep, NotifyRecv, NotifyFilter, NotifyDrop, NotifyKeep,
     NotifyDispatch, NotifyPanic, NotifyDrained
<1>6. CASE FinishStep
  BY <1>6 DEF FinishStep, FinishSources, FinishScanners, FinishOverlap,
              FinishDetect, FinishNotify
<1>7. CASE UNCHANGED vars
  BY <1>7 DEF vars
<1> QED
  BY <1>1, <1>2, <1>3, <1>4, <1>5, <1>6, <1>7 DEF Next, Returned

(***************************************************************************)
(* Only what a chunk taken from the sources may give rise to is under way. *)
(***************************************************************************)

(* The results that are dropped by the filters, or whose key some schedule *)
(* reports for an accepted chunk.                                          *)
PossibleResults == {r \in Results : r \in Filtered \/ KeyOf[r] \in Promise!Possible}

GoodDetect(p, d) == Detected[<<p, d>>] \subseteq PossibleResults

GoodOutcome(p, out) ==
    /\ out.reports \subseteq PossibleResults
    /\ \A d \in out.redetect : GoodDetect(p, d)

GoodOverlap(p) == \A out \in OverlapOutcomes[p] : GoodOutcome(p, out)

GoodSend(s) ==
    IF s.kind = "overlap" THEN GoodOverlap(s.piece) ELSE GoodDetect(s.piece, s.det)

ChunksAccepted == InChan(chunksChan) \subseteq Chunks \ unsent
SendsPossible == \A w \in Scanners : \A s \in stodo[w] : GoodSend(s)
OverlapsPossible == \A m \in InChan(overlapChan) : GoodOverlap(m.piece)
OutcomesPossible ==
    \A w \in Overlappers :
        /\ oreports[w] \subseteq PossibleResults
        /\ \A d \in oredetect[w] : GoodDetect(ojob[w].piece, d)
DetectsPossible == \A m \in InChan(detectChan) : GoodDetect(m.piece, m.det)
OutputsPossible == \A w \in DetectWorkers : dout[w] \subseteq PossibleResults
ResultsPossible == InChan(resultsChan) \subseteq PossibleResults
NotesPossible ==
    \A w \in Notifiers :
        /\ npc[w] \in {"check", "dispatch"} => nres[w] \in PossibleResults
        /\ npc[w] = "dispatch" => nres[w] \notin Filtered

OnlyPossible ==
    /\ ChunksAccepted /\ SendsPossible
    /\ OverlapsPossible /\ OutcomesPossible
    /\ DetectsPossible /\ OutputsPossible
    /\ ResultsPossible /\ NotesPossible

(* What a schedule makes of a piece, as results.                           *)
LEMMA ShownByRun ==
    ASSUME NEW p \in Pieces, NEW out \in OverlapOutcomes[p], NEW k
    PROVE  k \in ShownKeys(out.reports \cup DetectedBy(p, out.redetect)) <=>
              \/ \E r \in out.reports : r \notin Filtered /\ KeyOf[r] = k
              \/ \E d \in out.redetect : \E r \in Detected[<<p, d>>] :
                    r \notin Filtered /\ KeyOf[r] = k
BY DEF ShownKeys, DetectedBy

LEMMA ShownByDetectors ==
    ASSUME NEW p \in Pieces, NEW D, NEW k
    PROVE  k \in ShownKeys(DetectedBy(p, D)) <=>
              \E d \in D : \E r \in Detected[<<p, d>>] :
                  r \notin Filtered /\ KeyOf[r] = k
BY DEF ShownKeys, DetectedBy

LEMMA RunIsPossible ==
    ASSUME NEW c \in Chunks \ unsent, NEW p \in PiecesOf[c],
           NEW run \in PieceRuns(p), NEW k \in run
    PROVE  k \in Promise!Possible
<1>1. k \in MayReport[c]
  BY DEF MayReport
<1> QED BY <1>1 DEF Promise!Possible

(* Every send a chunk is routed to stands for possible results.            *)
LEMMA RouteIsPossible ==
    ASSUME NEW c \in Chunks \ unsent, NEW s \in Route(c)
    PROVE  GoodSend(s)
<1>1. /\ s.piece \in PiecesOf[c] /\ s.piece \in Pieces
      /\ PiecesOf[c] \subseteq Pieces
  BY DataAssumption DEF Route
<1>2. CASE s.kind = "overlap"
  <2>1. Overlaps(s.piece)
    BY <1>2 DEF Route
  <2>2. ASSUME NEW out \in OverlapOutcomes[s.piece]
        PROVE  GoodOutcome(s.piece, out)
    <3> DEFINE run == ShownKeys(out.reports \cup DetectedBy(s.piece, out.redetect))
    <3>1. run \in PieceRuns(s.piece)
      BY <2>1 DEF PieceRuns
    <3>2. \A k \in run : k \in Promise!Possible
      BY <1>1, <3>1, RunIsPossible
    <3>3. out.reports \subseteq Results /\ out.redetect \subseteq Dets
      BY <1>1, DataAssumption DEF OverlapOutcome
    <3>4. \A r \in out.reports : r \notin Filtered => KeyOf[r] \in run
      BY <1>1, ShownByRun
    <3>5. \A d \in out.redetect : \A r \in Detected[<<s.piece, d>>] :
              r \notin Filtered => KeyOf[r] \in run
      BY <1>1, ShownByRun
    <3>6. \A d \in out.redetect : Detected[<<s.piece, d>>] \subseteq Results
      BY <1>1, <3>3, DataAssumption
    <3> HIDE DEF run
    <3> QED BY <3>2, <3>3, <3>4, <3>5, <3>6
            DEF GoodOutcome, GoodDetect, PossibleResults
  <2> QED BY <1>2, <2>2 DEF GoodSend, GoodOverlap
<1>3. CASE s.kind # "overlap"
  <2>1. ~Overlaps(s.piece) /\ s.det \in Matching[s.piece] /\ s.det \in Dets
    BY <1>3 DEF Route
  <2> DEFINE run == ShownKeys(DetectedBy(s.piece, Matching[s.piece]))
  <2>2. run \in PieceRuns(s.piece)
    BY <2>1 DEF PieceRuns
  <2>3. \A k \in run : k \in Promise!Possible
    BY <1>1, <2>2, RunIsPossible
  <2>4. \A r \in Detected[<<s.piece, s.det>>] : r \notin Filtered => KeyOf[r] \in run
    BY <1>1, <2>1, ShownByDetectors
  <2>5. Detected[<<s.piece, s.det>>] \subseteq Results
    BY <1>1, <2>1, DataAssumption
  <2> HIDE DEF run
  <2> QED BY <1>3, <2>3, <2>4, <2>5 DEF GoodSend, GoodDetect, PossibleResults
<1> QED BY <1>2, <1>3

(* What is possible stays possible: no chunk is taken back.                *)
LEMMA PossibleGrows ==
    ASSUME [Next]_vars
    PROVE  /\ (Chunks \ unsent) \subseteq (Chunks \ unsent)'
           /\ PossibleResults \subseteq PossibleResults'
           /\ \A p, d : GoodDetect(p, d) => GoodDetect(p, d)'
           /\ \A p : GoodOverlap(p) => GoodOverlap(p)'
           /\ \A s : GoodSend(s) => GoodSend(s)'
<1>1. unsent' \subseteq unsent
  <2>1. ASSUME NEW c \in Chunks, SourceSend(c) PROVE unsent' \subseteq unsent
    BY <2>1 DEF SourceSend
  <2> QED BY <2>1, WhoTouches
<1>2. Promise!Possible \subseteq Promise!Possible'
  BY <1>1 DEF Promise!Possible
<1>3. PossibleResults \subseteq PossibleResults'
  BY <1>2 DEF PossibleResults
<1>4. \A p, d : GoodDetect(p, d) => GoodDetect(p, d)'
  BY <1>3 DEF GoodDetect
<1>5. \A p, out : GoodOutcome(p, out) => GoodOutcome(p, out)'
  BY <1>3, <1>4 DEF GoodOutcome
<1>6. \A p : GoodOverlap(p) => GoodOverlap(p)'
  BY <1>5 DEF GoodOverlap
<1>7. \A s : GoodSend(s) => GoodSend(s)'
  BY <1>4, <1>6 DEF GoodSend
<1> QED BY <1>1, <1>3, <1>4, <1>6, <1>7

LEMMA OnlyPossibleStep ==
    ASSUME TypeOK, Hands, OnlyPossible, [Next]_vars
    PROVE  OnlyPossible'
<1>0. /\ chunksChan \in Seq(Chunks) /\ overlapChan \in Seq(OverlapMsg)
      /\ detectChan \in Seq(DetectMsg) /\ resultsChan \in Seq(Results)
  BY DEF TypeOK
<1>1. ChunksAccepted'
  <2>1. ASSUME UNCHANGED chunksChan PROVE ChunksAccepted'
    BY <2>1, PossibleGrows DEF OnlyPossible, ChunksAccepted
  <2>2. ASSUME NEW c \in Chunks, SourceSend(c) PROVE ChunksAccepted'
    <3>1. InChan(chunksChan') = InChan(chunksChan) \cup {c}
      BY <1>0, <2>2, InAppend DEF SourceSend
    <3>2. c \in (Chunks \ unsent)'
      BY <2>2 DEF SourceSend
    <3> QED BY <3>1, <3>2, PossibleGrows DEF OnlyPossible, ChunksAccepted
  <2>3. ASSUME NEW w \in Scanners, ScannerRecv(w) PROVE ChunksAccepted'
    <3>1. InChan(chunksChan') \subseteq InChan(chunksChan)
      BY <1>0, <2>3, InTail DEF ScannerRecv
    <3> QED BY <3>1, PossibleGrows DEF OnlyPossible, ChunksAccepted
  <2> QED BY <2>1, <2>2, <2>3, WhoTouches
<1>2. SendsPossible'
  <2>1. ASSUME UNCHANGED stodo PROVE SendsPossible'
    BY <2>1, PossibleGrows DEF OnlyPossible, SendsPossible
  <2>2. ASSUME NEW w \in Scanners, ScannerRecv(w) PROVE SendsPossible'
    <3> DEFINE c == Head(chunksChan)
    <3>1. c \in Chunks \ unsent
      BY <1>0, <2>2, InTail DEF ScannerRecv, OnlyPossible, ChunksAccepted
    <3>2. \A s \in Route(c) : GoodSend(s)
      BY <3>1, RouteIsPossible
    <3>3. stodo' = [stodo EXCEPT ![w] = Route(c)]
      BY <2>2 DEF ScannerRecv
    <3> HIDE DEF c
    <3> QED BY <3>2, <3>3, PossibleGrows DEF OnlyPossible, SendsPossible, TypeOK
  <2>3. ASSUME NEW w \in Scanners,
               \/ ScannerSendOverlap(w) \/ ScannerSendDetect(w) \/ ScannerPanic(w)
        PROVE  SendsPossible'
    <3>1. \A v \in Scanners : stodo'[v] \subseteq stodo[v]
      <4>1. DOMAIN stodo = Scanners
        BY DEF TypeOK
      <4>2. \/ \E s : stodo' = [stodo EXCEPT ![w] = @ \ {s}]
            \/ stodo' = [stodo EXCEPT ![w] = {}]
        BY <2>3 DEF ScannerSendOverlap, ScannerSendDetect, ScannerPanic
      <4> QED BY <4>1, <4>2
    <3> QED BY <3>1, PossibleGrows DEF OnlyPossible, SendsPossible
  <2> QED BY <2>1, <2>2, <2>3, WhoTouches
<1>3. OverlapsPossible'
  <2>1. ASSUME InChan(overlapChan') \subseteq InChan(overlapChan)
        PROVE  OverlapsPossible'
    BY <2>1, PossibleGrows DEF OnlyPossible, OverlapsPossible
  <2>2. ASSUME NEW w \in Scanners, ScannerSendOverlap(w) PROVE OverlapsPossible'
    <3>1. PICK s \in stodo[w] :
              /\ s.kind = "overlap"
              /\ overlapChan' = Append(overlapChan, [piece |-> s.piece, owner |-> w])
      BY <2>2 DEF ScannerSendOverlap
    <3> DEFINE m == [piece |-> s.piece, owner |-> w]
    <3>2. m \in OverlapMsg /\ m.piece = s.piece
      BY <3>1 DEF TypeOK, Send, OverlapMsg
    <3>3. GoodOverlap(s.piece)
      BY <3>1 DEF OnlyPossible, SendsPossible, GoodSend
    <3> HIDE DEF m
    <3>4. InChan(overlapChan') = InChan(overlapChan) \cup {m}
      BY <1>0, <3>1, <3>2, InAppend DEF m
    <3> QED BY <3>2, <3>3, <3>4, PossibleGrows DEF OnlyPossible, OverlapsPossible
  <2>3. ASSUME NEW w \in Overlappers, OverlapRecv(w) PROVE OverlapsPossible'
    BY <1>0, <2>1, <2>3, InTail DEF OverlapRecv
  <2> QED BY <2>1, <2>2, <2>3, WhoTouches
<1>4. OutcomesPossible'
  <2>1. ASSUME UNCHANGED <<ojob, oreports, oredetect>> PROVE OutcomesPossible'
    BY <2>1, PossibleGrows DEF OnlyPossible, OutcomesPossible
  <2>2. ASSUME NEW w \in Overlappers, OverlapRecv(w) PROVE OutcomesPossible'
    <3> DEFINE m == Head(overlapChan)
    <3>1. GoodOverlap(m.piece)
      BY <1>0, <2>2, InTail DEF OverlapRecv, OnlyPossible, OverlapsPossible
    <3>2. PICK out \in OverlapOutcomes[m.piece] :
              /\ oreports' = [oreports EXCEPT ![w] = out.reports]
              /\ oredetect' = [oredetect EXCEPT ![w] = out.redetect]
      BY <2>2 DEF OverlapRecv
    <3>3. GoodOutcome(m.piece, out)
      BY <3>1 DEF GoodOverlap
    <3>4. ojob' = [ojob EXCEPT ![w] = m]
      BY <2>2 DEF OverlapRecv
    <3> HIDE DEF m
    <3> QED BY <3>2, <3>3, <3>4, PossibleGrows
            DEF OnlyPossible, OutcomesPossible, GoodOutcome, TypeOK
  <2>3. ASSUME NEW w \in Overlappers,
               OverlapSendResult(w) \/ OverlapSendDetect(w)
        PROVE  OutcomesPossible'
    <3>1. /\ \A v \in Overlappers : /\ oreports'[v] \subseteq oreports[v]
                                    /\ oredetect'[v] \subseteq oredetect[v]
          /\ UNCHANGED ojob
      <4>1. DOMAIN oreports = Overlappers /\ DOMAIN oredetect = Overlappers
        BY DEF TypeOK
      <4>2. ASSUME NEW v \in Overlappers
            PROVE  oreports'[v] \subseteq oreports[v] /\ oredetect'[v] \subseteq oredetect[v]
        <5>1. CASE OverlapSendResult(w)
          <6>1. PICK r : oreports' = [oreports EXCEPT ![w] = @ \ {r}]
            BY <5>1 DEF OverlapSendResult
          <6>2. oredetect' = oredetect
            BY <5>1 DEF OverlapSendResult
          <6> QED BY <4>1, <6>1, <6>2
        <5>2. CASE OverlapSendDetect(w)
          <6>1. PICK d : oredetect' = [oredetect EXCEPT ![w] = @ \ {d}]
            BY <5>2 DEF OverlapSendDetect
          <6>2. oreports' = oreports
            BY <5>2 DEF OverlapSendDetect
          <6> QED BY <4>1, <6>1, <6>2
        <5> QED BY <2>3, <5>1, <5>2
      <4>3. UNCHANGED ojob
        BY <2>3 DEF OverlapSendResult, OverlapSendDetect
      <4> QED BY <4>2, <4>3
    <3> QED BY <3>1, PossibleGrows DEF OnlyPossible, OutcomesPossible
  <2>4. ASSUME NEW w \in Overlappers, OverlapChunkDone(w) \/ OverlapPanic(w)
        PROVE  OutcomesPossible'
    <3>1. /\ UNCHANGED oreports
          /\ \A v \in Overlappers :
                \/ oredetect'[v] = {}
                \/ oredetect'[v] = oredetect[v] /\ ojob'[v] = ojob[v]
      BY <2>4 DEF OverlapChunkDone, OverlapPanic, TypeOK
    <3> QED BY <3>1, PossibleGrows DEF OnlyPossible, OutcomesPossible
  <2> QED BY <2>1, <2>2, <2>3, <2>4, WhoTouches
<1>5. DetectsPossible'
  <2>1. ASSUME InChan(detectChan') \subseteq InChan(detectChan)
        PROVE  DetectsPossible'
    BY <2>1, PossibleGrows DEF OnlyPossible, DetectsPossible
  <2>2. ASSUME NEW m \in DetectMsg, detectChan' = Append(detectChan, m),
               GoodDetect(m.piece, m.det)
        PROVE  DetectsPossible'
    <3>1. InChan(detectChan') = InChan(detectChan) \cup {m}
      BY <1>0, <2>2, InAppend
    <3> QED BY <2>2, <3>1, PossibleGrows DEF OnlyPossible, DetectsPossible
  <2>3. ASSUME NEW w \in Scanners, ScannerSendDetect(w) PROVE DetectsPossible'
    <3>1. PICK s \in stodo[w] :
              /\ s.kind = "detect"
              /\ detectChan' = Append(detectChan,
                                  [piece |-> s.piece, det |-> s.det, owner |-> w])
      BY <2>3 DEF ScannerSendDetect
    <3>2. [piece |-> s.piece, det |-> s.det, owner |-> w] \in DetectMsg
      BY <3>1 DEF TypeOK, Send, DetectMsg, Producers
    <3>3. GoodDetect(s.piece, s.det)
      BY <3>1 DEF OnlyPossible, SendsPossible, GoodSend
    <3> QED BY <2>2, <3>1, <3>2, <3>3
  <2>4. ASSUME NEW w \in Overlappers, OverlapSendDetect(w) PROVE DetectsPossible'
    <3>1. PICK d \in oredetect[w] :
              detectChan' = Append(detectChan,
                                [piece |-> ojob[w].piece, det |-> d, owner |-> w])
      BY <2>4 DEF OverlapSendDetect
    <3>2. ojob[w] \in OverlapMsg
      BY <2>4 DEF OverlapSendDetect, Hands
    <3>3. [piece |-> ojob[w].piece, det |-> d, owner |-> w] \in DetectMsg
      BY <3>1, <3>2 DEF TypeOK, OverlapMsg, DetectMsg, Producers
    <3>4. GoodDetect(ojob[w].piece, d)
      BY <3>1 DEF OnlyPossible, OutcomesPossible
    <3> QED BY <2>2, <3>1, <3>3, <3>4
  <2>5. ASSUME NEW w \in DetectWorkers, DetectRecv(w) PROVE DetectsPossible'
    BY <1>0, <2>1, <2>5, InTail DEF DetectRecv
  <2> QED BY <2>1, <2>3, <2>4, <2>5, WhoTouches
<1>6. OutputsPossible'
  <2>1. ASSUME UNCHANGED dout PROVE OutputsPossible'
    BY <2>1, PossibleGrows DEF OnlyPossible, OutputsPossible
  <2>2. ASSUME NEW w \in DetectWorkers, DetectRecv(w) PROVE OutputsPossible'
    <3> DEFINE m == Head(detectChan)
    <3>1. Detected[<<m.piece, m.det>>] \subseteq PossibleResults
      BY <1>0, <2>2, InTail DEF DetectRecv, OnlyPossible, DetectsPossible, GoodDetect
    <3>2. dout' = [dout EXCEPT ![w] = Detected[<<m.piece, m.det>>]]
      BY <2>2 DEF DetectRecv
    <3> HIDE DEF m
    <3> QED BY <3>1, <3>2, PossibleGrows DEF OnlyPossible, OutputsPossible, TypeOK
  <2>3. ASSUME NEW w \in DetectWorkers, DetectSendResult(w) \/ DetectPanic(w)
        PROVE  OutputsPossible'
    <3>1. \A v \in DetectWorkers : dout'[v] \subseteq dout[v]
      <4>1. DOMAIN dout = DetectWorkers
        BY DEF TypeOK
      <4>2. \/ \E r : dout' = [dout EXCEPT ![w] = @ \ {r}]
            \/ dout' = [dout EXCEPT ![w] = {}]
        BY <2>3 DEF DetectSendResult, DetectPanic
      <4> QED BY <4>1, <4>2
    <3> QED BY <3>1, PossibleGrows DEF OnlyPossible, OutputsPossible
  <2> QED BY <2>1, <2>2, <2>3, WhoTouches
<1>7. ResultsPossible'
  <2>1. ASSUME InChan(resultsChan') \subseteq InChan(resultsChan)
        PROVE  ResultsPossible'
    BY <2>1, PossibleGrows DEF OnlyPossible, ResultsPossible
  <2>2. ASSUME NEW r \in PossibleResults, resultsChan' = Append(resultsChan, r)
        PROVE  ResultsPossible'
    <3>1. InChan(resultsChan') = InChan(resultsChan) \cup {r}
      BY <1>0, <2>2, InAppend DEF PossibleResults
    <3> QED BY <3>1, PossibleGrows DEF OnlyPossible, ResultsPossible
  <2>3. ASSUME NEW w \in Overlappers, OverlapSendResult(w) PROVE ResultsPossible'
    BY <2>2, <2>3 DEF OverlapSendResult, OnlyPossible, OutcomesPossible
  <2>4. ASSUME NEW w \in DetectWorkers, DetectSendResult(w) PROVE ResultsPossible'
    BY <2>2, <2>4 DEF DetectSendResult, OnlyPossible, OutputsPossible
  <2>5. ASSUME NEW w \in Notifiers, NotifyRecv(w) PROVE ResultsPossible'
    BY <1>0, <2>1, <2>5, InTail DEF NotifyRecv
  <2> QED BY <2>1, <2>3, <2>4, <2>5, WhoTouches
<1>8. NotesPossible'
  <2>1. ASSUME UNCHANGED notifyVars PROVE NotesPossible'
    BY <2>1, PossibleGrows DEF OnlyPossible, NotesPossible, notifyVars
  <2>2. ASSUME NEW w \in Notifiers, NotifyRecv(w) PROVE NotesPossible'
    <3>1. Head(resultsChan) \in PossibleResults
      BY <1>0, <2>2, InTail DEF NotifyRecv, OnlyPossible, ResultsPossible
    <3> QED BY <2>2, <3>1, PossibleGrows
            DEF NotifyRecv, OnlyPossible, NotesPossible, TypeOK
  <2>3. ASSUME NEW w \in Notifiers, NotifyKeep(w) PROVE NotesPossible'
    BY <2>3, PossibleGrows DEF NotifyKeep, OnlyPossible, NotesPossible, TypeOK
  <2>4. ASSUME NEW w \in Notifiers,
               \/ NotifyFilter(w) \/ NotifyDrop(w) \/ NotifyDispatch(w)
               \/ NotifyPanic(w) \/ NotifyDrained(w)
        PROVE  NotesPossible'
    <3>1. \A v \in Notifiers :
              npc'[v] \in {"check", "dispatch"} => npc'[v] = npc[v] /\ nres'[v] = nres[v]
      BY <2>4 DEF NotifyFilter, NotifyDrop, NotifyDispatch, NotifyPanic,
                  NotifyDrained, TypeOK
    <3> QED BY <3>1, PossibleGrows DEF OnlyPossible, NotesPossible
  <2>5. ASSUME NEW w \in Notifiers, NotifyStep(w) \/ NotifyPanic(w)
        PROVE  NotesPossible'
    BY <2>5, <2>2, <2>3, <2>4 DEF NotifyStep
  <2> QED BY <2>1, <2>5, OnlyNotifiersNotify
<1> QED
  BY <1>1, <1>2, <1>3, <1>4, <1>5, <1>6, <1>7, <1>8 DEF OnlyPossible

-----------------------------------------------------------------------------
(***************************************************************************)
(* Every key owed for a chunk is on its way until it is handled.           *)
(***************************************************************************)

(* No goroutine of the pipeline panics.                                    *)
NoPanics == NoWorkerDies /\ DetectPanics = {}

Shows(r, k) == r \notin Filtered /\ KeyOf[r] = k

DetectShows(p, d, k) == \E r \in Detected[<<p, d>>] : Shows(r, k)

OutcomeShows(p, out, k) ==
    \/ \E r \in out.reports : Shows(r, k)
    \/ \E d \in out.redetect : DetectShows(p, d, k)

OverlapShows(p, k) == \A out \in OverlapOutcomes[p] : OutcomeShows(p, out, k)

SendShows(s, k) ==
    \/ s.kind = "overlap" /\ OverlapShows(s.piece, k)
    \/ s.kind = "detect" /\ DetectShows(s.piece, s.det, k)

(* The places where a key can be on its way, in the order it takes them.   *)
InChunks(k) == \E c \in InChan(chunksChan) : k \in MustReport[c]
InSends(k) == \E w \in Scanners : \E s \in stodo[w] : SendShows(s, k)
InOverlapChan(k) == \E m \in InChan(overlapChan) : OverlapShows(m.piece, k)
InOverlap(k) ==
    \E w \in Overlappers :
        \/ \E r \in oreports[w] : Shows(r, k)
        \/ \E d \in oredetect[w] : DetectShows(ojob[w].piece, d, k)
InDetectChan(k) == \E m \in InChan(detectChan) : DetectShows(m.piece, m.det, k)
InDetect(k) == \E w \in DetectWorkers : \E r \in dout[w] : Shows(r, k)
InResults(k) == \E r \in InChan(resultsChan) : Shows(r, k)
InNotify(k) ==
    \E w \in Notifiers : npc[w] \in {"check", "dispatch"} /\ Shows(nres[w], k)

Handled(k) == \E r \in Dispatched \cup failed : KeyOf[r] = k

Coming(k) ==
    \/ InChunks(k) \/ InSends(k) \/ InOverlapChan(k) \/ InOverlap(k)
    \/ InDetectChan(k) \/ InDetect(k) \/ InResults(k) \/ InNotify(k)

Owing == \A k \in Promise!Owed : Handled(k) \/ Coming(k)

(* A key in the dedupe cache was handled, or a worker is about to.         *)
CacheIsBacked ==
    \A k \in InChan(dedupeCache) :
        \/ Handled(k)
        \/ \E w \in Notifiers : npc[w] = "dispatch" /\ Shows(nres[w], k)

(* Whatever a chunk owes, one of the sends it is routed to stands for it.  *)
LEMMA RouteShows ==
    ASSUME NEW c \in Chunks, NEW k \in MustReport[c]
    PROVE  \E s \in Route(c) : SendShows(s, k)
<1>1. PICK p \in PiecesOf[c] : \A run \in PieceRuns(p) : k \in run
  BY DEF MustReport
<1>2. p \in Pieces
  BY DataAssumption
<1>3. CASE Overlaps(p)
  <2> DEFINE s == [kind |-> "overlap", piece |-> p]
  <2>1. s \in Route(c)
    BY <1>3 DEF Route
  <2>2. ASSUME NEW out \in OverlapOutcomes[p] PROVE OutcomeShows(p, out, k)
    <3>1. ShownKeys(out.reports \cup DetectedBy(p, out.redetect)) \in PieceRuns(p)
      BY <1>3 DEF PieceRuns
    <3>2. k \in ShownKeys(out.reports \cup DetectedBy(p, out.redetect))
      BY <1>1, <3>1
    <3> QED BY <1>2, <3>2, ShownByRun DEF OutcomeShows, DetectShows, Shows
  <2>3. SendShows(s, k)
    BY <2>2 DEF SendShows, OverlapShows
  <2> QED BY <2>1, <2>3
<1>4. CASE ~Overlaps(p)
  <2>1. ShownKeys(DetectedBy(p, Matching[p])) \in PieceRuns(p)
    BY <1>4 DEF PieceRuns
  <2>2. k \in ShownKeys(DetectedBy(p, Matching[p]))
    BY <1>1, <2>1
  <2>3. PICK d \in Matching[p] : DetectShows(p, d, k)
    BY <1>2, <2>2, ShownByDetectors DEF DetectShows, Shows
  <2> DEFINE s == [kind |-> "detect", piece |-> p, det |-> d]
  <2>4. d \in Dets
    BY <1>2, <2>3, DataAssumption
  <2>5. s \in Route(c)
    BY <1>4, <2>3, <2>4 DEF Route
  <2>6. SendShows(s, k)
    BY <2>3 DEF SendShows
  <2> QED BY <2>5, <2>6
<1> QED BY <1>3, <1>4

(* What was handed to the dispatcher stays handed.                         *)
LEMMA HandledStays ==
    ASSUME TypeOK, Hands, [Next]_vars, NEW k, Handled(k)
    PROVE  Handled(k)'
<1>1. ASSUME UNCHANGED <<dispatches, failed>> PROVE Handled(k)'
  BY <1>1 DEF Handled, Dispatched
<1>2. ASSUME NEW w \in Notifiers, NotifyDispatch(w) PROVE Handled(k)'
  <2>1. nres[w] \in Results
    BY <1>2 DEF NotifyDispatch, Hands
  <2>a. dispatches \in [Results -> Nat]
    BY DEF TypeOK
  <2>b. /\ failed \subseteq failed'
        /\ \A r \in Results : dispatches'[r] = dispatches[r] \/
                              dispatches'[r] = dispatches[r] + 1
    BY <1>2, <2>1, <2>a DEF NotifyDispatch
  <2>c. \A r \in Results : dispatches[r] > 0 => dispatches'[r] > 0
    BY <2>a, <2>b
  <2>2. (Dispatched \cup failed) \subseteq (Dispatched \cup failed)'
    BY <2>b, <2>c DEF Dispatched
  <2> QED BY <2>2 DEF Handled
<1>3. ASSUME NEW w \in Notifiers, NotifyStep(w) \/ NotifyPanic(w)
      PROVE  NotifyDispatch(w) \/ UNCHANGED <<dispatches, failed>>
  BY <1>3 DEF NotifyStep, NotifyRecv, NotifyFilter, NotifyDrop, NotifyKeep,
     NotifyPanic, NotifyDrained
<1> QED BY <1>1, <1>2, <1>3, OnlyNotifiersNotify DEF notifyVars

(* A worker hands its result to the dispatcher.                            *)
LEMMA DispatchHandles ==
    ASSUME TypeOK, Hands, NEW w \in Notifiers, NotifyDispatch(w),
           NEW k, KeyOf[nres[w]] = k
    PROVE  Handled(k)'
<1>1. nres[w] \in Results
  BY DEF NotifyDispatch, Hands
<1>2. nres[w] \in (Dispatched \cup failed)'
  BY <1>1 DEF NotifyDispatch, Dispatched, TypeOK
<1>3. \E r \in (Dispatched \cup failed)' : KeyOf[r] = k
  BY <1>2
<1> QED BY <1>3 DEF Handled

LEMMA CacheIsBackedStep ==
    ASSUME DispatchPanics = {}, TypeOK, Hands, CacheIsBacked, [Next]_vars
    PROVE  CacheIsBacked'
<1> DEFINE AboutTo(k) ==
      \E w \in Notifiers : npc[w] = "dispatch" /\ Shows(nres[w], k)
<1>0. dedupeCache \in Seq(Keys)
  BY DEF TypeOK
<1>1. ASSUME UNCHANGED notifyVars PROVE CacheIsBacked'
  BY <1>1, HandledStays DEF CacheIsBacked, notifyVars
<1>2. ASSUME NEW w \in Notifiers,
             \/ NotifyRecv(w) \/ NotifyFilter(w) \/ NotifyDrop(w) \/ NotifyDrained(w)
      PROVE  CacheIsBacked'
  <2>1. /\ UNCHANGED dedupeCache
        /\ \A v \in Notifiers : npc[v] = "dispatch" =>
               npc'[v] = "dispatch" /\ nres'[v] = nres[v]
    BY <1>2 DEF NotifyRecv, NotifyFilter, NotifyDrop, NotifyDrained, TypeOK
  <2>2. \A k : AboutTo(k) => AboutTo(k)'
    BY <2>1
  <2> QED BY <2>1, <2>2, HandledStays DEF CacheIsBacked
<1>3. ASSUME NEW w \in Notifiers, NotifyKeep(w) PROVE CacheIsBacked'
  <2> DEFINE key == KeyOf[nres[w]]
  <2>1. /\ nres[w] \in Results /\ nres[w] \notin Filtered /\ key \in Keys
        /\ UNCHANGED nres /\ npc' = [npc EXCEPT ![w] = "dispatch"]
    BY <1>3, DataAssumption DEF NotifyKeep, Hands
  <2>2. InChan(dedupeCache') \subseteq InChan(dedupeCache) \cup {key}
    <3>1. CASE ~Dedupes(nres[w])
      BY <1>3, <3>1 DEF NotifyKeep
    <3>2. CASE Dedupes(nres[w]) /\ Len(dedupeCache) < DedupeSize
      <4>1. dedupeCache' = Append(dedupeCache, key)
        BY <1>3, <3>2 DEF NotifyKeep, CacheAdd
      <4> QED BY <1>0, <2>1, <4>1, InAppend
    <3>3. CASE Dedupes(nres[w]) /\ ~(Len(dedupeCache) < DedupeSize)
      <4>1. dedupeCache # <<>>
        BY <3>3, CapacityAssumption DEF Dedupes
      <4> DEFINE t == Tail(dedupeCache)
      <4>2. dedupeCache' = Append(t, key)
        BY <1>3, <3>3 DEF NotifyKeep, CacheAdd
      <4>3. t \in Seq(Keys)
        BY <1>0, <4>1, TailType
      <4>4. InChan(t) \subseteq InChan(dedupeCache)
        BY <1>0, <4>1, InTail
      <4>5. key \in Keys
        BY <2>1
      <4> HIDE DEF t, key
      <4>6. InChan(Append(t, key)) = InChan(t) \cup {key}
        BY <4>3, <4>5, InAppend
      <4> QED BY <4>2, <4>4, <4>6
    <3> QED BY <3>1, <3>2, <3>3
  <2>3. \A k : AboutTo(k) => AboutTo(k)'
    BY <2>1 DEF TypeOK
  <2>4. ASSUME NEW k, k = key PROVE AboutTo(k)'
    <3>1. npc'[w] = "dispatch" /\ Shows(nres'[w], k)
      BY <2>1, <2>4 DEF Shows, TypeOK
    <3> QED BY <3>1
  <2>5. ASSUME NEW k \in InChan(dedupeCache') PROVE Handled(k)' \/ AboutTo(k)'
    <3>1. CASE k = key
      BY <2>4, <3>1
    <3>2. CASE k \in InChan(dedupeCache)
      BY <2>3, <3>2, HandledStays DEF CacheIsBacked
    <3> QED BY <2>2, <3>1, <3>2
  <2> QED BY <2>5 DEF CacheIsBacked
<1>4. ASSUME NEW w \in Notifiers, NotifyDispatch(w) PROVE CacheIsBacked'
  <2>1. /\ UNCHANGED dedupeCache
        /\ \A v \in Notifiers : v # w /\ npc[v] = "dispatch" =>
               npc'[v] = "dispatch" /\ nres'[v] = nres[v]
    BY <1>4 DEF NotifyDispatch, TypeOK
  <2>2. ASSUME NEW k, AboutTo(k) PROVE AboutTo(k)' \/ Handled(k)'
    <3>1. PICK v \in Notifiers : npc[v] = "dispatch" /\ Shows(nres[v], k)
      BY <2>2
    <3>2. CASE v = w
      BY <1>4, <3>1, <3>2, DispatchHandles DEF Shows
    <3>3. CASE v # w
      BY <2>1, <3>1, <3>3
    <3> QED BY <3>2, <3>3
  <2> QED BY <2>1, <2>2, HandledStays DEF CacheIsBacked
<1>5. ASSUME NEW w \in Notifiers, NotifyStep(w) \/ NotifyPanic(w)
      PROVE  CacheIsBacked'
  <2>1. ~NotifyPanic(w)
    BY DEF NotifyPanic
  <2> QED BY <1>5, <2>1, <1>2, <1>3, <1>4 DEF NotifyStep
<1> QED BY <1>1, <1>5, OnlyNotifiersNotify

(* A key leaves the place where it is only for the next one.               *)
LEMMA KeyMovesOn ==
    ASSUME NoPanics, TypeOK, Hands, QuietOverlaps, CacheIsBacked, [Next]_vars,
           NEW k, Coming(k)
    PROVE  Coming(k)' \/ Handled(k)'
<1>0. /\ chunksChan \in Seq(Chunks) /\ overlapChan \in Seq(OverlapMsg)
      /\ detectChan \in Seq(DetectMsg) /\ resultsChan \in Seq(Results)
      /\ dedupeCache \in Seq(Keys)
  BY DEF TypeOK
<1>1. CASE InChunks(k)
  <2>1. PICK c \in InChan(chunksChan) : k \in MustReport[c]
    BY <1>1 DEF InChunks
  <2>2. ASSUME c \in InChan(chunksChan') PROVE InChunks(k)'
    BY <2>1, <2>2 DEF InChunks
  <2>3. ASSUME NEW b \in Chunks, SourceSend(b) PROVE InChunks(k)'
    BY <1>0, <2>1, <2>2, <2>3, InAppend DEF SourceSend
  <2>4. ASSUME NEW w \in Scanners, ScannerRecv(w) PROVE InChunks(k)' \/ InSends(k)'
    <3>1. chunksChan # <<>> /\ chunksChan' = Tail(chunksChan)
            /\ stodo' = [stodo EXCEPT ![w] = Route(Head(chunksChan))]
      BY <2>4 DEF ScannerRecv
    <3>2. CASE c = Head(chunksChan)
      <4>1. c \in Chunks
        BY <1>0, <3>1, <3>2
      <4>2. PICK s \in Route(c) : SendShows(s, k)
        BY <2>1, <4>1, RouteShows
      <4>3. s \in stodo'[w]
        BY <3>1, <3>2, <4>2 DEF TypeOK
      <4> QED BY <4>2, <4>3 DEF InSends
    <3>3. CASE c # Head(chunksChan)
      BY <1>0, <2>1, <2>2, <3>1, <3>3, InTail
    <3> QED BY <3>2, <3>3
  <2>5. CASE UNCHANGED chunksChan
    BY <2>1, <2>2, <2>5 DEF Coming
  <2> QED BY <2>3, <2>4, <2>5, WhoTouches DEF Coming
<1>2. CASE InSends(k)
  <2>0. PICK v \in Scanners : \E s \in stodo[v] : SendShows(s, k)
    BY <1>2 DEF InSends
  <2>1. PICK s \in stodo[v] : SendShows(s, k)
    BY <2>0
  <2>2. ASSUME s \in stodo'[v] PROVE InSends(k)'
    BY <2>1, <2>2 DEF InSends
  <2>3. ASSUME NEW w \in Scanners, ScannerRecv(w) PROVE InSends(k)'
    <3>1. v # w
      BY <2>1, <2>3 DEF ScannerRecv, Hands
    <3> QED BY <2>1, <2>2, <2>3, <3>1 DEF ScannerRecv, TypeOK
  <2>4. ASSUME NEW w \in Scanners, ScannerSendOverlap(w)
        PROVE  InSends(k)' \/ InOverlapChan(k)'
    <3>1. PICK t \in stodo[w] :
              /\ t.kind = "overlap"
              /\ stodo' = [stodo EXCEPT ![w] = @ \ {t}]
              /\ overlapChan' = Append(overlapChan, [piece |-> t.piece, owner |-> w])
      BY <2>4 DEF ScannerSendOverlap
    <3>2. CASE v = w /\ s = t
      <4> DEFINE m == [piece |-> s.piece, owner |-> w]
      <4>1. m \in OverlapMsg /\ m.piece = s.piece
        BY <2>1, <3>1, <3>2 DEF TypeOK, Send, OverlapMsg
      <4>2. OverlapShows(s.piece, k)
        BY <2>1, <3>1, <3>2 DEF SendShows
      <4>3. m \in InChan(overlapChan')
        BY <1>0, <3>1, <3>2, <4>1, InAppend
      <4> QED BY <4>1, <4>2, <4>3 DEF InOverlapChan
    <3>3. CASE ~(v = w /\ s = t)
      BY <2>1, <2>2, <3>1, <3>3 DEF TypeOK
    <3> QED BY <3>2, <3>3
  <2>5. ASSUME NEW w \in Scanners, ScannerSendDetect(w)
        PROVE  InSends(k)' \/ InDetectChan(k)'
    <3>1. PICK t \in stodo[w] :
              /\ t.kind = "detect"
              /\ stodo' = [stodo EXCEPT ![w] = @ \ {t}]
              /\ detectChan' = Append(detectChan,
                                  [piece |-> t.piece, det |-> t.det, owner |-> w])
      BY <2>5 DEF ScannerSendDetect
    <3>2. CASE v = w /\ s = t
      <4> DEFINE m == [piece |-> s.piece, det |-> s.det, owner |-> w]
      <4>1. m \in DetectMsg /\ m.piece = s.piece /\ m.det = s.det
        BY <2>1, <3>1, <3>2 DEF TypeOK, Send, DetectMsg, Producers
      <4>2. DetectShows(s.piece, s.det, k)
        BY <2>1, <3>1, <3>2 DEF SendShows
      <4>3. m \in InChan(detectChan')
        BY <1>0, <3>1, <3>2, <4>1, InAppend
      <4> QED BY <4>1, <4>2, <4>3 DEF InDetectChan
    <3>3. CASE ~(v = w /\ s = t)
      BY <2>1, <2>2, <3>1, <3>3 DEF TypeOK
    <3> QED BY <3>2, <3>3
  <2>6. \A w \in Scanners : ~ScannerPanic(w)
    BY DEF ScannerPanic, NoPanics, NoWorkerDies
  <2>7. CASE UNCHANGED stodo
    BY <2>1, <2>2, <2>7 DEF Coming
  <2> QED BY <2>3, <2>4, <2>5, <2>6, <2>7, WhoTouches DEF Coming
<1>3. CASE InOverlapChan(k)
  <2>1. PICK m \in InChan(overlapChan) : OverlapShows(m.piece, k)
    BY <1>3 DEF InOverlapChan
  <2>2. ASSUME m \in InChan(overlapChan') PROVE InOverlapChan(k)'
    BY <2>1, <2>2 DEF InOverlapChan
  <2>3. ASSUME NEW w \in Scanners, ScannerSendOverlap(w) PROVE InOverlapChan(k)'
    <3>1. PICK s \in stodo[w] :
              /\ s.kind = "overlap"
              /\ overlapChan' = Append(overlapChan, [piece |-> s.piece, owner |-> w])
      BY <2>3 DEF ScannerSendOverlap
    <3>2. [piece |-> s.piece, owner |-> w] \in OverlapMsg
      BY <3>1 DEF TypeOK, Send, OverlapMsg
    <3> QED BY <1>0, <2>1, <2>2, <3>1, <3>2, InAppend
  <2>4. ASSUME NEW w \in Overlappers, OverlapRecv(w)
        PROVE  InOverlapChan(k)' \/ InOverlap(k)'
    <3>1. overlapChan # <<>> /\ overlapChan' = Tail(overlapChan)
      BY <2>4 DEF OverlapRecv
    <3>2. CASE m = Head(overlapChan)
      <4>1. PICK out \in OverlapOutcomes[m.piece] :
                /\ oreports' = [oreports EXCEPT ![w] = out.reports]
                /\ oredetect' = [oredetect EXCEPT ![w] = out.redetect]
        BY <2>4, <3>2 DEF OverlapRecv
      <4>2. ojob' = [ojob EXCEPT ![w] = m]
        BY <2>4, <3>2 DEF OverlapRecv
      <4>3. OutcomeShows(m.piece, out, k)
        BY <2>1, <4>1 DEF OverlapShows
      <4>4. /\ oreports'[w] = out.reports /\ oredetect'[w] = out.redetect
            /\ ojob'[w] = m
        BY <4>1, <4>2 DEF TypeOK
      <4> QED BY <4>3, <4>4 DEF InOverlap, OutcomeShows
    <3>3. CASE m # Head(overlapChan)
      BY <1>0, <2>1, <2>2, <3>1, <3>3, InTail
    <3> QED BY <3>2, <3>3
  <2>5. CASE UNCHANGED overlapChan
    BY <2>1, <2>2, <2>5 DEF Coming
  <2> QED BY <2>3, <2>4, <2>5, WhoTouches DEF Coming
<1>4. CASE InOverlap(k)
  <2>1. PICK v \in Overlappers :
            \/ \E r \in oreports[v] : Shows(r, k)
            \/ \E d \in oredetect[v] : DetectShows(ojob[v].piece, d, k)
    BY <1>4 DEF InOverlap
  <2>2. ASSUME ojob'[v] = ojob[v], oreports'[v] = oreports[v],
               oredetect'[v] = oredetect[v]
        PROVE  InOverlap(k)'
    BY <2>1, <2>2 DEF InOverlap
  <2>3. ASSUME NEW w \in Overlappers, OverlapRecv(w) PROVE InOverlap(k)'
    <3>1. v # w
      BY <2>1, <2>3 DEF OverlapRecv, Hands
    <3> QED BY <2>2, <2>3, <3>1 DEF OverlapRecv, TypeOK
  <2>4. ASSUME NEW w \in Overlappers, OverlapSendResult(w)
        PROVE  InOverlap(k)' \/ InResults(k)'
    <3>1. PICK t \in oreports[w] :
              /\ oreports' = [oreports EXCEPT ![w] = @ \ {t}]
              /\ resultsChan' = Append(resultsChan, t)
      BY <2>4 DEF OverlapSendResult
    <3>2. UNCHANGED <<ojob, oredetect>>
      BY <2>4 DEF OverlapSendResult
    <3>3. CASE Shows(t, k)
      <4>1. t \in InChan(resultsChan')
        BY <1>0, <3>1, InAppend DEF TypeOK
      <4> QED BY <3>3, <4>1 DEF InResults
    <3>4. CASE ~Shows(t, k)
      <4>1. \/ \E r \in oreports'[v] : Shows(r, k)
            \/ \E d \in oredetect'[v] : DetectShows(ojob'[v].piece, d, k)
        BY <2>1, <3>1, <3>2, <3>4 DEF TypeOK
      <4> QED BY <4>1 DEF InOverlap
    <3> QED BY <3>3, <3>4
  <2>5. ASSUME NEW w \in Overlappers, OverlapSendDetect(w)
        PROVE  InOverlap(k)' \/ InDetectChan(k)'
    <3>1. PICK d \in oredetect[w] :
              /\ oredetect' = [oredetect EXCEPT ![w] = @ \ {d}]
              /\ detectChan' = Append(detectChan,
                                [piece |-> ojob[w].piece, det |-> d, owner |-> w])
      BY <2>5 DEF OverlapSendDetect
    <3>2. UNCHANGED <<ojob, oreports>> /\ ojob[w] \in OverlapMsg
      BY <2>5 DEF OverlapSendDetect, Hands
    <3>3. CASE DetectShows(ojob[w].piece, d, k)
      <4> DEFINE m == [piece |-> ojob[w].piece, det |-> d, owner |-> w]
      <4>1. m \in DetectMsg /\ m.piece = ojob[w].piece /\ m.det = d
        BY <3>1, <3>2 DEF TypeOK, OverlapMsg, DetectMsg, Producers
      <4>2. m \in InChan(detectChan')
        BY <1>0, <3>1, <4>1, InAppend
      <4> HIDE DEF m
      <4> QED BY <3>3, <4>1, <4>2 DEF InDetectChan
    <3>4. CASE ~DetectShows(ojob[w].piece, d, k)
      <4>1. \/ \E r \in oreports'[v] : Shows(r, k)
            \/ \E e \in oredetect'[v] : DetectShows(ojob'[v].piece, e, k)
        BY <2>1, <3>1, <3>2, <3>4 DEF TypeOK
      <4> QED BY <4>1 DEF InOverlap
    <3> QED BY <3>3, <3>4
  <2>6. ASSUME NEW w \in Overlappers, OverlapChunkDone(w) PROVE InOverlap(k)'
    <3>1. v # w
      BY <2>1, <2>6 DEF OverlapChunkDone, Hands
    <3> QED BY <2>2, <2>6, <3>1 DEF OverlapChunkDone, TypeOK
  <2>7. \A w \in Overlappers : ~OverlapPanic(w)
    BY DEF OverlapPanic, QuietOverlaps
  <2>8. CASE UNCHANGED <<ojob, oreports, oredetect>>
    BY <2>2, <2>8 DEF Coming
  <2> QED BY <2>3, <2>4, <2>5, <2>6, <2>7, <2>8, WhoTouches DEF Coming
<1>5. CASE InDetectChan(k)
  <2>1. PICK m \in InChan(detectChan) : DetectShows(m.piece, m.det, k)
    BY <1>5 DEF InDetectChan
  <2>2. ASSUME m \in InChan(detectChan') PROVE InDetectChan(k)'
    BY <2>1, <2>2 DEF InDetectChan
  <2>3. ASSUME NEW n \in DetectMsg, detectChan' = Append(detectChan, n)
        PROVE  InDetectChan(k)'
    BY <1>0, <2>1, <2>2, <2>3, InAppend
  <2>4. ASSUME NEW w \in Scanners, ScannerSendDetect(w) PROVE InDetectChan(k)'
    <3>1. PICK s \in stodo[w] :
              /\ s.kind = "detect"
              /\ detectChan' = Append(detectChan,
                                  [piece |-> s.piece, det |-> s.det, owner |-> w])
      BY <2>4 DEF ScannerSendDetect
    <3>2. [piece |-> s.piece, det |-> s.det, owner |-> w] \in DetectMsg
      BY <3>1 DEF TypeOK, Send, DetectMsg, Producers
    <3> QED BY <2>3, <3>1, <3>2
  <2>5. ASSUME NEW w \in Overlappers, OverlapSendDetect(w) PROVE InDetectChan(k)'
    <3>1. PICK d \in oredetect[w] :
              detectChan' = Append(detectChan,
                                [piece |-> ojob[w].piece, det |-> d, owner |-> w])
      BY <2>5 DEF OverlapSendDetect
    <3>2. ojob[w] \in OverlapMsg
      BY <2>5 DEF OverlapSendDetect, Hands
    <3>3. [piece |-> ojob[w].piece, det |-> d, owner |-> w] \in DetectMsg
      BY <3>1, <3>2 DEF TypeOK, OverlapMsg, DetectMsg, Producers
    <3> QED BY <2>3, <3>1, <3>3
  <2>6. ASSUME NEW w \in DetectWorkers, DetectRecv(w)
        PROVE  InDetectChan(k)' \/ InDetect(k)'
    <3>1. detectChan # <<>> /\ detectChan' = Tail(detectChan)
      BY <2>6 DEF DetectRecv
    <3>2. CASE m = Head(detectChan)
      <4>1. dout'[w] = Detected[<<m.piece, m.det>>]
        BY <2>6, <3>2 DEF DetectRecv, TypeOK
      <4> QED BY <2>1, <4>1 DEF InDetect, DetectShows
    <3>3. CASE m # Head(detectChan)
      BY <1>0, <2>1, <2>2, <3>1, <3>3, InTail
    <3> QED BY <3>2, <3>3
  <2>7. CASE UNCHANGED detectChan
    BY <2>1, <2>2, <2>7 DEF Coming
  <2> QED BY <2>4, <2>5, <2>6, <2>7, WhoTouches DEF Coming
<1>6. CASE InDetect(k)
  <2>0. PICK v \in DetectWorkers : \E r \in dout[v] : Shows(r, k)
    BY <1>6 DEF InDetect
  <2>1. PICK r \in dout[v] : Shows(r, k)
    BY <2>0
  <2>2. ASSUME r \in dout'[v] PROVE InDetect(k)'
    BY <2>1, <2>2 DEF InDetect
  <2>3. ASSUME NEW w \in DetectWorkers, DetectRecv(w) PROVE InDetect(k)'
    <3>1. v # w
      BY <2>1, <2>3 DEF DetectRecv, Hands
    <3> QED BY <2>1, <2>2, <2>3, <3>1 DEF DetectRecv, TypeOK
  <2>4. ASSUME NEW w \in DetectWorkers, DetectSendResult(w)
        PROVE  InDetect(k)' \/ InResults(k)'
    <3>1. PICK t \in dout[w] :
              /\ dout' = [dout EXCEPT ![w] = @ \ {t}]
              /\ resultsChan' = Append(resultsChan, t)
      BY <2>4 DEF DetectSendResult
    <3>2. CASE r = t
      <4>1. t \in InChan(resultsChan')
        BY <1>0, <3>1, InAppend DEF TypeOK
      <4> QED BY <2>1, <3>2, <4>1 DEF InResults
    <3>3. CASE r # t
      BY <2>1, <2>2, <3>1, <3>3 DEF TypeOK
    <3> QED BY <3>2, <3>3
  <2>5. \A w \in DetectWorkers : ~DetectPanic(w)
    BY DEF DetectPanic, NoPanics
  <2>6. CASE UNCHANGED dout
    BY <2>1, <2>2, <2>6 DEF Coming
  <2> QED BY <2>3, <2>4, <2>5, <2>6, WhoTouches DEF Coming
<1>7. CASE InResults(k)
  <2>1. PICK r \in InChan(resultsChan) : Shows(r, k)
    BY <1>7 DEF InResults
  <2>2. ASSUME r \in InChan(resultsChan') PROVE InResults(k)'
    BY <2>1, <2>2 DEF InResults
  <2>3. ASSUME NEW t \in Results, resultsChan' = Append(resultsChan, t)
        PROVE  InResults(k)'
    BY <1>0, <2>1, <2>2, <2>3, InAppend
  <2>4. ASSUME NEW w \in Overlappers, OverlapSendResult(w) PROVE InResults(k)'
    BY <2>3, <2>4 DEF OverlapSendResult, TypeOK
  <2>5. ASSUME NEW w \in DetectWorkers, DetectSendResult(w) PROVE InResults(k)'
    BY <2>3, <2>5 DEF DetectSendResult, TypeOK
  <2>6. ASSUME NEW w \in Notifiers, NotifyRecv(w)
        PROVE  InResults(k)' \/ InNotify(k)'
    <3>1. resultsChan # <<>> /\ resultsChan' = Tail(resultsChan)
      BY <2>6 DEF NotifyRecv
    <3>2. CASE r = Head(resultsChan)
      <4>1. npc'[w] = "check" /\ nres'[w] = r
        BY <2>6, <3>2 DEF NotifyRecv, TypeOK
      <4> QED BY <2>1, <4>1 DEF InNotify
    <3>3. CASE r # Head(resultsChan)
      BY <1>0, <2>1, <2>2, <3>1, <3>3, InTail
    <3> QED BY <3>2, <3>3
  <2>7. CASE UNCHANGED resultsChan
    BY <2>1, <2>2, <2>7 DEF Coming
  <2> QED BY <2>4, <2>5, <2>6, <2>7, WhoTouches DEF Coming
<1>8. CASE InNotify(k)
  <2>1. PICK v \in Notifiers : npc[v] \in {"check", "dispatch"} /\ Shows(nres[v], k)
    BY <1>8 DEF InNotify
  <2>2. ASSUME npc'[v] \in {"check", "dispatch"}, nres'[v] = nres[v]
        PROVE  InNotify(k)'
    BY <2>1, <2>2 DEF InNotify
  <2>3. ASSUME NEW w \in Notifiers, NotifyRecv(w) \/ NotifyDrained(w)
        PROVE  InNotify(k)'
    BY <2>1, <2>2, <2>3 DEF NotifyRecv, NotifyDrained, TypeOK
  <2>4. ASSUME NEW w \in Notifiers, NotifyFilter(w) PROVE InNotify(k)'
    <3>1. v # w
      BY <2>1, <2>4 DEF NotifyFilter, Shows
    <3> QED BY <2>1, <2>2, <2>4, <3>1 DEF NotifyFilter, TypeOK
  <2>5. ASSUME NEW w \in Notifiers, NotifyDrop(w) PROVE InNotify(k)' \/ Handled(k)'
    <3>1. CASE v # w
      BY <2>1, <2>2, <2>5, <3>1 DEF NotifyDrop, TypeOK
    <3>2. CASE v = w
      <4>1. k \in InChan(dedupeCache)
        BY <2>1, <2>5, <3>2 DEF NotifyDrop, Cached, Shows, InChan
      <4>2. CASE Handled(k)
        BY <4>2, HandledStays
      <4>3. CASE \E u \in Notifiers : npc[u] = "dispatch" /\ Shows(nres[u], k)
        <5>1. PICK u \in Notifiers : npc[u] = "dispatch" /\ Shows(nres[u], k)
          BY <4>3
        <5>2. u # w
          BY <2>5, <5>1 DEF NotifyDrop
        <5>3. npc'[u] = "dispatch" /\ nres'[u] = nres[u]
          BY <2>5, <5>1, <5>2 DEF NotifyDrop, TypeOK
        <5> QED BY <5>1, <5>3 DEF InNotify
      <4> QED BY <4>1, <4>2, <4>3 DEF CacheIsBacked
    <3> QED BY <3>1, <3>2
  <2>6. ASSUME NEW w \in Notifiers, NotifyKeep(w) PROVE InNotify(k)'
    BY <2>1, <2>2, <2>6 DEF NotifyKeep, TypeOK
  <2>7. ASSUME NEW w \in Notifiers, NotifyDispatch(w)
        PROVE  InNotify(k)' \/ Handled(k)'
    <3>1. CASE v = w
      BY <2>1, <2>7, <3>1, DispatchHandles DEF Shows
    <3>2. CASE v # w
      BY <2>1, <2>2, <2>7, <3>2 DEF NotifyDispatch, TypeOK
    <3> QED BY <3>1, <3>2
  <2>8. \A w \in Notifiers : ~NotifyPanic(w)
    BY DEF NotifyPanic, NoPanics, NoWorkerDies
  <2>9. CASE UNCHANGED notifyVars
    BY <2>1, <2>2, <2>9 DEF notifyVars, Coming
  <2>10. CASE \E w \in Notifiers : NotifyStep(w) \/ NotifyPanic(w)
    BY <2>3, <2>4, <2>5, <2>6, <2>7, <2>8, <2>10 DEF NotifyStep, Coming
  <2> QED BY <2>9, <2>10, OnlyNotifiersNotify DEF Coming
<1> QED
  BY <1>1, <1>2, <1>3, <1>4, <1>5, <1>6, <1>7, <1>8 DEF Coming

LEMMA OwingStep ==
    ASSUME NoPanics, TypeOK, Hands, QuietOverlaps, CacheIsBacked, Owing,
           [Next]_vars
    PROVE  Owing'
<1> SUFFICES ASSUME NEW k \in Promise!Owed' PROVE Handled(k)' \/ Coming(k)'
  BY DEF Owing
<1>1. CASE k \in Promise!Owed
  BY <1>1, HandledStays, KeyMovesOn DEF Owing
<1>2. CASE k \notin Promise!Owed
  <2>1. ~UNCHANGED unsent
    BY <1>2 DEF Promise!Owed
  <2>2. PICK c \in Chunks : SourceSend(c)
    BY <2>1, WhoTouches
  <2>3. k \in MustReport[c]
    BY <1>2, <2>2 DEF Promise!Owed, SourceSend
  <2>4. c \in InChan(chunksChan')
    <3>1. chunksChan \in Seq(Chunks) /\ chunksChan' = Append(chunksChan, c)
      BY <2>2 DEF SourceSend, TypeOK
    <3> QED BY <3>1, InAppend
  <2>5. InChunks(k)'
    BY <2>3, <2>4 DEF InChunks
  <2> QED BY <2>5 DEF Coming
<1> QED BY <1>1, <1>2

(* When every stage has ended and is drained, nothing is on its way.       *)
LEMMA NothingComing ==
    ASSUME TypeOK, Hands, Stages, Drained, fpc = "notify", AllDone(npc), NEW k
    PROVE  ~Coming(k)
<1>1. /\ \A w \in Scanners : spc[w] = "done"
      /\ \A w \in Overlappers : opc[w] = "done"
      /\ \A w \in DetectWorkers : dpc[w] = "done"
      /\ \A w \in Notifiers : npc[w] = "done"
  BY DEF Stages, AllDone, TypeOK
<1>2. /\ chunksChan = <<>> /\ overlapChan = <<>>
      /\ detectChan = <<>> /\ resultsChan = <<>>
  BY <1>1, WorkersAssumption DEF Drained
<1>3. InChan(<<>>) = {}
  BY DEF InChan
<1>4. ~InChunks(k) /\ ~InOverlapChan(k) /\ ~InDetectChan(k) /\ ~InResults(k)
  BY <1>2, <1>3 DEF InChunks, InOverlapChan, InDetectChan, InResults
<1>5. ~InSends(k) /\ ~InOverlap(k) /\ ~InDetect(k) /\ ~InNotify(k)
  BY <1>1 DEF Hands, InSends, InOverlap, InDetect, InNotify
<1> QED BY <1>4, <1>5 DEF Coming

(* As long as no goroutine panics, the pipeline does no more than what     *)
(* ScanPromise allows (the safety part of ImplementsPromise): only keys of *)
(* accepted chunks are handed to the dispatcher, none after Finish has     *)
(* returned, and it returns only when every key owed was handed over,      *)
(* whatever the capacities, the number of workers, the order in which they *)
(* run and what the dedupe cache has given up.                             *)
THEOREM PromiseIsKept ==
    ASSUME NoPanics
    PROVE  Spec => Promise!Init /\ [][Promise!Next]_(Promise!vars)
<1> DEFINE IInv == /\ TypeOK /\ Hands /\ Stages /\ Drained /\ QuietOverlaps
                   /\ OnlyPossible /\ CacheIsBacked /\ Owing
<1>a. NoWorkerDies /\ NoDetectorPanics /\ DispatchPanics = {}
  BY NoPanics DEF NoPanics, NoWorkerDies, NoDetectorPanics
<1>1. Init => IInv
  <2> SUFFICES ASSUME Init PROVE IInv
    OBVIOUS
  <2>1. InChan(<<>>) = {}
    BY DEF InChan
  <2>2. TypeOK /\ Hands /\ Stages /\ Drained /\ QuietOverlaps
    BY InitType DEF Init, Hands, Stages, Drained, QuietOverlaps
  <2>3. OnlyPossible
    BY <2>1 DEF Init, OnlyPossible, ChunksAccepted, SendsPossible,
       OverlapsPossible, OutcomesPossible, DetectsPossible, OutputsPossible,
       ResultsPossible, NotesPossible
  <2>4. CacheIsBacked
    BY <2>1 DEF Init, CacheIsBacked
  <2>5. Owing
    BY DEF Init, Owing, Promise!Owed
  <2> QED BY <2>2, <2>3, <2>4, <2>5
<1>2. IInv /\ [Next]_vars => IInv'
  BY NoPanics, <1>a, TypeStep, HandsStep, StagesStep, DrainedStep,
     QuietOverlapsStep, OnlyPossibleStep, CacheIsBackedStep, OwingStep
<1>3. Init => Promise!Init
  BY DEF Init, Promise!Init, Dispatched
<1>4. IInv /\ [Next]_vars => [Promise!Next]_(Promise!vars)
  <2> SUFFICES ASSUME IInv, [Next]_vars
               PROVE  Promise!Next \/ UNCHANGED Promise!vars
    OBVIOUS
  <2>1. ASSUME UNCHANGED <<unsent, dispatches, failed, fpc>>
        PROVE  UNCHANGED Promise!vars
    BY <2>1 DEF Promise!vars, Dispatched
  <2>2. ASSUME NEW c \in Chunks, SourceSend(c) PROVE Promise!Accept(c)
    <3>1. fpc # "returned"
      BY <2>2 DEF SourceSend, Stages
    <3>2. (Chunks \ unsent)' = (Chunks \ unsent) \cup {c} /\ c \in unsent
      BY <2>2 DEF SourceSend
    <3>3. UNCHANGED <<dispatches, failed, fpc>>
      BY <2>2 DEF SourceSend, notifyVars
    <3> QED BY <3>1, <3>2, <3>3 DEF Promise!Accept, Dispatched
  <2>3. ASSUME NEW w \in Notifiers, NotifyDispatch(w)
        PROVE  \E key \in Keys : Promise!Report(key) \/ UNCHANGED Promise!vars
    <3> DEFINE k == KeyOf[nres[w]]
               reported == {KeyOf[r] : r \in Dispatched \cup failed}
    <3>1. nres[w] \in Results /\ npc[w] = "dispatch" /\ nres[w] \notin Filtered
      BY <2>3 DEF NotifyDispatch, Hands, OnlyPossible, NotesPossible
    <3>2. k \in Keys /\ k \in Promise!Possible
      BY <2>3, <3>1, DataAssumption
         DEF OnlyPossible, NotesPossible, PossibleResults
    <3>3. fpc # "returned"
      BY <3>1 DEF Stages, AllDone, TypeOK
    <3>4. (Dispatched \cup failed)' = (Dispatched \cup failed) \cup {nres[w]}
      BY <2>3, <3>1 DEF NotifyDispatch, Dispatched, TypeOK
    <3>5. reported' = reported \cup {k}
      BY <3>4
    <3>6. UNCHANGED <<unsent, fpc>>
      BY <2>3 DEF NotifyDispatch, sourceVars
    <3>7. CASE k \in reported
      BY <3>2, <3>5, <3>6, <3>7 DEF Promise!vars
    <3>8. CASE k \notin reported
      BY <3>2, <3>3, <3>5, <3>6, <3>8 DEF Promise!Report
    <3> QED BY <3>7, <3>8
  <2>4. ASSUME FinishNotify PROVE Promise!Return
    <3>1. \A k : ~Coming(k)
      BY <2>4, NothingComing DEF FinishNotify
    <3>2. Promise!Owed \subseteq {KeyOf[r] : r \in Dispatched \cup failed}
      BY <3>1 DEF Owing, Handled
    <3>3. /\ UNCHANGED <<unsent, dispatches, failed>>
          /\ fpc # "returned" /\ fpc' = "returned"
      BY <2>4 DEF FinishNotify, sourceVars, notifyVars
    <3> QED BY <3>2, <3>3 DEF Promise!Return, Dispatched
  <2>5. ASSUME FinishStep, ~FinishNotify PROVE UNCHANGED Promise!vars
    <3>1. /\ UNCHANGED <<unsent, dispatches, failed>>
          /\ fpc # "returned" /\ fpc' # "returned"
      BY <2>5 DEF FinishStep, FinishSources, FinishScanners, FinishOverlap,
                  FinishDetect, sourceVars, notifyVars
    <3> QED BY <3>1 DEF Promise!vars, Dispatched
  <2>6. ASSUME NEW w \in Notifiers, NotifyStep(w) \/ NotifyPanic(w),
               ~NotifyDispatch(w)
        PROVE  UNCHANGED <<unsent, dispatches, failed, fpc>>
    BY <2>6 DEF NotifyStep, NotifyRecv, NotifyFilter, NotifyDrop, NotifyKeep,
       NotifyPanic, NotifyDrained, sourceVars
  <2>7. ASSUME NEW w \in Scanners, ScannerStep(w) \/ ScannerPanic(w)
        PROVE  UNCHANGED <<unsent, dispatches, failed, fpc>>
    BY <2>7 DEF ScannerStep, ScannerRecv, ScannerSendOverlap,
       ScannerSendDetect, ScannerNext, ScannerDrained, ScannerExit,
       ScannerPanic, sourceVars, notifyVars
  <2>8. ASSUME NEW w \in Overlappers, OverlapStep(w)
        PROVE  UNCHANGED <<unsent, dispatches, failed, fpc>>
    BY <2>8 DEF OverlapStep, OverlapRecv, OverlapSendResult, OverlapDecided,
       OverlapSendDetect, OverlapChunkDone, OverlapDrained, OverlapExit,
       OverlapPanic, sourceVars, notifyVars
  <2>9. ASSUME NEW w \in DetectWorkers, DetectStep(w) \/ DetectPanic(w)
        PROVE  UNCHANGED <<unsent, dispatches, failed, fpc>>
    BY <2>9 DEF DetectStep, DetectRecv, DetectSendResult, DetectDone,
       DetectDrained, DetectPanic, sourceVars, notifyVars
  <2>10. ASSUME UNCHANGED vars PROVE UNCHANGED <<unsent, dispatches, failed, fpc>>
    BY <2>10 DEF vars, sourceVars, notifyVars
  <2>11. CASE \E w \in Notifiers : NotifyStep(w) \/ NotifyPanic(w)
    BY <2>1, <2>3, <2>6, <2>11 DEF Promise!Next
  <2>12. CASE FinishStep
    BY <2>4, <2>5, <2>12 DEF Promise!Next
  <2> QED
    BY <2>1, <2>2, <2>7, <2>8, <2>9, <2>10, <2>11, <2>12
       DEF Next, Returned, Promise!Next
<1> QED BY <1>1, <1>2, <1>3, <1>4, PTL DEF Spec
=============================================================================
