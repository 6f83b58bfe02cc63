------------------------------ MODULE MCEngine ------------------------------
(***************************************************************************)
(* Bounded instance of Engine.  Chunk c1 decodes into two pieces: p1 is    *)
(* matched by detector A alone, p2 by A and B, so that p2 goes through the *)
(* overlap workers, and A's secret of p1 appears again in p2: the dedupe   *)
(* cache sees the same key twice.  Chunk c2 has one piece, p3, for B.      *)
(* The outcomes of the overlap pass come from OverlapDecision.             *)
(***************************************************************************)
EXTENDS Engine, TLC, SequencesExt

CONSTANTS A, B, c1, c2, p1, p2, p3, s

MCPiecesOf == (c1 :> {p1, p2}) @@ (c2 :> {p3})
MCMatching == (p1 :> {A}) @@ (p2 :> {A, B}) @@ (p3 :> {B})

(* Every matching detector finds s in its one match.                       *)
MCFindings(p) == [d \in {A, B} |-> IF d \in MCMatching[p] THEN <<<<s>>>> ELSE <<>>]

Decide == INSTANCE OverlapDecision WITH
    Dets <- {A, B},
    TypeOf <- (A :> "typeA") @@ (B :> "typeB"),
    Secrets <- {s},
    Similar <- {<<s, s>>},
    Dropped <- {}

MCResults == [piece : {p1, p2, p3}, det : {A, B}, pass : {"overlap", "detect"}]

ChunkOf(p) == CHOOSE c \in {c1, c2} : p \in MCPiecesOf[c]
MCKeys == [chunk : {c1, c2}, det : {A, B}]
MCKeyOf == [r \in MCResults |-> [chunk |-> ChunkOf(r.piece), det |-> r.det]]

MCDetected ==
    [pd \in {p1, p2, p3} \X {A, B} |->
        IF pd[2] \in MCMatching[pd[1]]
        THEN {[piece |-> pd[1], det |-> pd[2], pass |-> "detect"]}
        ELSE {}]

OutcomeOf(p, order) ==
    LET st == Decide!Decision(order, MCFindings(p)) IN
    [reports |-> {[piece |-> p, det |-> k.det, pass |-> "overlap"] : k \in st.overlaps},
     redetect |-> st.withResults,
     panics |-> FALSE]

MCOverlapOutcomes ==
    [p \in {p1, p2, p3} |->
        {OutcomeOf(p, order) : order \in SetToSeqs(MCMatching[p])}]

(* Where panics happen in the runs that allow them: detector B on p3, the  *)
(* dispatcher on A's result of p1, a detector in the overlap pass of p2,   *)
(* before or after an overlap was reported.                                *)
MCDetectPanics == {<<p3, B>>}
MCDispatchPanics == {[piece |-> p1, det |-> A, pass |-> "detect"]}
MCPanickingOutcomes ==
    [p \in {p1, p2, p3} |->
        MCOverlapOutcomes[p]
          \cup {[out EXCEPT !.panics = TRUE] : out \in MCOverlapOutcomes[p]}
          \cup {[reports |-> {}, redetect |-> {}, panics |-> TRUE]}]

(* --results=verified: the unverified overlap copies are filtered.         *)
MCFiltered == {r \in MCResults : r.pass = "overlap"}

(* The workers of a stage are interchangeable; sound for the safety runs.  *)
WorkerSymmetry == Permutations(Scanners) \cup Permutations(DetectWorkers)
                    \cup Permutations(Notifiers)
=============================================================================
