------------------------------ MODULE UnitHook ------------------------------
(***************************************************************************)
(* UnitHook of pkg/sources/job_progress_hook.go: it counts the chunks of   *)
(* every unit in progress and, when the unit ends, sends its metrics on a  *)
(* bounded channel.  The goroutines that end units block while the channel *)
(* is full (back-pressure), Close may be called at any time by anybody,    *)
(* and the reader may have gone away.                                      *)
(*                                                                         *)
(* A caller is one unit of a job with units, or one job without units,     *)
(* with the goroutine that reports it: start, chunks, end.  The locks mu   *)
(* and closeMu make each of the actions below atomic.                      *)
(***************************************************************************)
EXTENDS Integers, Sequences, FiniteSets

CONSTANTS
    Callers,    \* units in progress and jobs without units
    Unitless,   \* the callers that are jobs without units
    Closers,    \* goroutines that call Close
    BufferSize, \* capacity of finishedMetrics
    MaxChunks,  \* bound on the chunks of a caller
    ReaderMayStop  \* may the consumer of finishedMetrics go away?

ASSUME CallersAssumption ==
    IsFiniteSet(Callers) /\ Unitless \subseteq Callers

ASSUME BufferAssumption ==
    BufferSize \in Nat \ {0} /\ MaxChunks \in Nat /\ ReaderMayStop \in BOOLEAN

VARIABLES
    pc,        \* where each caller stands
    reported,  \* chunks each caller has reported
    metrics,   \* u.metrics: the callers with an entry, and TotalChunks
    hand,      \* the TotalChunks a caller is about to send
    finished,  \* u.finishedMetrics
    closed,    \* u.closed and close(u.done)
    inflight,  \* the WaitGroup u.inflight
    chanClosed,  \* close(u.finishedMetrics)
    cpc,       \* where each Close call stands
    reader,    \* the consumer still reads
    read,      \* metrics it has read
    dropped    \* callers whose metrics were thrown away

hookVars == <<metrics, finished, closed, inflight, chanClosed>>
readVars == <<reader, read>>
vars == <<pc, reported, hand, hookVars, cpc, readVars, dropped>>

Metric == [of : Callers, chunks : Nat]

Init ==
    /\ pc = [c \in Callers |-> "new"]
    /\ reported = [c \in Callers |-> 0]
    /\ metrics = [c \in {} |-> 0]
    /\ hand = [c \in Callers |-> 0]
    /\ finished = <<>>
    /\ closed = FALSE /\ inflight = 0 /\ chanClosed = FALSE
    /\ cpc = [k \in Closers |-> "idle"]
    /\ reader = TRUE /\ read = {}
    /\ dropped = {}

(* The map with an entry for c added or replaced, and without one for c.   *)
Put(c, n) == [d \in DOMAIN metrics \cup {c} |-> IF d = c THEN n ELSE metrics[d]]
Without(c) == [d \in DOMAIN metrics \ {c} |-> metrics[d]]

-----------------------------------------------------------------------------
(* StartUnitChunking makes the unit's entry; a job without units has none. *)
Start(c) ==
    /\ pc[c] = "new"
    /\ pc' = [pc EXCEPT ![c] = "chunk"]
    /\ metrics' = IF c \in Unitless THEN metrics ELSE Put(c, 0)
    /\ UNCHANGED <<reported, hand, finished, closed, inflight, chanClosed, cpc,
                   readVars, dropped>>

(* Mutant: a job without units gets a new entry with every chunk.          *)
ReportChunkAnew(c) ==
    /\ pc[c] = "chunk"
    /\ reported[c] < MaxChunks
    /\ reported' = [reported EXCEPT ![c] = @ + 1]
    /\ metrics' = IF c \in Unitless THEN Put(c, 1)
                  ELSE IF c \in DOMAIN metrics THEN Put(c, metrics[c] + 1) ELSE metrics
    /\ UNCHANGED <<pc, hand, finished, closed, inflight, chanClosed, cpc,
                   readVars, dropped>>

(* ReportChunk: an entry is made for a job without units; a unit without   *)
(* an entry has been evicted and is not counted.                           *)
ReportChunk(c) ==
    /\ pc[c] = "chunk"
    /\ reported[c] < MaxChunks
    /\ reported' = [reported EXCEPT ![c] = @ + 1]
    /\ metrics' = IF c \in DOMAIN metrics THEN Put(c, metrics[c] + 1)
                  ELSE IF c \in Unitless THEN Put(c, 1) ELSE metrics
    /\ UNCHANGED <<pc, hand, finished, closed, inflight, chanClosed, cpc,
                   readVars, dropped>>

(* EndUnitChunking or Finish: finishUnit takes the entry out of the map;   *)
(* without one there is nothing to send.                                   *)
End(c) ==
    /\ pc[c] = "chunk"
    /\ IF c \in DOMAIN metrics
       THEN /\ pc' = [pc EXCEPT ![c] = "register"]
            /\ hand' = [hand EXCEPT ![c] = metrics[c]]
            /\ metrics' = Without(c)
       ELSE /\ pc' = [pc EXCEPT ![c] = "done"]
            /\ UNCHANGED <<hand, metrics>>
    /\ UNCHANGED <<reported, finished, closed, inflight, chanClosed, cpc,
                   readVars, dropped>>

(* ejectFinishedMetrics under closeMu: after Close the metrics are dropped, *)
(* before it the caller joins the in-flight senders.                       *)
Register(c) ==
    /\ pc[c] = "register"
    /\ IF closed
       THEN /\ pc' = [pc EXCEPT ![c] = "done"]
            /\ dropped' = dropped \cup {c}
            /\ UNCHANGED inflight
       ELSE /\ pc' = [pc EXCEPT ![c] = "try"]
            /\ inflight' = inflight + 1
            /\ UNCHANGED dropped
    /\ UNCHANGED <<reported, hand, metrics, finished, closed, chanClosed, cpc,
                   readVars>>

HasRoom == Len(finished) < BufferSize

(* The send of a metrics record: the first select, or the second after     *)
(* back-pressure was logged.                                               *)
Send(c) ==
    /\ pc[c] \in {"try", "blocked"}
    /\ HasRoom
    /\ finished' = Append(finished, [of |-> c, chunks |-> hand[c]])
    /\ pc' = [pc EXCEPT ![c] = "leave"]
    /\ UNCHANGED <<reported, hand, metrics, closed, inflight, chanClosed, cpc,
                   readVars, dropped>>

(* The default branch of the first select: the channel is full.            *)
BackPressure(c) ==
    /\ pc[c] = "try"
    /\ ~HasRoom
    /\ pc' = [pc EXCEPT ![c] = "blocked"]
    /\ UNCHANGED <<reported, hand, hookVars, cpc, readVars, dropped>>

(* Mutant: the second select has no case for u.done.                       *)
GiveUpNever(c) == FALSE /\ UNCHANGED vars

(* Mutant: a sender gives up at once when the channel is full.             *)
GiveUpWhenFull(c) ==
    /\ pc[c] = "blocked"
    /\ pc' = [pc EXCEPT ![c] = "leave"]
    /\ dropped' = dropped \cup {c}
    /\ UNCHANGED <<reported, hand, hookVars, cpc, readVars>>

(* The second select sees u.done closed; the metrics are dropped.          *)
GiveUp(c) ==
    /\ pc[c] = "blocked"
    /\ closed
    /\ pc' = [pc EXCEPT ![c] = "leave"]
    /\ dropped' = dropped \cup {c}
    /\ UNCHANGED <<reported, hand, hookVars, cpc, readVars>>

(* The deferred u.inflight.Done() *)
Leave(c) ==
    /\ pc[c] = "leave"
    /\ pc' = [pc EXCEPT ![c] = "done"]
    /\ inflight' = inflight - 1
    /\ UNCHANGED <<reported, hand, metrics, finished, closed, chanClosed, cpc,
                   readVars, dropped>>

-----------------------------------------------------------------------------
(* Close under closeMu: the first call goes on to wait, any other returns. *)
CloseBegin(k) ==
    /\ cpc[k] = "idle"
    /\ closed' = TRUE
    /\ cpc' = [cpc EXCEPT ![k] = IF closed THEN "returned" ELSE "waiting"]
    /\ UNCHANGED <<pc, reported, hand, metrics, finished, inflight, chanClosed,
                   readVars, dropped>>

(* Mutant: Close does not wait for the in-flight senders.                  *)
CloseEndAtOnce(k) ==
    /\ cpc[k] = "waiting"
    /\ chanClosed' = TRUE
    /\ cpc' = [cpc EXCEPT ![k] = "returned"]
    /\ UNCHANGED <<pc, reported, hand, metrics, finished, closed, inflight,
                   readVars, dropped>>

(* u.inflight.Wait(); close(u.finishedMetrics) *)
CloseEnd(k) ==
    /\ cpc[k] = "waiting"
    /\ inflight = 0
    /\ chanClosed' = TRUE
    /\ cpc' = [cpc EXCEPT ![k] = "returned"]
    /\ UNCHANGED <<pc, reported, hand, metrics, finished, closed, inflight,
                   readVars, dropped>>

-----------------------------------------------------------------------------
(* The consumer of the channel *)
Read ==
    /\ reader
    /\ finished # <<>>
    /\ read' = read \cup {Head(finished)}
    /\ finished' = Tail(finished)
    /\ UNCHANGED <<pc, reported, hand, metrics, closed, inflight, chanClosed,
                   cpc, reader, dropped>>

ReaderStops ==
    /\ ReaderMayStop /\ reader
    /\ reader' = FALSE
    /\ UNCHANGED <<pc, reported, hand, hookVars, cpc, read, dropped>>

CallerStep(c) ==
    \/ Start(c) \/ End(c) \/ Register(c) \/ Send(c) \/ BackPressure(c)
    \/ GiveUp(c) \/ Leave(c)

CloserStep(k) == CloseBegin(k) \/ CloseEnd(k)

Next ==
    \/ \E c \in Callers : CallerStep(c) \/ ReportChunk(c)
    \/ \E k \in Closers : CloserStep(k)
    \/ Read
    \/ ReaderStops

(* A caller ends its unit, and a Close that was called goes on; nobody has *)
(* to call Close, and the reader reads unless it stopped.                  *)
Fairness ==
    /\ \A c \in Callers : WF_vars(CallerStep(c))
    /\ \A k \in Closers : WF_vars(CloseEnd(k))
    /\ WF_vars(Read)

Spec == Init /\ [][Next]_vars /\ Fairness

-----------------------------------------------------------------------------
(* Type correctness of the hook's state. *)
TypeOK ==
    /\ pc \in [Callers -> {"new", "chunk", "register", "try", "blocked",
                           "leave", "done"}]
    /\ reported \in [Callers -> Nat]
    /\ DOMAIN metrics \subseteq Callers
    /\ \A c \in DOMAIN metrics : metrics[c] \in Nat
    /\ hand \in [Callers -> Nat]
    /\ finished \in Seq(Metric)
    /\ closed \in BOOLEAN /\ chanClosed \in BOOLEAN
    /\ inflight \in Nat
    /\ cpc \in [Closers -> {"idle", "waiting", "returned"}]
    /\ reader \in BOOLEAN /\ read \subseteq Metric
    /\ dropped \subseteq Callers

(* The comment on the fields: "finishedMetrics is never closed while a     *)
(* send is possible".                                                      *)
NoSendOnClosedMetrics ==
    chanClosed => \A c \in Callers : pc[c] \notin {"try", "blocked"}

InFlight == {c \in Callers : pc[c] \in {"try", "blocked", "leave"}}

(* The channel is closed once: a second close would be a panic.            *)
OneCloserWaits ==
    /\ \A j, k \in Closers :
            cpc[j] = "waiting" /\ cpc[k] = "waiting" => j = k
    /\ chanClosed => \A k \in Closers : cpc[k] # "waiting"

(* The inductive invariant behind the two.                                 *)
CloseInv ==
    /\ TypeOK
    /\ inflight = Cardinality(InFlight)
    /\ chanClosed => closed /\ inflight = 0
    /\ (\E k \in Closers : cpc[k] # "idle") => closed
    /\ OneCloserWaits

Emitted == read \cup {finished[i] : i \in 1..Len(finished)}

(* Every caller's metrics arrive once, with exactly the chunks it reported, *)
(* whatever ran between its chunks and its end.                            *)
MetricsAreExact ==
    /\ \A m \in Emitted : m.chunks = reported[m.of] /\ pc[m.of] \in {"leave", "done"}
    /\ \A i, j \in 1..Len(finished) : finished[i].of = finished[j].of => i = j
    /\ \A i \in 1..Len(finished) : finished[i] \notin read

(* A caller that has ended without Close being called has its metrics      *)
(* delivered, the exception being a job without units and chunks.          *)
NothingDroppedBeforeClose ==
    ~closed => \A c \in Callers :
        pc[c] = "done" => \/ \E m \in Emitted : m.of = c
                          \/ c \in Unitless /\ reported[c] = 0

(* Close returns even if nobody reads the channel ("drop the metrics       *)
(* rather than block Close forever").                                      *)
CloseReturns == \A k \in Closers : cpc[k] = "waiting" ~> cpc[k] = "returned"

(* A caller is never blocked for ever once Close has been called.          *)
CallersGoOn == \A c \in Callers : pc[c] = "blocked" /\ closed ~> pc[c] = "done"
=============================================================================
