--------------------------- MODULE UnitHookProofs ---------------------------
(***************************************************************************)
(* Proofs about UnitHook: for any number of callers and of Close calls,    *)
(* and any buffer, the metrics channel is closed once and nobody is about  *)
(* to send on it then; and the metrics that arrive are exact, one record   *)
(* for a caller, and none missing until Close is called.                   *)
(***************************************************************************)
EXTENDS UnitHook, FiniteSetTheorems, TLAPS

(* A caller that enters the in-flight set raises its size by one.          *)
LEMMA EnterInFlight ==
    ASSUME NEW S, IsFiniteSet(S), NEW c, c \notin S
    PROVE  /\ IsFiniteSet(S \cup {c})
           /\ Cardinality(S \cup {c}) = Cardinality(S) + 1
  BY FS_AddElement

(* A caller that leaves it lowers its size by one.                         *)
LEMMA LeaveInFlight ==
    ASSUME NEW S, IsFiniteSet(S), NEW c \in S
    PROVE  /\ Cardinality(S \ {c}) = Cardinality(S) - 1
           /\ Cardinality(S) # 0
  <1>1. Cardinality(S) \in Nat /\ Cardinality(S \ {c}) = Cardinality(S) - 1
    BY FS_RemoveElement, FS_CardinalityType
  <1>2. IsFiniteSet(S \ {c})
    BY FS_Subset
  <1>3. Cardinality(S \ {c}) \in Nat
    BY <1>2, FS_CardinalityType
  <1> QED
    BY <1>1, <1>3

(* The in-flight callers are finitely many.                                *)
LEMMA InFlightFinite == IsFiniteSet(InFlight)
  <1>1. InFlight \subseteq Callers
    BY DEF InFlight
  <1> QED
    BY <1>1, CallersAssumption, FS_Subset

(* CloseInv holds at first.                                                *)
LEMMA CloseInit == Init => CloseInv
  <1> SUFFICES ASSUME Init PROVE CloseInv
    OBVIOUS
  <1>1. TypeOK
    <2>1. finished \in Seq(Metric)
      BY DEF Init
    <2>2. DOMAIN metrics \subseteq Callers /\ \A c \in DOMAIN metrics : metrics[c] \in Nat
      BY DEF Init
    <2> QED
      BY <2>1, <2>2 DEF Init, TypeOK
  <1>2. InFlight = {}
    BY DEF Init, InFlight
  <1>3. inflight = Cardinality(InFlight)
    BY <1>2, FS_EmptySet DEF Init
  <1> QED
    BY <1>1, <1>3 DEF Init, CloseInv, OneCloserWaits

(* A step that leaves the in-flight set, the closers and the flags alone   *)
(* keeps the invariant if it keeps the types.                              *)
LEMMA QuietStep ==
    ASSUME CloseInv, TypeOK', InFlight' = InFlight,
           UNCHANGED <<closed, inflight, chanClosed, cpc>>
    PROVE  CloseInv'
  BY DEF CloseInv, OneCloserWaits

(* Every step keeps it.                                                    *)
LEMMA CloseStep == CloseInv /\ [Next]_vars => CloseInv'
  <1> SUFFICES ASSUME CloseInv, [Next]_vars PROVE CloseInv'
    OBVIOUS
  <1> USE DEF CloseInv
  <1>1. ASSUME NEW c \in Callers, Start(c) PROVE CloseInv'
    <2>1. TypeOK'
      BY <1>1 DEF Start, TypeOK, Put, readVars
    <2>2. InFlight' = InFlight
      BY <1>1 DEF Start, TypeOK, InFlight
    <2> QED
      BY <1>1, <2>1, <2>2, QuietStep DEF Start
  <1>2. ASSUME NEW c \in Callers, ReportChunk(c) PROVE CloseInv'
    <2>1. TypeOK'
      BY <1>2 DEF ReportChunk, TypeOK, Put, readVars
    <2>2. InFlight' = InFlight
      BY <1>2 DEF ReportChunk, InFlight
    <2> QED
      BY <1>2, <2>1, <2>2, QuietStep DEF ReportChunk
  <1>3. ASSUME NEW c \in Callers, End(c) PROVE CloseInv'
    <2>1. TypeOK'
      <3>1. /\ pc' \in [Callers -> {"new", "chunk", "register", "try", "blocked",
                                  "leave", "done"}]
            /\ hand' \in [Callers -> Nat]
        BY <1>3 DEF End, TypeOK
      <3>2. DOMAIN metrics' \subseteq Callers
        BY <1>3 DEF End, TypeOK, Without
      <3>3. \A d \in DOMAIN metrics' : metrics'[d] \in Nat
        BY <1>3 DEF End, TypeOK, Without
      <3> QED
        BY <1>3, <3>1, <3>2, <3>3 DEF End, TypeOK, readVars
    <2>2. InFlight' = InFlight
      BY <1>3 DEF End, TypeOK, InFlight
    <2> QED
      BY <1>3, <2>1, <2>2, QuietStep DEF End
  <1>4. ASSUME NEW c \in Callers, Register(c) PROVE CloseInv'
    <2>1. TypeOK'
      <3>1. /\ pc' \in [Callers -> {"new", "chunk", "register", "try", "blocked",
                                  "leave", "done"}]
            /\ dropped' \subseteq Callers
        BY <1>4 DEF Register, TypeOK
      <3>2. inflight' \in Nat
        BY <1>4 DEF Register, TypeOK
      <3> QED
        BY <1>4, <3>1, <3>2 DEF Register, TypeOK, readVars
    <2>2. CASE closed
      <3>1. InFlight' = InFlight
        BY <1>4, <2>2 DEF Register, TypeOK, InFlight
      <3> QED
        BY <1>4, <2>1, <2>2, <3>1, QuietStep DEF Register
    <2>3. CASE ~closed
      <3>1. InFlight' = InFlight \cup {c} /\ c \notin InFlight
        BY <1>4, <2>3 DEF Register, TypeOK, InFlight
      <3>2. inflight' = Cardinality(InFlight')
        BY <1>4, <2>3, <3>1, InFlightFinite, EnterInFlight DEF Register
      <3> QED
        BY <1>4, <2>1, <2>3, <3>2 DEF Register, OneCloserWaits
    <2> QED
      BY <2>2, <2>3
  <1>5. ASSUME NEW c \in Callers, Send(c) PROVE CloseInv'
    <2>1. [of |-> c, chunks |-> hand[c]] \in Metric
      BY DEF TypeOK, Metric
    <2>2. TypeOK'
      BY <1>5, <2>1 DEF Send, TypeOK, readVars
    <2>3. InFlight' = InFlight
      BY <1>5 DEF Send, TypeOK, InFlight
    <2> QED
      BY <1>5, <2>2, <2>3, QuietStep DEF Send
  <1>6. ASSUME NEW c \in Callers, BackPressure(c) PROVE CloseInv'
    <2>1. TypeOK'
      BY <1>6 DEF BackPressure, TypeOK, hookVars, readVars
    <2>2. InFlight' = InFlight
      BY <1>6 DEF BackPressure, TypeOK, InFlight
    <2> QED
      BY <1>6, <2>1, <2>2, QuietStep DEF BackPressure, hookVars
  <1>7. ASSUME NEW c \in Callers, GiveUp(c) PROVE CloseInv'
    <2>1. TypeOK'
      BY <1>7 DEF GiveUp, TypeOK, hookVars, readVars
    <2>2. InFlight' = InFlight
      BY <1>7 DEF GiveUp, TypeOK, InFlight
    <2> QED
      BY <1>7, <2>1, <2>2, QuietStep DEF GiveUp, hookVars
  <1>8. ASSUME NEW c \in Callers, Leave(c) PROVE CloseInv'
    <2>1. c \in InFlight /\ InFlight' = InFlight \ {c}
      BY <1>8 DEF Leave, TypeOK, InFlight
    <2>2. inflight # 0 /\ inflight' = Cardinality(InFlight')
      BY <1>8, <2>1, InFlightFinite, LeaveInFlight DEF Leave
    <2>3. TypeOK'
      BY <1>8, <2>2 DEF Leave, TypeOK, readVars
    <2> QED
      BY <1>8, <2>2, <2>3 DEF Leave, OneCloserWaits
  <1>9. ASSUME NEW k \in Closers, CloseBegin(k) PROVE CloseInv'
    <2>1. TypeOK'
      BY <1>9 DEF CloseBegin, TypeOK, readVars
    <2>2. InFlight' = InFlight
      BY <1>9 DEF CloseBegin, InFlight
    <2>3. OneCloserWaits'
      BY <1>9 DEF CloseBegin, OneCloserWaits, TypeOK
    <2> QED
      BY <1>9, <2>1, <2>2, <2>3 DEF CloseBegin
  <1>10. ASSUME NEW k \in Closers, CloseEnd(k) PROVE CloseInv'
    <2>1. TypeOK'
      BY <1>10 DEF CloseEnd, TypeOK, readVars
    <2>2. InFlight' = InFlight
      BY <1>10 DEF CloseEnd, InFlight
    <2>3. closed
      BY <1>10 DEF CloseEnd
    <2>4. OneCloserWaits'
      BY <1>10 DEF CloseEnd, OneCloserWaits, TypeOK
    <2> QED
      BY <1>10, <2>1, <2>2, <2>3, <2>4 DEF CloseEnd
  <1>11. CASE Read
    <2>1. TypeOK'
      BY <1>11 DEF Read, TypeOK
    <2>2. InFlight' = InFlight
      BY <1>11 DEF Read, InFlight
    <2> QED
      BY <1>11, <2>1, <2>2, QuietStep DEF Read
  <1>12. CASE ReaderStops
    <2>1. TypeOK'
      BY <1>12 DEF ReaderStops, TypeOK, hookVars
    <2>2. InFlight' = InFlight
      BY <1>12 DEF ReaderStops, InFlight
    <2> QED
      BY <1>12, <2>1, <2>2, QuietStep DEF ReaderStops, hookVars
  <1>13. CASE UNCHANGED vars
    <2>1. TypeOK' /\ InFlight' = InFlight
      BY <1>13 DEF vars, hookVars, readVars, TypeOK, InFlight
    <2> QED
      BY <1>13, <2>1, QuietStep DEF vars, hookVars
  <1> QED
    BY <1>1, <1>2, <1>3, <1>4, <1>5, <1>6, <1>7, <1>8, <1>9, <1>10, <1>11,
       <1>12, <1>13 DEF Next, CallerStep, CloserStep

(* The hook keeps its types, counts its in-flight senders exactly, has one *)
(* Close that waits at most and closes the channel only when no sender is  *)
(* in flight.                                                              *)
THEOREM CloseIsCoordinated == Spec => []CloseInv
  BY CloseInit, CloseStep, PTL DEF Spec

(* With no sender in flight nobody is about to send.                       *)
LEMMA NobodySends == CloseInv => NoSendOnClosedMetrics
  <1> SUFFICES ASSUME CloseInv, chanClosed, NEW c \in Callers,
                      pc[c] \in {"try", "blocked"}
               PROVE  FALSE
    BY DEF NoSendOnClosedMetrics
  <1>1. c \in InFlight
    BY DEF InFlight
  <1>2. Cardinality(InFlight) # 0
    BY <1>1, InFlightFinite, LeaveInFlight
  <1> QED
    BY <1>2 DEF CloseInv

(* finishedMetrics is never closed while a send is possible.               *)
THEOREM MetricsChannelIsQuiet == Spec => []NoSendOnClosedMetrics
  BY CloseIsCoordinated, NobodySends, PTL

-----------------------------------------------------------------------------
(***************************************************************************)
(* What a caller reported is what arrives.                                 *)
(***************************************************************************)

(* The books kept for a caller: an entry while it reports chunks, with all *)
(* it has reported so far, then the same number in the hands of the one    *)
(* that ends it.                                                           *)
Account(c) ==
    /\ pc[c] = "new" => reported[c] = 0
    /\ c \in DOMAIN metrics => pc[c] = "chunk" /\ metrics[c] = reported[c]
    /\ pc[c] = "chunk" /\ c \notin DOMAIN metrics => c \in Unitless /\ reported[c] = 0
    /\ pc[c] \in {"register", "try", "blocked"} => hand[c] = reported[c]

(* Its record: none before it is sent, the exact one after that, and one   *)
(* for every caller that has ended while the hook was open.                *)
Record(c) ==
    /\ \A m \in Emitted : m.of = c => /\ m.chunks = reported[c]
                                      /\ pc[c] \in {"leave", "done"}
    /\ ~closed /\ pc[c] \in {"leave", "done"} =>
            \/ \E m \in Emitted : m.of = c
            \/ pc[c] = "done" /\ c \in Unitless /\ reported[c] = 0

Distinct ==
    /\ \A i, j \in 1..Len(finished) : finished[i].of = finished[j].of => i = j
    /\ \A i \in 1..Len(finished) : finished[i] \notin read

Books == (\A c \in Callers : Account(c) /\ Record(c)) /\ Distinct

(* The step of one caller leaves the pc and the counts of another alone.   *)
LEMMA OtherCaller ==
    ASSUME TypeOK, NEW c \in Callers, NEW d \in Callers, c # d,
           CallerStep(d) \/ ReportChunk(d)
    PROVE  /\ pc'[c] = pc[c] /\ reported'[c] = reported[c] /\ hand'[c] = hand[c]
           /\ c \in DOMAIN metrics' <=> c \in DOMAIN metrics
           /\ c \in DOMAIN metrics => metrics'[c] = metrics[c]
<1> USE DEF TypeOK
<1>1. CASE Start(d)
  BY <1>1 DEF Start, Put
<1>2. CASE ReportChunk(d)
  BY <1>2 DEF ReportChunk, Put
<1>3. CASE End(d)
  BY <1>3 DEF End, Without
<1>4. CASE Register(d)
  BY <1>4 DEF Register
<1>5. CASE Send(d)
  BY <1>5 DEF Send
<1>6. CASE BackPressure(d)
  BY <1>6 DEF BackPressure, hookVars
<1>7. CASE GiveUp(d)
  BY <1>7 DEF GiveUp, hookVars
<1>8. CASE Leave(d)
  BY <1>8 DEF Leave
<1> QED BY <1>1, <1>2, <1>3, <1>4, <1>5, <1>6, <1>7, <1>8 DEF CallerStep

(* Close and the reader leave the callers alone.                           *)
LEMMA NoCaller ==
    ASSUME \/ \E k \in Closers : CloserStep(k)
           \/ Read \/ ReaderStops \/ UNCHANGED vars
    PROVE  UNCHANGED <<pc, reported, hand, metrics>>
  BY DEF CloserStep, CloseBegin, CloseEnd, Read, ReaderStops, hookVars, vars

(* Every step keeps a caller's books.                                      *)
LEMMA AccountStep ==
    ASSUME TypeOK, [Next]_vars, NEW c \in Callers, Account(c)
    PROVE  Account(c)'
<1> USE DEF Account, TypeOK
<1>1. CASE Start(c)
  BY <1>1 DEF Start, Put
<1>2. CASE ReportChunk(c)
  BY <1>2 DEF ReportChunk, Put
<1>3. CASE End(c)
  BY <1>3 DEF End, Without
<1>4. CASE Register(c)
  BY <1>4 DEF Register
<1>5. CASE Send(c)
  BY <1>5 DEF Send
<1>6. CASE BackPressure(c)
  BY <1>6 DEF BackPressure, hookVars
<1>7. CASE GiveUp(c)
  BY <1>7 DEF GiveUp, hookVars
<1>8. CASE Leave(c)
  BY <1>8 DEF Leave
<1>9. ASSUME NEW d \in Callers, c # d, CallerStep(d) \/ ReportChunk(d)
      PROVE  Account(c)'
  BY <1>9, OtherCaller
<1>10. ASSUME UNCHANGED <<pc, reported, hand, metrics>> PROVE Account(c)'
  BY <1>10
<1> QED
  BY <1>1, <1>2, <1>3, <1>4, <1>5, <1>6, <1>7, <1>8, <1>9, <1>10, NoCaller
     DEF Next, CallerStep

(* A caller reaches its end by its own steps, and stays there.             *)
LEMMA ReachesItsEnd ==
    ASSUME TypeOK, [Next]_vars, NEW c \in Callers,
           pc[c] \in {"leave", "done"} \/ pc'[c] \in {"leave", "done"}
    PROVE  /\ reported'[c] = reported[c]
           /\ \/ /\ pc[c] \in {"leave", "done"} /\ pc'[c] \in {"leave", "done"}
                 /\ pc[c] = "done" => pc'[c] = "done"
              \/ pc[c] = "chunk" /\ c \notin DOMAIN metrics /\ pc'[c] = "done"
              \/ pc[c] \in {"register", "blocked"} /\ closed
              \/ Send(c)
<1> USE DEF TypeOK
<1>1. CASE Start(c) \/ ReportChunk(c)
  BY <1>1 DEF Start, ReportChunk
<1>2. CASE End(c)
  BY <1>2 DEF End
<1>3. CASE Register(c)
  BY <1>3 DEF Register
<1>4. CASE Send(c)
  BY <1>4 DEF Send
<1>5. CASE BackPressure(c) \/ GiveUp(c)
  BY <1>5 DEF BackPressure, GiveUp
<1>6. CASE Leave(c)
  BY <1>6 DEF Leave
<1>7. ASSUME pc'[c] = pc[c], reported'[c] = reported[c] PROVE pc'[c] \in {"leave", "done"} /\ pc[c] = pc'[c]
  BY <1>7
<1>8. ASSUME NEW d \in Callers, c # d, CallerStep(d) \/ ReportChunk(d)
      PROVE  pc'[c] = pc[c] /\ reported'[c] = reported[c]
  BY <1>8, OtherCaller
<1> QED
  BY <1>1, <1>2, <1>3, <1>4, <1>5, <1>6, <1>7, <1>8, NoCaller
     DEF Next, CallerStep

(* The elements of a sequence that grows at its end or loses its head.     *)
LEMMA InAppend ==
    ASSUME NEW S, NEW s \in Seq(S), NEW x \in S
    PROVE  /\ Len(Append(s, x)) = Len(s) + 1
           /\ \A i \in 1..Len(s) : Append(s, x)[i] = s[i]
           /\ Append(s, x)[Len(s) + 1] = x
  OBVIOUS

LEMMA InTail ==
    ASSUME NEW S, NEW s \in Seq(S), s # <<>>
    PROVE  /\ Len(Tail(s)) = Len(s) - 1 /\ Len(s) \in Nat \ {0}
           /\ Head(s) = s[1]
           /\ \A i \in 1..Len(s) - 1 : Tail(s)[i] = s[i + 1]
  OBVIOUS

(* What has been emitted grows by the record of the caller that sends.     *)
LEMMA EmittedStep ==
    ASSUME TypeOK, [Next]_vars
    PROVE  \/ Emitted' = Emitted
           \/ \E c \in Callers :
                  /\ Send(c)
                  /\ Emitted' = Emitted \cup {[of |-> c, chunks |-> hand[c]]}
<1>1. ASSUME NEW c \in Callers, Send(c)
      PROVE  Emitted' = Emitted \cup {[of |-> c, chunks |-> hand[c]]}
  <2> DEFINE r == [of |-> c, chunks |-> hand[c]]
  <2>1. r \in Metric /\ finished \in Seq(Metric)
    BY DEF TypeOK, Metric
  <2>2. finished' = Append(finished, r) /\ read' = read
    BY <1>1 DEF Send, readVars
  <2>3. Len(finished) \in Nat
    BY <2>1
  <2> HIDE DEF r
  <2>4. /\ Len(finished') = Len(finished) + 1 /\ finished'[Len(finished) + 1] = r
        /\ \A i \in 1..Len(finished) : finished'[i] = finished[i]
    BY <2>1, <2>2, InAppend
  <2>5. Emitted' = Emitted \cup {r}
    BY <2>2, <2>3, <2>4 DEF Emitted
  <2> QED BY <2>5 DEF r
<1>2. CASE Read
  <2>1. /\ finished \in Seq(Metric) /\ finished # <<>>
        /\ read' = read \cup {Head(finished)} /\ finished' = Tail(finished)
    BY <1>2 DEF Read, TypeOK
  <2>2. /\ Len(finished') = Len(finished) - 1 /\ Len(finished) \in Nat \ {0}
        /\ Head(finished) = finished[1]
        /\ \A i \in 1..Len(finished) - 1 : finished'[i] = finished[i + 1]
    BY <2>1, InTail
  <2>3. {finished[i] : i \in 1..Len(finished)}
            = {finished[1]} \cup {finished'[i] : i \in 1..Len(finished')}
    <3>1. ASSUME NEW i \in 1..Len(finished), i # 1
          PROVE  finished[i] = finished'[i - 1] /\ i - 1 \in 1..Len(finished')
      BY <2>2, <3>1
    <3>2. ASSUME NEW i \in 1..Len(finished')
          PROVE  finished'[i] = finished[i + 1] /\ i + 1 \in 1..Len(finished)
      BY <2>2
    <3>3. 1 \in 1..Len(finished)
      BY <2>2
    <3>4. ASSUME NEW i \in 1..Len(finished)
          PROVE  finished[i] \in {finished[1]} \cup {finished'[k] : k \in 1..Len(finished')}
      BY <3>1
    <3>5. ASSUME NEW i \in 1..Len(finished')
          PROVE  finished'[i] \in {finished[k] : k \in 1..Len(finished)}
      BY <3>2
    <3>6. finished[1] \in {finished[k] : k \in 1..Len(finished)}
      BY <3>3
    <3> QED BY <3>4, <3>5, <3>6
  <2> QED BY <2>1, <2>2, <2>3 DEF Emitted
<1>3. ASSUME UNCHANGED <<finished, read>> PROVE Emitted' = Emitted
  BY <1>3 DEF Emitted
<1>4. CASE \E c \in Callers : CallerStep(c) \/ ReportChunk(c)
  <2> SUFFICES ASSUME NEW c \in Callers, CallerStep(c) \/ ReportChunk(c), ~Send(c)
               PROVE  UNCHANGED <<finished, read>>
    BY <1>1, <1>3, <1>4
  <2> QED BY DEF CallerStep, Start, ReportChunk, End, Register, BackPressure,
                 GiveUp, Leave, hookVars, readVars
<1>5. CASE \/ \E k \in Closers : CloserStep(k)
           \/ ReaderStops \/ UNCHANGED vars
  BY <1>3, <1>5 DEF CloserStep, CloseBegin, CloseEnd, ReaderStops, vars,
                    hookVars, readVars
<1> QED BY <1>2, <1>4, <1>5 DEF Next

(* Every step keeps what is said of a caller's record.                     *)
LEMMA RecordStep ==
    ASSUME TypeOK, [Next]_vars, NEW c \in Callers, Account(c), Record(c)
    PROVE  Record(c)'
<1>1. closed => closed'
  <2>1. UNCHANGED closed \/ closed'
    BY DEF Next, CallerStep, CloserStep, Start, ReportChunk, End, Register, Send,
           BackPressure, GiveUp, Leave, CloseBegin, CloseEnd, Read, ReaderStops,
           vars, hookVars
  <2> QED BY <2>1
<1>2. Emitted \subseteq Emitted'
  BY EmittedStep
<1>3. ASSUME NEW m \in Emitted', m.of = c
      PROVE  m.chunks = reported'[c] /\ pc'[c] \in {"leave", "done"}
  <2>1. CASE m \in Emitted
    <3>1. m.chunks = reported[c] /\ pc[c] \in {"leave", "done"}
      BY <1>3, <2>1 DEF Record
    <3> QED BY <3>1, ReachesItsEnd DEF Send
  <2>2. CASE m \notin Emitted
    <3>1. PICK d \in Callers : Send(d) /\ m = [of |-> d, chunks |-> hand[d]]
      BY <2>2, EmittedStep
    <3>2. d = c /\ m.chunks = hand[c]
      BY <1>3, <3>1
    <3>3. /\ pc[c] \in {"try", "blocked"} /\ pc'[c] = "leave"
          /\ reported'[c] = reported[c]
      BY <3>1, <3>2 DEF Send, TypeOK
    <3> QED BY <3>2, <3>3 DEF Account
  <2> QED BY <2>1, <2>2
<1>4. ASSUME ~closed', pc'[c] \in {"leave", "done"}
      PROVE  \/ \E m \in Emitted' : m.of = c
             \/ pc'[c] = "done" /\ c \in Unitless /\ reported'[c] = 0
  <2>1. ~closed /\ reported'[c] = reported[c]
    BY <1>1, <1>4, ReachesItsEnd
  <2>2. CASE pc[c] \in {"leave", "done"} /\ (pc[c] = "done" => pc'[c] = "done")
    BY <1>2, <2>1, <2>2 DEF Record
  <2>3. CASE pc[c] = "chunk" /\ c \notin DOMAIN metrics /\ pc'[c] = "done"
    BY <2>1, <2>3 DEF Account
  <2>4. CASE Send(c)
    <3>1. [of |-> c, chunks |-> hand[c]] \in Emitted'
      <4>1. finished \in Seq(Metric) /\ [of |-> c, chunks |-> hand[c]] \in Metric
        BY DEF TypeOK, Metric
      <4>2. finished' = Append(finished, [of |-> c, chunks |-> hand[c]])
        BY <2>4 DEF Send
      <4>3. Len(finished) \in Nat
        BY <4>1
      <4>4. /\ Len(finished') = Len(finished) + 1
            /\ finished'[Len(finished) + 1] = [of |-> c, chunks |-> hand[c]]
        BY <4>1, <4>2, InAppend
      <4> QED BY <4>3, <4>4 DEF Emitted
    <3> QED BY <3>1
  <2> QED BY <1>4, <2>1, <2>2, <2>3, <2>4, ReachesItsEnd
<1> QED BY <1>3, <1>4 DEF Record

(* No caller has two records.                                              *)
LEMMA DistinctStep ==
    ASSUME TypeOK, [Next]_vars, Distinct, \A c \in Callers : Record(c)
    PROVE  Distinct'
<1>0. finished \in Seq(Metric) /\ Len(finished) \in Nat
  BY DEF TypeOK
<1>1. ASSUME NEW c \in Callers, Send(c) PROVE Distinct'
  <2> DEFINE r == [of |-> c, chunks |-> hand[c]]
  <2>1. r \in Metric /\ r.of = c
    BY DEF TypeOK, Metric
  <2>2. finished' = Append(finished, r) /\ read' = read
    BY <1>1 DEF Send, readVars
  <2>3. \A m \in Emitted : m.of # c
    BY <1>1 DEF Send, Record
  <2> HIDE DEF r
  <2>4. /\ Len(finished') = Len(finished) + 1 /\ finished'[Len(finished) + 1] = r
        /\ \A i \in 1..Len(finished) : finished'[i] = finished[i]
    BY <1>0, <2>1, <2>2, InAppend
  <2>5. r \notin read /\ \A i \in 1..Len(finished) : finished[i].of # c
    BY <2>1, <2>3 DEF Emitted
  <2>6. \A i \in 1..Len(finished') : i \in 1..Len(finished) \/ i = Len(finished) + 1
    BY <1>0, <2>4
  <2> QED BY <2>1, <2>2, <2>4, <2>5, <2>6 DEF Distinct
<1>2. CASE Read
  <2>1. /\ finished # <<>>
        /\ read' = read \cup {Head(finished)} /\ finished' = Tail(finished)
    BY <1>2 DEF Read
  <2>2. /\ Len(finished') = Len(finished) - 1 /\ Len(finished) \in Nat \ {0}
        /\ Head(finished) = finished[1]
        /\ \A i \in 1..Len(finished) - 1 : finished'[i] = finished[i + 1]
    BY <1>0, <2>1, InTail
  <2>3. ASSUME NEW i \in 1..Len(finished')
        PROVE  /\ finished'[i] = finished[i + 1] /\ i + 1 \in 1..Len(finished)
               /\ i + 1 # 1 /\ 1 \in 1..Len(finished)
    BY <2>2
  <2>4. ASSUME NEW i \in 1..Len(finished') PROVE finished'[i] \notin read'
    BY <2>1, <2>2, <2>3 DEF Distinct
  <2>5. ASSUME NEW i \in 1..Len(finished'), NEW j \in 1..Len(finished'),
               finished'[i].of = finished'[j].of
        PROVE  i = j
    <3>1. i + 1 = j + 1
      BY <2>3, <2>5 DEF Distinct
    <3> QED BY <2>2, <3>1
  <2> QED BY <2>4, <2>5 DEF Distinct
<1>3. ASSUME UNCHANGED <<finished, read>> PROVE Distinct'
  BY <1>3 DEF Distinct
<1>4. CASE \E c \in Callers : CallerStep(c) \/ ReportChunk(c)
  <2> SUFFICES ASSUME NEW c \in Callers, CallerStep(c) \/ ReportChunk(c), ~Send(c)
               PROVE  UNCHANGED <<finished, read>>
    BY <1>1, <1>3, <1>4
  <2> QED BY DEF CallerStep, Start, ReportChunk, End, Register, BackPressure,
                 GiveUp, Leave, hookVars, readVars
<1>5. CASE \/ \E k \in Closers : CloserStep(k)
           \/ ReaderStops \/ UNCHANGED vars
  BY <1>3, <1>5 DEF CloserStep, CloseBegin, CloseEnd, ReaderStops, vars,
                    hookVars, readVars
<1> QED BY <1>2, <1>4, <1>5 DEF Next

(* The books are kept in every reachable state.                            *)
LEMMA BooksAreKept == Spec => [](TypeOK /\ Books)
<1>1. Init => Books
  <2> SUFFICES ASSUME Init PROVE Books
    OBVIOUS
  <2>1. Emitted = {} /\ Distinct
    BY DEF Init, Emitted, Distinct
  <2>2. \A c \in Callers : Account(c) /\ Record(c)
    BY <2>1 DEF Init, Account, Record
  <2> QED BY <2>1, <2>2 DEF Books
<1>2. TypeOK /\ Books /\ [Next]_vars => Books'
  BY AccountStep, RecordStep, DistinctStep DEF Books
<1>3. CloseInv => TypeOK
  BY DEF CloseInv
<1> QED BY <1>1, <1>2, <1>3, CloseIsCoordinated, PTL DEF Spec

(* Every caller's metrics arrive once, with the chunks it reported.        *)
THEOREM MetricsArriveExact == Spec => []MetricsAreExact
<1>1. TypeOK /\ Books => MetricsAreExact
  <2> SUFFICES ASSUME TypeOK, Books, NEW m \in Emitted
               PROVE  m.chunks = reported[m.of] /\ pc[m.of] \in {"leave", "done"}
    BY DEF Books, Distinct, MetricsAreExact
  <2>1. m \in Metric
    BY DEF Emitted, TypeOK
  <2>2. m.of \in Callers
    BY <2>1 DEF Metric
  <2> QED BY <2>2 DEF Books, Record
<1> QED BY <1>1, BooksAreKept, PTL

(* Until Close is called every caller that ended has delivered its metrics.*)
THEOREM OpenHookDropsNothing == Spec => []NothingDroppedBeforeClose
<1>1. Books => NothingDroppedBeforeClose
  BY DEF Books, Record, NothingDroppedBeforeClose
<1> QED BY <1>1, BooksAreKept, PTL
=============================================================================
