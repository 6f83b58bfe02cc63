---------------------- MODULE VerificationOverlapProofs ----------------------
(***************************************************************************)
(* Proofs about VerificationOverlap: for any detectors and types, any      *)
(* resemblance of the secrets in which a secret resembles itself, any      *)
(* findings and any order of the detectors, an overlap is genuine, a       *)
(* secret that two types share is reported as one, and a detector whose    *)
(* secrets nobody shares is run again.                                     *)
(*                                                                         *)
(* The argument: the secrets met are found by the detectors that have had  *)
(* their turn; of two similar ones the later was an overlap when it was    *)
(* met; and a detector leaves the keys to run again only with one of its   *)
(* results reported as an overlap.                                         *)
(***************************************************************************)
EXTENDS VerificationOverlap, TLAPS

States == [withResults : SUBSET Dets, secrets : SUBSET Reports, overlaps : SUBSET Reports]

Types ==
    /\ findings \in Inputs /\ pending \subseteq Dets /\ current \in Dets
    /\ matches \in Seq(Seq(Secrets)) /\ results \in Seq(Secrets)
    /\ state \in States
    /\ phase \in {"detect", "done"}

(* The loop: what is left of the detector at hand is what it finds; the    *)
(* worker queues when nothing is left.                                     *)
Loop ==
    /\ ToSet(matches) \subseteq ToSet(findings[current])
    /\ \A s \in ToSet(results) : \E m \in ToSet(findings[current]) : s \in ToSet(m)
    /\ matches # <<>> \/ results # <<>> => current \notin pending
    /\ Done => /\ redetect = state.withResults
               /\ pending = {} /\ matches = <<>> /\ results = <<>>

Left(s) == s \in ToSet(results) \/ \E m \in ToSet(matches) : s \in ToSet(m)

(* The secrets met are those found so far.                                 *)
Met ==
    /\ \A k \in state.secrets : k.det \notin pending /\ k.secret \in Found(k.det)
    /\ \A d \in Dets \ pending : \A s \in Found(d) :
          [det |-> d, secret |-> s] \in state.secrets \/ (d = current /\ Left(s))

(* An overlap was met, and resembles one that was.                         *)
Genuine ==
    \A r \in state.overlaps :
        /\ r \in state.secrets
        /\ \E k \in state.secrets :
              TypeOf[k.det] # TypeOf[r.det] /\ <<r.secret, k.secret>> \in Similar

(* Of two secrets of different types that resemble each other, one is an   *)
(* overlap.                                                                *)
Shared(k, l) ==
    TypeOf[k.det] # TypeOf[l.det]
        /\ {<<k.secret, l.secret>>, <<l.secret, k.secret>>} \subseteq Similar

Noticed ==
    \A k, l \in state.secrets : Shared(k, l) => k \in state.overlaps \/ l \in state.overlaps

Unrivalled(d) ==
    \A e \in Dets, s \in Found(d) : \A t \in Found(e) :
        TypeOf[e] # TypeOf[d] => <<s, t>> \notin Similar

(* So is one without a rival, once it had a match with results.            *)
UnrivalledStays ==
    \A d \in Dets \ pending :
        Unrivalled(d) /\ (\E m \in ToSet(findings[d]) : m # <<>>) =>
            d \in state.withResults \/ (d = current /\ \E m \in ToSet(matches) : m # <<>>)

IInv == Types /\ Loop /\ Met /\ Genuine /\ Noticed /\ UnrivalledStays

-----------------------------------------------------------------------------
(* Taking the head of a sequence.                                          *)
LEMMA HeadAndTail ==
    ASSUME NEW S, NEW q \in Seq(S), q # <<>>
    PROVE  /\ Head(q) \in S /\ Tail(q) \in Seq(S) /\ ToSet(q) \subseteq S
           /\ ToSet(q) = {Head(q)} \cup ToSet(Tail(q))
<1>1. Len(q) \in Nat /\ Len(q) > 0 /\ DOMAIN q = 1..Len(q)
  OBVIOUS
<1>2. /\ Head(q) = q[1] /\ Head(q) \in S /\ Tail(q) \in Seq(S)
      /\ DOMAIN Tail(q) = 1..Len(q) - 1
      /\ \A i \in 1..Len(q) - 1 : Tail(q)[i] = q[i + 1]
  BY <1>1
<1>3. ToSet(q) \subseteq S
  BY <1>1 DEF ToSet
<1>4. ASSUME NEW x \in ToSet(q) PROVE x \in {Head(q)} \cup ToSet(Tail(q))
  <2>1. PICK i \in 1..Len(q) : x = q[i]
    BY <1>1 DEF ToSet
  <2>2. CASE i = 1
    BY <1>2, <2>1, <2>2
  <2>3. CASE i # 1
    <3>1. i - 1 \in 1..Len(q) - 1 /\ (i - 1) + 1 = i
      BY <1>1, <2>3
    <3>2. x = Tail(q)[i - 1]
      BY <1>2, <2>1, <3>1
    <3> QED BY <1>2, <3>1, <3>2 DEF ToSet
  <2> QED BY <2>2, <2>3
<1>5. Head(q) \in ToSet(q)
  BY <1>1, <1>2 DEF ToSet
<1>6. ASSUME NEW x \in ToSet(Tail(q)) PROVE x \in ToSet(q)
  <2>1. PICK i \in 1..Len(q) - 1 : x = Tail(q)[i]
    BY <1>2 DEF ToSet
  <2>2. x = q[i + 1] /\ i + 1 \in 1..Len(q)
    BY <1>1, <1>2, <2>1
  <2> QED BY <1>1, <2>2 DEF ToSet
<1> QED BY <1>2, <1>3, <1>4, <1>5, <1>6

LEMMA NothingInEmpty == ToSet(<<>>) = {}
BY DEF ToSet

LEMMA FindingsType ==
    ASSUME findings \in Inputs
    PROVE  \A d \in Dets : findings[d] \in Seq(Seq(Secrets)) /\ Found(d) \subseteq Secrets \ Dropped
BY InputsAssumption DEF Found, SecretsOf

(* The secrets of d that filterResults keeps.                              *)
LEMMA FoundIs ==
    ASSUME NEW d, NEW s \in Secrets
    PROVE  s \in Found(d) <=> s \notin Dropped /\ \E m \in ToSet(findings[d]) : s \in ToSet(m)
BY DEF Found, SecretsOf

LEMMA InitHolds == Init => IInv
<1> SUFFICES ASSUME Init PROVE IInv
  OBVIOUS
<1>1. state = [withResults |-> {}, secrets |-> {}, overlaps |-> {}]
  BY DEF Init, Fresh
<1>2. Types /\ Loop
  BY <1>1, NothingInEmpty DEF Init, Types, States, Loop, Done
<1>3. Met /\ Genuine /\ Noticed /\ UnrivalledStays
  BY <1>1 DEF Init, Met, Genuine, Noticed, UnrivalledStays
<1> QED BY <1>2, <1>3 DEF IInv

(* A detector gets its turn.                                               *)
LEMMA DetectKeeps ==
    ASSUME IInv, NEW d \in Dets, Detect(d)
    PROVE  IInv'
<1> USE DEF IInv
<1>1. /\ phase = "detect" /\ matches = <<>> /\ results = <<>> /\ d \in pending
      /\ pending' = pending \ {d} /\ current' = d /\ matches' = findings[d] /\ results' = <<>>
      /\ UNCHANGED <<findings, state, redetect, phase>>
  BY DEF Detect
<1>2. findings[d] \in Seq(Seq(Secrets))
  BY FindingsType DEF Types
<1>3. Types'
  BY <1>1, <1>2 DEF Types
<1>4. Loop'
  BY <1>1, NothingInEmpty DEF Loop, Done
<1>5. \A e \in Dets : Found(e)' = Found(e)
  BY <1>1 DEF Found
<1>6. Met'
  <2>1. ASSUME NEW k \in state.secrets PROVE k.det \notin pending' /\ k.secret \in Found(k.det)'
    <3>1. k.det \in Dets
      BY DEF Types, States, Reports
    <3> QED BY <1>1, <1>5, <3>1 DEF Met
  <2>2. ASSUME NEW e \in Dets \ pending', NEW s \in Found(e)'
        PROVE  [det |-> e, secret |-> s] \in state.secrets \/ (e = d /\ Left(s)')
    <3>1. s \in Found(e)
      BY <1>5
    <3>2. CASE e = d
      <4>1. s \in Secrets
        BY <3>1, FindingsType DEF Types
      <4>2. \E m \in ToSet(findings[d]) : s \in ToSet(m)
        BY <3>1, <3>2, <4>1, FoundIs
      <4> QED BY <1>1, <3>2, <4>2 DEF Left
    <3>3. CASE e # d
      <4>1. e \in Dets \ pending /\ ~Left(s)
        BY <1>1, <3>3, NothingInEmpty DEF Left
      <4> QED BY <3>1, <4>1 DEF Met
    <3> QED BY <3>2, <3>3
  <2> QED BY <1>1, <2>1, <2>2 DEF Met
<1>7. Genuine' /\ Noticed'
  BY <1>1 DEF Genuine, Noticed, Shared
<1>8. UnrivalledStays'
  <2>1. ASSUME NEW e \in Dets \ pending', Unrivalled(e)', \E m \in ToSet(findings[e]) : m # <<>>
        PROVE  e \in state.withResults \/ (e = d /\ \E m \in ToSet(matches') : m # <<>>)
    <3>1. CASE e = d
      BY <1>1, <2>1, <3>1
    <3>2. CASE e # d
      <4>1. Unrivalled(e) /\ e \notin pending
        BY <1>1, <1>5, <2>1, <3>2 DEF Unrivalled
      <4> QED BY <1>1, <2>1, <4>1, NothingInEmpty DEF UnrivalledStays
    <3> QED BY <3>1, <3>2
  <2> QED BY <1>1, <2>1 DEF UnrivalledStays
<1> QED BY <1>3, <1>4, <1>6, <1>7, <1>8

(* FromData runs on a match.                                               *)
LEMMA MatchKeeps ==
    ASSUME IInv, Match
    PROVE  IInv'
<1> USE DEF IInv
<1> DEFINE match == Head(matches)
<1>1. /\ matches # <<>> /\ results = <<>> /\ matches' = Tail(matches) /\ results' = match
      /\ state' = BeginMatch(state, current, match)
      /\ UNCHANGED <<findings, pending, current, redetect, phase>>
  BY DEF Match
<1>2. /\ match \in Seq(Secrets) /\ matches' \in Seq(Seq(Secrets))
      /\ ToSet(matches) = {match} \cup ToSet(matches')
  BY <1>1, HeadAndTail DEF Types
<1>3. /\ state' \in States
      /\ state'.secrets = state.secrets /\ state'.overlaps = state.overlaps
      /\ state.withResults \subseteq state'.withResults
      /\ match # <<>> => current \in state'.withResults
  BY <1>1 DEF BeginMatch, Types, States
<1>4. Types'
  BY <1>1, <1>2, <1>3 DEF Types
<1>5. Loop'
  <2>1. match \in ToSet(findings[current])
    BY <1>2 DEF Loop
  <2> QED BY <1>1, <1>2, <2>1 DEF Loop, Done
<1>6. \A e \in Dets : Found(e)' = Found(e)
  BY <1>1 DEF Found
<1>7. \A s : Left(s) => Left(s)'
  <2>1. ASSUME NEW s, Left(s) PROVE Left(s)'
    <3>1. PICK m \in ToSet(matches) : s \in ToSet(m)
      BY <1>1, <2>1, NothingInEmpty DEF Left
    <3> QED BY <1>1, <1>2, <3>1 DEF Left
  <2> QED BY <2>1
<1>8. Met'
  <2>1. \A k \in state.secrets : k.det \in Dets
    BY DEF Types, States, Reports
  <2> QED BY <1>1, <1>3, <1>6, <1>7, <2>1 DEF Met
<1>9. Genuine'
  BY <1>3 DEF Genuine
<1>10. Noticed'
  BY <1>3 DEF Noticed, Shared
<1>11. UnrivalledStays'
  <2>1. \A e \in Dets : Unrivalled(e)' => Unrivalled(e)
    BY <1>6 DEF Unrivalled
  <2> QED BY <1>1, <1>2, <1>3, <2>1 DEF UnrivalledStays
<1> QED BY <1>4, <1>5, <1>8, <1>9, <1>10, <1>11

-----------------------------------------------------------------------------
(* What a result does to what the worker remembers: nothing, or the key is *)
(* new and, as an overlap or not, is remembered.                           *)
Same == state' = state

Reported(key) ==
    /\ key.secret \notin Dropped
    /\ \E k \in state.secrets : TypeOf[k.det] # TypeOf[key.det] /\ <<key.secret, k.secret>> \in Similar
    /\ state'.withResults = state.withResults \ {key.det}
    /\ state'.secrets = state.secrets \cup {key}
    /\ state'.overlaps = state.overlaps \cup {key}

Remembered(key) ==
    /\ key.secret \notin Dropped
    /\ \A k \in state.secrets : TypeOf[k.det] # TypeOf[key.det] => <<key.secret, k.secret>> \notin Similar
    /\ state'.withResults = state.withResults
    /\ state'.secrets = state.secrets \cup {key}
    /\ state'.overlaps = state.overlaps

LEMMA ResultIs ==
    ASSUME Types, Result
    PROVE  LET s == Head(results)
               key == [det |-> current, secret |-> s]
           IN  /\ s \in Secrets /\ key \in Reports /\ state' \in States
               /\ results' \in Seq(Secrets) /\ ToSet(results) = {s} \cup ToSet(results')
               /\ \/ Same /\ (s \in Dropped \/ key \in state.secrets)
                  \/ Reported(key) \/ Remembered(key)
<1> DEFINE s == Head(results)
           key == [det |-> current, secret |-> s]
<1>1. /\ s \in Secrets /\ results' \in Seq(Secrets)
      /\ ToSet(results) = {s} \cup ToSet(results')
  BY HeadAndTail DEF Types, Result
<1>2. key \in Reports /\ state \in States
  BY <1>1 DEF Types, Reports
<1>3. state' = IF s \in Dropped THEN state ELSE TakeResult(state, current, s)
  BY DEF Result
<1>4. CASE s \in Dropped
  BY <1>1, <1>2, <1>3, <1>4 DEF Same
<1>5. CASE s \notin Dropped /\ key \in state.secrets
  BY <1>1, <1>2, <1>3, <1>5 DEF Same, TakeResult
<1>6. CASE /\ s \notin Dropped /\ key \notin state.secrets
           /\ LikelyDuplicate(current, s, state.secrets)
  <2>1. state' = [withResults |-> state.withResults \ {current},
                  secrets |-> state.secrets \cup {key},
                  overlaps |-> state.overlaps \cup {key}]
    BY <1>3, <1>6 DEF TakeResult
  <2>2. state' \in States
    BY <1>2, <2>1 DEF States
  <2>3. Reported(key)
    BY <1>6, <2>1 DEF Reported, LikelyDuplicate
  <2> QED BY <1>1, <1>2, <2>2, <2>3
<1>7. CASE /\ s \notin Dropped /\ key \notin state.secrets
           /\ ~LikelyDuplicate(current, s, state.secrets)
  <2>1. state' = [state EXCEPT !.secrets = @ \cup {key}]
    BY <1>3, <1>7 DEF TakeResult
  <2>2. state' \in States
    BY <1>2, <2>1 DEF States
  <2>3. Remembered(key)
    BY <1>2, <1>7, <2>1 DEF Remembered, LikelyDuplicate, States
  <2> QED BY <1>1, <1>2, <2>2, <2>3
<1> QED BY <1>4, <1>5, <1>6, <1>7

(* The worker takes a result.                                              *)
LEMMA ResultKeeps ==
    ASSUME IInv, Result
    PROVE  IInv'
<1> USE DEF IInv
<1> DEFINE s == Head(results)
           key == [det |-> current, secret |-> s]
<1>1. /\ results # <<>>
      /\ UNCHANGED <<findings, pending, current, matches, redetect, phase>>
  BY DEF Result
<1>2. /\ s \in Secrets /\ key \in Reports /\ state' \in States
      /\ results' \in Seq(Secrets) /\ ToSet(results) = {s} \cup ToSet(results')
  BY ResultIs DEF Types
<1>3. \/ Same /\ (s \in Dropped \/ key \in state.secrets)
      \/ Reported(key) \/ Remembered(key)
  BY ResultIs
<1>k. key.det = current /\ key.secret = s /\ current \notin pending /\ current \in Dets
  BY <1>1 DEF Loop, Types
<1> HIDE DEF s, key
<1>4. /\ state.secrets \subseteq state'.secrets /\ state.overlaps \subseteq state'.overlaps
      /\ state'.secrets \subseteq state.secrets \cup {key}
      /\ \A d \in state.withResults : d # current => d \in state'.withResults
      /\ state'.withResults \subseteq state.withResults
      /\ current \in state.withResults => current \in state'.withResults \/ key \in state'.overlaps
      /\ s \notin Dropped => key \in state'.secrets
  BY <1>3, <1>k DEF Same, Reported, Remembered
<1>5. Types'
  BY <1>1, <1>2 DEF Types
<1>6. Loop'
  BY <1>1, <1>2 DEF Loop, Done
<1>7. \A e \in Dets : Found(e)' = Found(e)
  BY <1>1 DEF Found
<1>8. s \notin Dropped => s \in Found(current)
  <2>1. \E m \in ToSet(findings[current]) : s \in ToSet(m)
    BY <1>2 DEF Loop
  <2> QED BY <1>2, <2>1, FoundIs
<1>9. ASSUME NEW x, Left(x) PROVE Left(x)' \/ x = s
  BY <1>1, <1>2, <1>9 DEF Left
<1>m. \A k \in state'.secrets : k \in state.secrets \/ (k = key /\ s \notin Dropped)
  BY <1>3, <1>k DEF Same, Reported, Remembered
<1>10. Met'
  <2>1. ASSUME NEW k \in state'.secrets PROVE k.det \notin pending /\ k.secret \in Found(k.det)'
    <3>1. CASE k \in state.secrets
      <4>1. k.det \in Dets
        BY <3>1 DEF Types, States, Reports
      <4> QED BY <1>7, <3>1, <4>1 DEF Met
    <3>2. CASE k = key /\ s \notin Dropped
      BY <1>7, <1>8, <1>k, <3>2
    <3> QED BY <1>m, <3>1, <3>2
  <2>2. ASSUME NEW e \in Dets \ pending, NEW x \in Found(e)'
        PROVE  [det |-> e, secret |-> x] \in state'.secrets \/ (e = current /\ Left(x)')
    <3>1. x \in Found(e) /\ x \notin Dropped
      BY <1>7, FindingsType DEF Types
    <3>2. CASE [det |-> e, secret |-> x] \in state.secrets
      BY <1>4, <3>2
    <3>3. CASE e = current /\ Left(x)
      <4>1. CASE Left(x)'
        BY <3>3, <4>1
      <4>2. CASE x = s
        <5>1. [det |-> e, secret |-> x] = key
          BY <3>3, <4>2 DEF key
        <5> QED BY <1>4, <3>1, <4>2, <5>1
      <4> QED BY <1>9, <3>3, <4>1, <4>2
    <3> QED BY <3>1, <3>2, <3>3 DEF Met
  <2> QED BY <1>1, <2>1, <2>2 DEF Met
<1>11. Genuine'
  <2>1. CASE Same
    BY <2>1 DEF Same, Genuine
  <2>2. CASE Reported(key)
    <3>1. ASSUME NEW r \in state'.overlaps
          PROVE  /\ r \in state'.secrets
                 /\ \E k \in state'.secrets :
                       TypeOf[k.det] # TypeOf[r.det] /\ <<r.secret, k.secret>> \in Similar
      <4>1. CASE r \in state.overlaps
        BY <1>4, <4>1 DEF Genuine
      <4>2. CASE r = key
        BY <1>4, <2>2, <4>2 DEF Reported
      <4> QED BY <2>2, <4>1, <4>2 DEF Reported
    <3> QED BY <3>1 DEF Genuine
  <2>3. CASE Remembered(key)
    BY <1>4, <2>3 DEF Remembered, Genuine
  <2> QED BY <1>3, <2>1, <2>2, <2>3
<1>12. Noticed'
  <2> SUFFICES ASSUME NEW k \in state'.secrets, NEW l \in state'.secrets, Shared(k, l)
               PROVE  k \in state'.overlaps \/ l \in state'.overlaps
    BY DEF Noticed, Shared
  <2>1. CASE k \in state.secrets /\ l \in state.secrets
    BY <1>4, <2>1 DEF Noticed
  <2>2. CASE k = key /\ l = key
    BY <2>2 DEF Shared
  <2>3. CASE Reported(key) /\ (k = key \/ l = key)
    BY <2>3 DEF Reported
  <2>4. ASSUME Remembered(key), NEW o \in state.secrets, Shared(key, o) \/ Shared(o, key)
        PROVE  FALSE
    BY <2>4 DEF Remembered, Shared
  <2>5. CASE Same
    BY <2>1, <2>5 DEF Same
  <2> QED BY <1>3, <1>m, <2>1, <2>2, <2>3, <2>4, <2>5
<1>13. UnrivalledStays'
  <2>1. ASSUME NEW d \in Dets \ pending, Unrivalled(d)', \E m \in ToSet(findings[d]) : m # <<>>
        PROVE  d \in state'.withResults \/ (d = current /\ \E m \in ToSet(matches) : m # <<>>)
    <3>1. Unrivalled(d)
      BY <1>7, <2>1 DEF Unrivalled
    <3>2. d \in state.withResults \/ (d = current /\ \E m \in ToSet(matches) : m # <<>>)
      BY <2>1, <3>1 DEF UnrivalledStays
    <3>3. CASE d # current
      BY <1>4, <3>2, <3>3
    <3>4. CASE d = current
      <4>1. ~Reported(key)
        <5>1. SUFFICES ASSUME Reported(key) PROVE FALSE
          OBVIOUS
        <5>2. PICK k \in state.secrets :
                 TypeOf[k.det] # TypeOf[current] /\ <<s, k.secret>> \in Similar
          BY <1>k, <5>1 DEF Reported
        <5>3. s \in Found(current)
          BY <1>8, <1>k, <5>1 DEF Reported
        <5>4. k.det \in Dets /\ k.secret \in Found(k.det)
          BY DEF Met, Types, States, Reports
        <5> QED BY <3>1, <3>4, <5>2, <5>3, <5>4 DEF Unrivalled
      <4>2. state'.withResults = state.withResults
        BY <1>3, <4>1 DEF Same, Remembered
      <4> QED BY <3>2, <4>2
    <3> QED BY <3>3, <3>4
  <2> QED BY <1>1, <2>1 DEF UnrivalledStays
<1> QED BY <1>5, <1>6, <1>10, <1>11, <1>12, <1>13

(* The worker queues the detectors.                                        *)
LEMMA QueueKeeps ==
    ASSUME IInv, Queue \/ UNCHANGED vars
    PROVE  IInv'
<1> USE DEF IInv
<1>1. UNCHANGED <<findings, pending, current, matches, results, state>>
  BY DEF Queue, vars
<1>2. CASE Queue
  <2>1. phase' = "done" /\ redetect' = state.withResults /\ pending = {}
        /\ matches = <<>> /\ results = <<>>
    BY <1>2 DEF Queue
  <2> QED BY <1>1, <2>1 DEF Types, Loop, Done, Met, Found, Left, Genuine, Noticed,
                             Shared, UnrivalledStays, Unrivalled
<1>3. CASE UNCHANGED vars
  BY <1>3 DEF vars, Types, Loop, Done, Met, Found, Left, Genuine, Noticed,
              Shared, UnrivalledStays, Unrivalled
<1> QED BY <1>2, <1>3

LEMMA Inductive == IInv /\ [Next]_vars => IInv'
BY DetectKeeps, MatchKeeps, ResultKeeps, QueueKeeps DEF Next

-----------------------------------------------------------------------------
(* A result reported as an overlap has a counterpart: a detector of        *)
(* another type found a similar secret in the chunk.                       *)
THEOREM OverlapsAreGenuine == Spec => []OverlapIsGenuine
<1>1. ASSUME IInv PROVE OverlapIsGenuine
  <2> SUFFICES ASSUME NEW r \in state.overlaps
               PROVE  \E d \in Dets \ pending :
                         /\ TypeOf[d] # TypeOf[r.det]
                         /\ \E s \in Found(d) : <<r.secret, s>> \in Similar
    BY DEF OverlapIsGenuine
  <2>1. PICK k \in state.secrets :
           TypeOf[k.det] # TypeOf[r.det] /\ <<r.secret, k.secret>> \in Similar
    BY <1>1 DEF IInv, Genuine
  <2>2. k.det \in Dets \ pending /\ k.secret \in Found(k.det)
    BY <1>1 DEF IInv, Met, Types, States, Reports
  <2> QED BY <2>1, <2>2
<1> QED BY <1>1, InitHolds, Inductive, PTL DEF Spec

(* A secret that two detector types share is reported as an overlap by one *)
(* of its finders, whatever the order of the detectors.                    *)
THEOREM SharedAreReported == Spec => []SharedIsReported
<1>1. ASSUME IInv PROVE SharedIsReported
  <2> SUFFICES ASSUME Done, NEW d \in Dets, NEW e \in Dets,
                      NEW s \in Found(d), NEW t \in Found(e), TypeOf[d] # TypeOf[e],
                      {<<s, t>>, <<t, s>>} \subseteq Similar
               PROVE  \/ [det |-> d, secret |-> s] \in state.overlaps
                      \/ [det |-> e, secret |-> t] \in state.overlaps
    BY DEF SharedIsReported
  <2>1. pending = {} /\ matches = <<>> /\ results = <<>>
    BY <1>1 DEF IInv, Loop
  <2>2. [det |-> d, secret |-> s] \in state.secrets /\ [det |-> e, secret |-> t] \in state.secrets
    BY <1>1, <2>1, NothingInEmpty DEF IInv, Met, Left
  <2>3. Shared([det |-> d, secret |-> s], [det |-> e, secret |-> t])
    BY DEF Shared
  <2> QED BY <1>1, <2>2, <2>3 DEF IInv, Noticed
<1> QED BY <1>1, InitHolds, Inductive, PTL DEF Spec

(* A detector whose secrets resemble none of another type is always run    *)
(* again with verification.                                                *)
THEOREM UnrivalledAreVerified == Spec => []UnrivalledIsVerified
<1>1. ASSUME IInv PROVE UnrivalledIsVerified
  <2> SUFFICES ASSUME Done, NEW d \in Dets, Unrivalled(d), \E m \in ToSet(findings[d]) : m # <<>>
               PROVE  d \in redetect
    BY DEF UnrivalledIsVerified, Unrivalled
  <2>1. redetect = state.withResults /\ pending = {} /\ matches = <<>>
    BY <1>1 DEF IInv, Loop
  <2> QED BY <1>1, <2>1, NothingInEmpty DEF IInv, UnrivalledStays
<1> QED BY <1>1, InitHolds, Inductive, PTL DEF Spec
=============================================================================
