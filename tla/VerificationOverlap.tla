------------------------ MODULE VerificationOverlap ------------------------
(***************************************************************************)
(* The decision one verification overlap worker takes for one chunk that   *)
(* several detectors match (verificationOverlapWorker in                   *)
(* pkg/engine/engine.go): it runs every detector without verification,     *)
(* reports a secret that an earlier detector of another type already found *)
(* as an overlap, and queues the other detectors to run again with         *)
(* verification.                                                           *)
(*                                                                         *)
(* The detectors come in the iteration order of a Go map, which is any     *)
(* order.                                                                  *)
(***************************************************************************)
EXTENDS OverlapDecision

CONSTANT Inputs    \* the findings to consider: detector -> matches -> results

ASSUME InputsAssumption ==
    \A f \in Inputs : \A d \in Dets : f[d] \in Seq(Seq(Secrets))

-----------------------------------------------------------------------------
(* The worker on one chunk, a detector, a match and a result at a time.    *)
VARIABLES findings,   \* what each detector finds: matches, each with results
          pending,    \* detectors not run yet
          current,    \* the detector of the loop, once there is one
          matches,    \* its matches that are left
          results,    \* the results that are left of its last match
          state,      \* see Fresh
          redetect,   \* detectors queued with verification
          phase

vars == <<findings, pending, current, matches, results, state, redetect, phase>>

Init ==
    /\ findings \in Inputs
    /\ pending = Dets
    /\ current \in Dets /\ matches = <<>> /\ results = <<>>
    /\ state = Fresh
    /\ redetect = {}
    /\ phase = "detect"

(* for _, detector := range chunk.detectors *)
Detect(d) ==
    /\ phase = "detect" /\ matches = <<>> /\ results = <<>>
    /\ d \in pending
    /\ pending' = pending \ {d}
    /\ current' = d /\ matches' = findings[d]
    /\ UNCHANGED <<findings, results, state, redetect, phase>>

(* FromData on the next match. *)
Match ==
    /\ matches # <<>> /\ results = <<>>
    /\ matches' = Tail(matches)
    /\ results' = Head(matches)
    /\ state' = BeginMatch(state, current, Head(matches))
    /\ UNCHANGED <<findings, pending, current, redetect, phase>>

(* The next result of the match, unless filterResults removed it. *)
Result ==
    /\ results # <<>>
    /\ results' = Tail(results)
    /\ state' = IF Head(results) \in Dropped THEN state
                ELSE TakeResult(state, current, Head(results))
    /\ UNCHANGED <<findings, pending, current, matches, redetect, phase>>

(* The detector keys left are queued, in any order, and then forgotten. *)
Queue ==
    /\ phase = "detect" /\ matches = <<>> /\ results = <<>>
    /\ pending = {}
    /\ redetect' = state.withResults
    /\ phase' = "done"
    /\ UNCHANGED <<findings, pending, current, matches, results, state>>

Next == (\E d \in Dets : Detect(d)) \/ Match \/ Result \/ Queue

Spec == Init /\ [][Next]_vars

-----------------------------------------------------------------------------
Done == phase = "done"

(* The secrets of some matches that filterResults keeps. *)
SecretsOf(found) ==
    {s \in Secrets \ Dropped : \E m \in ToSet(found) : s \in ToSet(m)}
Found(d) == SecretsOf(findings[d])

(* A detector whose secrets resemble no secret of another detector type is *)
(* always run again with verification, whatever the others find: two       *)
(* custom detectors of one type, or one detector meeting its own secret    *)
(* twice, never hold each other back.                                      *)
UnrivalledIsVerified ==
    Done =>
      \A d \in Dets :
        /\ \E m \in ToSet(findings[d]) : m # <<>>
        /\ \A e \in Dets, s \in Found(d) : \A t \in Found(e) :
              TypeOf[e] # TypeOf[d] => <<s, t>> \notin Similar
        => d \in redetect

(* A secret that detectors of two types found, each resembling the other   *)
(* for likelyDuplicate, never passes unnoticed: whichever of them has its  *)
(* turn first, one of the two results is reported as an overlap.           *)
SharedIsReported ==
    Done =>
      \A d, e \in Dets : \A s \in Found(d), t \in Found(e) :
        TypeOf[d] # TypeOf[e] /\ {<<s, t>>, <<t, s>>} \subseteq Similar =>
            \/ [det |-> d, secret |-> s] \in state.overlaps
            \/ [det |-> e, secret |-> t] \in state.overlaps

(* A result goes out with errOverlap only when a detector of another type  *)
(* really found a similar secret in the same chunk.                        *)
OverlapIsGenuine ==
    \A r \in state.overlaps : \E d \in Dets \ pending :
        /\ TypeOf[d] # TypeOf[r.det]
        /\ \E s \in Found(d) : <<r.secret, s>> \in Similar
=============================================================================
