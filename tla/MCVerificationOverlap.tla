----------------------- MODULE MCVerificationOverlap -----------------------
(***************************************************************************)
(* Bounded instance of VerificationOverlap: three detectors, the last two  *)
(* custom detectors of one type; two similar secrets, one that resembles   *)
(* the first only when it comes after it (the lengths likelyDuplicate lets *)
(* through depend on the order), and one that filterResults removes; every *)
(* detector finds at most two matches of at most two results.              *)
(***************************************************************************)
EXTENDS VerificationOverlap, TLC

CONSTANTS A, B, C,   \* detectors
          s1, s2, t, u  \* secrets

MCDets == {A, B, C}
MCTypeOf == (A :> "typeA") @@ (B :> "custom") @@ (C :> "custom")
MCSecrets == {s1, s2, t, u}
MCSimilar == {<<s, s>> : s \in MCSecrets} \cup {<<s1, s2>>, <<s2, s1>>, <<t, s1>>}

Matches == {<<>>, <<s1>>, <<s2>>, <<t>>, <<u>>, <<s1, t>>, <<t, s1>>, <<u, s1>>}
FewMatches == {<<>>} \cup {<<m>> : m \in Matches}
MCInputs ==
    {f \in [MCDets -> FewMatches \cup (Matches \X Matches)] :
        f[C] \in FewMatches /\ f[A] \in FewMatches}

(* A detector that shares one of its secrets is not run again, so that a   *)
(* secret only it found is neither verified nor reported: detector A finds *)
(* t and s1, and s1 resembles the s2 that B found before.                  *)
ASSUME SharedSecretCostsTheOthers ==
    LET found == (A :> <<<<t, s1>>>>) @@ (B :> <<<<s2>>>>) @@ (C :> <<>>)
        outcome == Decision(<<B, A, C>>, found)
    IN  /\ A \notin outcome.withResults
        /\ [det |-> A, secret |-> t] \notin outcome.overlaps

(* The comments say that no secret several detectors found is verified,    *)
(* and that a detector with an overlap is not run again.  Neither is so:   *)
(* the first to find a shared secret is run again with verification, and a *)
(* later match, even of the same secret, puts back a detector whose        *)
(* overlap was reported.                                                   *)
ASSUME FirstFinderVerifies ==
    LET found == (A :> <<<<s1>>>>) @@ (B :> <<<<s2>>>>) @@ (C :> <<>>)
    IN  A \in Decision(<<A, B, C>>, found).withResults

ASSUME OverlapIsRedetected ==
    LET found == (A :> <<<<s2>>>>) @@ (B :> <<<<s1>>, <<s1>>>>) @@ (C :> <<>>)
        outcome == Decision(<<A, B, C>>, found)
    IN  /\ [det |-> B, secret |-> s1] \in outcome.overlaps
        /\ B \in outcome.withResults
=============================================================================
