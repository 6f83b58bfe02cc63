--------------------------- MODULE OverlapDecision ---------------------------
(***************************************************************************)
(* How one verification overlap worker treats the results of one chunk,    *)
(* result by result (the detector loop of verificationOverlapWorker in     *)
(* pkg/engine/engine.go), as operators.  VerificationOverlap runs them;    *)
(* MCEngine derives the outcomes the pipeline chooses from.                *)
(***************************************************************************)
EXTENDS Sequences, FiniteSets, SequencesExt

CONSTANTS Dets,     \* detector keys
          TypeOf,   \* detector key -> detector type
          Secrets,
          Similar,  \* pairs <<secret, earlier secret>> close enough to count
          Dropped   \* secrets filterResults removes

ASSUME SimilarAssumption == \A s \in Secrets : <<s, s>> \in Similar

Reports == [det : Dets, secret : Secrets]

(* filterResults on the results of one match *)
Kept(match) == SelectSeq(match, LAMBDA s : s \notin Dropped)

(* What the worker remembers within a chunk: detectorKeysWithResults,      *)
(* chunkSecrets, and the results it sent with errOverlap.                  *)
Fresh == [withResults |-> {}, secrets |-> {}, overlaps |-> {}]

(* Mutant: the detector type is not compared. *)
LikelyDuplicateAnyType(d, s, secrets) ==
    \E k \in secrets : <<s, k.secret>> \in Similar

(* likelyDuplicate: an earlier similar secret of another detector type.    *)
LikelyDuplicate(d, s, secrets) ==
    \E k \in secrets : TypeOf[k.det] # TypeOf[d] /\ <<s, k.secret>> \in Similar

(* Mutant: the secrets met are told apart without their detector. *)
TakeResultSecretOnly(st, d, s) ==
    LET key == [det |-> d, secret |-> s] IN
    IF \E k \in st.secrets : k.secret = s THEN st
    ELSE IF LikelyDuplicate(d, s, st.secrets)
    THEN [withResults |-> st.withResults \ {d},
          secrets |-> st.secrets \cup {key},
          overlaps |-> st.overlaps \cup {key}]
    ELSE [st EXCEPT !.secrets = @ \cup {key}]

(* One result s of detector d. *)
TakeResult(st, d, s) ==
    LET key == [det |-> d, secret |-> s] IN
    IF key \in st.secrets THEN st
    ELSE IF LikelyDuplicate(d, s, st.secrets)
    THEN [withResults |-> st.withResults \ {d},
          secrets |-> st.secrets \cup {key},
          overlaps |-> st.overlaps \cup {key}]
    ELSE [st EXCEPT !.secrets = @ \cup {key}]

(* FromData found these results for one match of detector d.               *)
BeginMatch(st, d, match) ==
    IF match = <<>> THEN st ELSE [st EXCEPT !.withResults = @ \cup {d}]

TakeMatch(st, d, match) ==
    FoldLeft(LAMBDA acc, s : TakeResult(acc, d, s), BeginMatch(st, d, match), Kept(match))

TakeDetector(st, d, matches) ==
    FoldLeft(LAMBDA acc, m : TakeMatch(acc, d, m), st, matches)

(* The whole detector loop, for one order of the detectors. *)
Decision(order, findings) ==
    FoldLeft(LAMBDA acc, d : TakeDetector(acc, d, findings[d]), Fresh, order)
=============================================================================
