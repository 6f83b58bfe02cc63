-------------------------- MODULE MCSourceManager --------------------------
(***************************************************************************)
(* Bounded instance of SourceManager: job j1 has two units, one of them    *)
(* empty; job j2 runs without units; both may run at once.                 *)
(***************************************************************************)
EXTENDS SourceManager, TLC

CONSTANTS j1, j2, u1, u2, u3, c1, c2

MCUnitsOf == (j1 :> {u1, u2}) @@ (j2 :> {u3})
MCChunksOf == (u1 :> {c1}) @@ (u2 :> {}) @@ (u3 :> {c2})
=============================================================================
