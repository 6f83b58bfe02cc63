----------------------------- MODULE MCUnitHook -----------------------------
(***************************************************************************)
(* Bounded instance of UnitHook: two units and one job without units, a    *)
(* channel with room for one record, two goroutines that may call Close.   *)
(***************************************************************************)
EXTENDS UnitHook, TLC

CONSTANTS u1, u2, job
=============================================================================
