------------------------- MODULE MCIntervalScheduler -------------------------
(***************************************************************************)
(* Small instances of IntervalScheduler.                                   *)
(***************************************************************************)
EXTENDS IntervalScheduler

MCNodeNames == <<"north", "south">>
=============================================================================
