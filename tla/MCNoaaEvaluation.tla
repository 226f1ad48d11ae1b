-------------------------- MODULE MCNoaaEvaluation --------------------------
(***************************************************************************)
(* A small instance of NoaaEvaluation: one evaluation of a window of two   *)
(* chunks and a storm inside it, and one client of the adapters.           *)
(***************************************************************************)
EXTENDS NoaaEvaluation

MCJobs == <<<<0, 1>>, <<1, 1>>>>
MCAsked == {<<0, 1>>}
=============================================================================
