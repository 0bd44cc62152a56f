--------------------------- MODULE MCServerProcess ---------------------------
(***************************************************************************)
(* The process with the worker and two request threads, or without it.     *)
(* Request threads may be swapped in the runs that check invariants.       *)
(***************************************************************************)
EXTENDS ServerProcess, TLC

SwapRequests == Permutations(Requests)
=============================================================================
