--------------------------- MODULE MCUpdateWorker ----------------------------
(***************************************************************************)
(* Two callers and two cron threads: a Start after a Stop meets the thread *)
(* of the Start before.                                                    *)
(***************************************************************************)
EXTENDS UpdateWorker
=============================================================================
