-------------------------- MODULE MCStressWorkers --------------------------
(***************************************************************************)
(* StressWorkers for TLC.                                                  *)
(***************************************************************************)
EXTENDS StressWorkers

\* Every topology, with and without --stop-on-error.
MCOptions == {[topology |-> "perWorkerSftp", stopOnError |-> TRUE],
              [topology |-> "sharedSftp", stopOnError |-> FALSE],
              [topology |-> "perWorkerSession", stopOnError |-> TRUE]}

=============================================================================
