-------------------------- MODULE MCDaemonClients --------------------------
(***************************************************************************)
(* Instances of DaemonClients for TLC.  Daemon processes only differ by    *)
(* name, as do the commands of one kind; daemons are referred to only      *)
(* through stage, the files and the clients' records, so they may be       *)
(* permuted.                                                               *)
(***************************************************************************)
EXTENDS DaemonClients, TLC

Symmetry == Permutations(Daemons) \cup Permutations(Starters)
                \cup Permutations(Stoppers)
=============================================================================
