------------------------------ MODULE MCFiles ------------------------------
(***************************************************************************)
(* The programs that keep small files of their own, for TLC: the task      *)
(* ledger of the MCP servers, the settings of the command line, and the    *)
(* agents' files that the adapters change.  They share nothing, so that a  *)
(* behaviour explores one of them and not their product.                   *)
(***************************************************************************)
EXTENDS TaskLedger, CommandLine, AdapterFiles, TLC

CONSTANT Explorable         \* the programs this run explores

VARIABLE explored           \* "ledger", "settings" or "adapters"

MCInit ==
    /\ explored \in Explorable
    /\ Init /\ CommandInit /\ AdapterInit
    /\ explored # "ledger" => json = Missing
    /\ explored # "adapters" => /\ format = "json"
                                /\ \A p \in DOMAIN files : files[p] = Absent

MCNext ==
    /\ \/ /\ explored = "ledger" /\ Next
          /\ UNCHANGED <<commandVars, adapterVars>>
       \/ /\ explored = "settings" /\ CommandNext
          /\ UNCHANGED <<vars, adapterVars>>
       \/ /\ explored = "adapters" /\ AdapterNext
          /\ UNCHANGED <<vars, commandVars>>
    /\ UNCHANGED explored

MCSpec == MCInit /\ [][MCNext]_<<vars, commandVars, adapterVars, explored>>

Symmetry == Permutations(Servers) \cup Permutations(TaskIds) \cup Permutations(Commands)
=============================================================================
