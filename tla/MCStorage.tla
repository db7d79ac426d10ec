----------------------------- MODULE MCStorage -----------------------------
(***************************************************************************)
(* What a data directory holds, for TLC: the two databases, and the raw    *)
(* artifacts.  They share nothing, so that a behaviour explores one of     *)
(* them and not their product.                                             *)
(***************************************************************************)
EXTENDS MemoryStore, PublicHandler, Artifacts, TLC

VARIABLE explored   \* "memory", "telemetry" or "artifacts"

MCRawIds == {<<"A", "b", "1">>, <<"a", "_", "b">>, <<"_">>}
MCRequestIds == {RequestIdOf(raw) : raw \in MCRawIds}

Init ==
    /\ MemoryInit
    /\ HandlerInit
    /\ ArtifactsInit
    /\ explored \in {"memory", "telemetry", "artifacts"}
    /\ explored # "telemetry" => version = 0
    /\ explored # "memory" => schema = 0

Next ==
    /\ \/ explored = "memory" /\ MemoryNext /\ UNCHANGED <<handlerVars, artifactVars>>
       \/ explored = "telemetry" /\ HandlerNext /\ UNCHANGED <<memoryVars, artifactVars>>
       \/ explored = "artifacts" /\ ArtifactsNext /\ UNCHANGED <<memoryVars, handlerVars>>
    /\ UNCHANGED explored

Spec == Init /\ [][Next]_<<memoryVars, handlerVars, artifactVars, explored>>

\* The same processes open memories, serve, or keep artifacts, so that one
\* permutation does for all three.
Symmetry == Permutations(Openers \ Indexers) \cup Permutations(Indexers)
            \cup Permutations(Ids) \cup Permutations(Scopes) \cup Permutations(Words)

ASSUME SharedProcesses == Servers = Indexers /\ Stores = Indexers
=============================================================================
