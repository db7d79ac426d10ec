-------------------------- MODULE MCManagedProcess --------------------------
(***************************************************************************)
(* Optional providers for TLC: callers that run a provider's program, a    *)
(* call of a provider over MCP, or the reading of what a memory provider   *)
(* answers.  They share nothing but the circuit breaker's definitions, so  *)
(* that a behaviour explores one of them and not their product.            *)
(***************************************************************************)
EXTENDS ManagedProcess, McpSession, ExternalMemory, TLC

CONSTANT
    Explorable  \* what this run explores

VARIABLE explored   \* "process", "session" or "search"

Item(content, text, id) == [content |-> content, text |-> text, id |-> id]

\* A record, one whose text is under the other name and that has no id, one
\* whose content hides its text, and a value that is no object.
MCItems == {Item("one", "absent", "id"), Item("absent", "two", "absent"),
            Item("bad", "two", "id"), Item("absent", "absent", "absent")}

NoRecord == Item("absent", "absent", "absent")

\* Parts of each shape; an object may list records under two fields.
MCParts ==
    {[kind |-> "silent"], [kind |-> "plain", text |-> "three"], [kind |-> "plain", text |-> "bad"]}
    \cup {[kind |-> "array", items |-> items] : items \in BoundedSeq(MCItems, 2)}
    \cup {[kind |-> "object", self |-> item, lists |-> <<>>] : item \in MCItems}
    \cup {[kind |-> "object", self |-> NoRecord, lists |-> ("records" :> <<item>>) @@ other] :
              item \in MCItems,
              other \in {<<>>, "results" :> <<>>, "observations" :> <<NoRecord>>}}

MCAnswers == BoundedSeq(MCParts, 2)

MCInit == /\ Init
          /\ SessionInit
          /\ ExternalInit
          /\ explored \in Explorable
          /\ explored # "session" => required

MCNext == /\ \/ explored = "process" /\ Next /\ UNCHANGED <<sessionVars, externalVars>>
             \/ explored = "session" /\ SessionNext /\ UNCHANGED <<processVars, externalVars>>
             \/ explored = "search" /\ ExternalNext /\ UNCHANGED <<vars, sessionVars>>
          /\ UNCHANGED explored

\* What is not explored stays in its first state, where no fair action of its
\* own is enabled; the cooldown is the same in both that have a circuit.
MCSpec == /\ MCInit /\ [][MCNext]_<<vars, sessionVars, externalVars, explored>>
          /\ Fairness /\ SessionFairness

\* A call of a provider ends, whatever its program does: it exits, hangs, leaves
\* processes behind, or answers without end (run_process, McpSession::request).
CallsReturn == EveryRunEnds /\ RequestEnds
=============================================================================
