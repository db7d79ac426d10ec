--------------------------- MODULE PublicHandler ---------------------------
(***************************************************************************)
(* The MCP servers (crates/ts-mcp): processes that open the telemetry      *)
(* database, serve one message at a time from standard input, and answer a *)
(* context build or a token measurement after two transactions, one for    *)
(* the request's row and one for its token event.  A worker of the daemon  *)
(* runs the same handler and counts as a server of its own.                *)
(*                                                                         *)
(* The repository, memory, execution and output tools leave telemetry      *)
(* alone and are modelled elsewhere; here they only answer.                *)
(***************************************************************************)
EXTENDS TelemetryStore, Sequences

CONSTANTS
    Servers,    \* MCP server processes and workers
    RawIds,     \* the JSON-RPC ids clients send: sequences of characters
    IdLength,   \* characters of a raw id that are kept (48), scaled down
    Amounts,    \* token counts measured or reported
    LastMilli   \* bound: the clock stops here

VARIABLES
    at,         \* where each server is
    call,       \* the call it serves: request id, start, tokens
    counted,    \* history: the row of its last call's token event
    outcome,    \* its last answer
    milli       \* the clock

handlerVars == <<telemetryVars, at, call, counted, outcome, milli>>

Idle == [id |-> "", started |-> 0, raw |-> 0, optimized |-> 0]

\* No token event was committed, or an embedder has deleted it since.
NotCounted == 0
EventDeleted == MaxEvents + 1

HandlerInit ==
    /\ TelemetryInit
    /\ at = [s \in Servers |-> "closed"]
    /\ call = [s \in Servers |-> Idle]
    /\ counted = [s \in Servers |-> NotCounted]
    /\ outcome = [s \in Servers |-> "none"]
    /\ milli = 0

Goto(s, next) == at' = [at EXCEPT ![s] = next]

Answer(s, answer) == /\ Goto(s, "ready")
                     /\ outcome' = [outcome EXCEPT ![s] = answer]

-----------------------------------------------------------------------------
(* Messages.                                                                *)

Lower == [A |-> "a", B |-> "b"]

\* The request id of an MCP call: the raw id lowered, its letters, digits and
\* hyphens, cut to the length; "request" when nothing is left.
RequestIdOf(raw) ==
    LET lowered == [i \in DOMAIN raw |->
                       IF raw[i] \in DOMAIN Lower THEN Lower[raw[i]] ELSE raw[i]]
        kept == SelectSeq(lowered, LAMBDA c : c \in {"a", "b", "1", "-"})
    IN  IF kept = <<>> THEN <<"request">>
        ELSE SubSeq(kept, 1, IF Len(kept) < IdLength THEN Len(kept) ELSE IdLength)

ASSUME HandlerAssumption ==
    /\ \A raw \in RawIds : RequestIdOf(raw) \in RequestIds
    /\ Amounts \subseteq Nat /\ LastMilli \in Nat

-----------------------------------------------------------------------------
(* The servers.                                                             *)

\* TelemetryStore::open reads the version and refuses a later one.
OpenTelemetry(s) ==
    /\ at[s] = "closed"
    /\ version <= 1
    /\ Goto(s, IF version = 0 THEN "migrate" ELSE "ready")
    /\ UNCHANGED <<telemetryVars, call, counted, outcome, milli>>

\* CREATE TABLE fails when another process has migrated since; the handler is
\* not made and the process ends.
MigrateTelemetry(s) ==
    /\ at[s] = "migrate"
    /\ IF tables THEN Goto(s, "closed") /\ UNCHANGED <<version, tables>>
                 ELSE Goto(s, "ready") /\ Created
    /\ UNCHANGED <<requests, events, call, counted, outcome, milli>>

\* handle_mcp_message, for every message but a call of the three tools below:
\* no answer to a notification, an error for text that does not parse, an
\* unknown method or tool, missing parameters or a tool that fails, a result
\* otherwise.
AnswerMessage(s) ==
    /\ at[s] = "ready"
    /\ \E answer \in {"none", "error", "result"} : Answer(s, answer)
    /\ counted' = [counted EXCEPT ![s] = NotCounted]
    /\ UNCHANGED <<telemetryVars, call, milli>>

\* stats: an overflow of the sums is an error.
Stats(s) ==
    /\ at[s] = "ready"
    /\ Answer(s, IF Savings = {} THEN "error" ELSE "result")
    /\ counted' = [counted EXCEPT ![s] = NotCounted]
    /\ UNCHANGED <<telemetryVars, call, milli>>

Begin(s, id, raw, optimized) ==
    /\ at[s] = "ready"
    /\ Goto(s, "request")
    /\ outcome' = [outcome EXCEPT ![s] = "none"]
    /\ call' = [call EXCEPT ![s] = [id |-> id, started |-> milli, raw |-> raw,
                                    optimized |-> optimized]]
    /\ counted' = [counted EXCEPT ![s] = NotCounted]
    /\ UNCHANGED <<telemetryVars, milli>>

\* build_context, its bundle built: the id is derived from the message's and
\* the time taken once for both records.  The selection is within the budget
\* and never has more tokens than were discovered.
BuildContext(s) ==
    \E raw \in RawIds, discovered \in Amounts, used \in Amounts :
        used <= discovered /\ Begin(s, RequestIdOf(raw), discovered, used)

\* record_tokens: the caller chooses id and amounts.
MeasureTokens(s) ==
    \E id \in RequestIds, raw \in Amounts, optimized \in Amounts :
        Begin(s, id, raw, optimized)

\* The first transaction.
WriteRequest(s) ==
    /\ at[s] = "request"
    /\ Goto(s, "tokens")
    /\ RecordRequest(call[s].id, call[s].started)
    /\ call' = [call EXCEPT ![s].started = 0]
    /\ UNCHANGED <<counted, outcome, milli>>

\* The second one.
WriteTokens(s) ==
    /\ at[s] = "tokens"
    /\ Goto(s, "answer")
    /\ RecordTokens(call[s].id, call[s].raw, call[s].optimized)
    /\ counted' = [counted EXCEPT ![s] = Min(Free)]
    /\ UNCHANGED <<call, outcome, milli>>

\* Either transaction fails: the database is busy, an amount does not fit, the
\* request's row is gone again.  Its error is the call's.
FailWrite(s) ==
    /\ at[s] \in {"request", "tokens"}
    /\ Answer(s, "error")
    /\ call' = [call EXCEPT ![s] = Idle]
    /\ UNCHANGED <<telemetryVars, counted, milli>>

Acknowledge(s) ==
    /\ at[s] = "answer"
    /\ Answer(s, "counted")
    /\ call' = [call EXCEPT ![s] = Idle]
    /\ UNCHANGED <<telemetryVars, counted, milli>>

\* The process dies, or the daemon's worker gives its call up.
CloseTelemetry(s) ==
    /\ at[s] # "closed"
    /\ Goto(s, "closed")
    /\ counted' = [counted EXCEPT ![s] = NotCounted]
    /\ call' = [call EXCEPT ![s] = Idle]
    /\ outcome' = [outcome EXCEPT ![s] = "none"]
    /\ UNCHANGED <<telemetryVars, milli>>

-----------------------------------------------------------------------------
(* A program that embeds the store; nothing in this repository calls these. *)

Embed ==
    /\ tables
    /\ \/ \E cutoff \in 1 .. milli : Prune(cutoff, milli)
       \/ \E id \in RequestIds : Present(id) /\ ForgetRequest(id)
       \/ \E id \in RequestIds : RecordProvider(id) \/ RecordArtifact(id, LastMilli)
    /\ counted' = [s \in Servers |-> IF counted[s] \in DOMAIN events \ DOMAIN events'
                                     THEN EventDeleted ELSE counted[s]]
    /\ UNCHANGED <<at, call, outcome, milli>>

TickMilli ==
    /\ milli < LastMilli
    /\ milli' = milli + 1
    /\ UNCHANGED <<telemetryVars, at, call, counted, outcome>>

HandlerNext ==
    \/ \E s \in Servers :
          \/ OpenTelemetry(s) \/ MigrateTelemetry(s) \/ AnswerMessage(s)
          \/ Stats(s) \/ BuildContext(s) \/ MeasureTokens(s)
          \/ WriteRequest(s) \/ WriteTokens(s) \/ FailWrite(s)
          \/ Acknowledge(s) \/ CloseTelemetry(s)
    \/ Embed
    \/ TickMilli

HandlerSpec == HandlerInit /\ [][HandlerNext]_handlerVars

-----------------------------------------------------------------------------
(* Properties.                                                              *)

\* What clients are told and what stats sums up agree: a call is answered with
\* success when it has a token event of its own, and with an error when it has
\* none, although other servers' calls may share its id, overwrite its request's
\* row, or come between its two transactions.  The event stays until an embedder
\* deletes it, and none outlives its request, so that what prune or
\* forget_request deletes is gone from the savings as well.
AnswersMatchCounts ==
    /\ \A s \in Servers :
          /\ at[s] = "ready" => /\ outcome[s] = "counted" => counted[s] # NotCounted
                                /\ outcome[s] = "error" => counted[s] = NotCounted
          /\ counted[s] \notin {NotCounted, EventDeleted} =>
                /\ counted[s] \in DOMAIN events /\ events[counted[s]].kind = "token"
                /\ \A t \in Servers : counted[t] = counted[s] => t = s
    /\ \A i \in DOMAIN events : Present(events[i].request)
=============================================================================
