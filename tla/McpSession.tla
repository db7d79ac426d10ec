---------------------------- MODULE McpSession ----------------------------
(***************************************************************************)
(* A call of an optional provider over MCP (crates/ts-provider McpSession, *)
(* as the adapters of ts-compress and ts-memory use it): the circuit is    *)
(* asked, a server is started, initialized, asked for its tools and called *)
(* once, and dropped; a failure is answered by the built-in provider.      *)
(*                                                                         *)
(* A writer thread sends requests and a reader thread collects lines, so   *)
(* that only the deadline of a request bounds it.  The server may answer   *)
(* late, twice, or never, interleave notifications without end, send what  *)
(* is not JSON-RPC, or exit.  A "good" answer passes the check of its      *)
(* stage, a "bad" one is an error or does not.                             *)
(***************************************************************************)
EXTENDS CircuitBreaker, FiniteSets, Sequences, SequencesExt

CONSTANTS
    Strict,     \* whether connect validates the version (McpMemoryProvider)
    MaxRequests,    \* bound: requests on one session
    PipeLines   \* bound: lines on their way from the server

ASSUME SessionAssumption == Strict \in BOOLEAN /\ MaxRequests \in Nat /\ PipeLines \in Nat

VARIABLES
    required,   \* the provider's policy
    stage,      \* the request under way, or where the call is
    loop,       \* where request is in its loop
    nextId,     \* next_id
    asked,      \* the request under way: its id, and its number as history
    overdue,    \* its deadline has passed
    outbox,     \* requests the writer thread has to send
    writing,    \* whether that thread is there
    known,      \* requests the server has read
    server,     \* the server process
    lines,      \* what it has written and the reader thread has not read
    reading,    \* whether that thread is there
    responses,  \* the reader's channel
    result,     \* what the call returns
    attribution \* what its caller gets, and from whom

sessionVars == <<required, stage, loop, nextId, asked, overdue, outbox, writing,
                 known, server, lines, reading, responses, result, attribution>>

Requests == {"initialize", "tools/list", "tools/call"}

Nothing == [id |-> 0, number |-> 0, kind |-> "none"]

SessionInit ==
    /\ CircuitInit
    /\ required \in BOOLEAN
    /\ stage = "idle" /\ loop = "none"
    /\ nextId = 1 /\ asked = Nothing /\ overdue = FALSE
    /\ outbox = <<>> /\ writing = FALSE /\ known = {}
    /\ server = "none" /\ lines = <<>> /\ reading = FALSE /\ responses = <<>>
    /\ result = Nothing
    /\ attribution = "none"

threads == <<outbox, writing, known, server, lines, reading, responses>>

-----------------------------------------------------------------------------
(* A request.                                                               *)

\* Mutant: a session gives every request the same id.
SameId == 1

FollowingId == nextId + 1

\* request and write_json: the next id, and the request is the writer's, if it
\* is still there.  A notification before it goes the same way.
Send(next) ==
    /\ asked.number < MaxRequests
    /\ nextId' = FollowingId
    /\ asked' = [id |-> nextId, number |-> asked.number + 1, kind |-> next]
    /\ outbox' = Append(outbox, asked')
    /\ overdue' = FALSE
    /\ stage' = next
    /\ loop' = "check"

Fail(kind) == /\ result' = [Nothing EXCEPT !.kind = kind]
              /\ stage' = IF stage = "tools/call" THEN "held" ELSE "drop"
              /\ loop' = "none"

\* The head of the loop: nothing remains of the deadline, or the channel is
\* waited on.
Check ==
    /\ loop = "check"
    /\ IF overdue THEN Fail("timeout") ELSE loop' = "receive" /\ UNCHANGED <<stage, result>>
    /\ UNCHANGED <<circuitVars, required, nextId, asked, overdue, threads, attribution>>

\* parse_mcp_response: too long, not JSON, or not JSON-RPC.
Malformed(message) == message.kind = "garbage"

\* validate_version, of what a server says of itself.
Incompatible(answer) == Strict /\ answer.kind = "bad"

\* What follows an answer to the request: the next request, or the result.
FollowUp(answer) ==
    \/ /\ stage = "initialize"
       /\ IF ~writing \/ Incompatible(answer)
          THEN Fail("failed") /\ UNCHANGED <<nextId, asked, outbox, overdue>>
          ELSE Send("tools/list") /\ UNCHANGED result
    \/ /\ stage = "tools/list"
       /\ IF answer.kind = "bad"
          THEN Fail("failed") /\ UNCHANGED <<nextId, asked, outbox, overdue>>
          ELSE /\ stage' = "held" /\ loop' = "none"
               /\ UNCHANGED <<nextId, asked, outbox, overdue, result>>
    \/ /\ stage = "tools/call"
       /\ IF answer.kind = "bad"
          THEN Fail("failed")
          ELSE /\ result' = [answer EXCEPT !.kind = "ok"]
               /\ stage' = "held" /\ loop' = "none"
       /\ UNCHANGED <<nextId, asked, outbox, overdue>>

\* A message: one that cannot be parsed, or is too long, ends the request;
\* one that is not its answer is dropped.
Receive ==
    /\ loop = "receive" /\ responses # <<>>
    /\ LET message == Head(responses)
       IN  IF Malformed(message)
           THEN Fail("failed") /\ UNCHANGED <<nextId, asked, outbox, overdue>>
           ELSE IF message.id = asked.id THEN FollowUp(message)
           ELSE loop' = "check" /\ UNCHANGED <<stage, nextId, asked, outbox, overdue, result>>
    /\ responses' = Tail(responses)
    /\ UNCHANGED <<circuitVars, required, writing, known, server, lines, reading, attribution>>

\* recv_timeout has nothing: the deadline passes, or the reader is gone.
ReceiveNothing ==
    /\ loop = "receive" /\ responses = <<>>
    /\ \/ overdue /\ Fail("timeout")
       \/ ~reading /\ Fail("failed")
    /\ UNCHANGED <<circuitVars, required, nextId, asked, overdue, threads, attribution>>

Expired ==
    /\ loop # "none" /\ ~overdue
    /\ overdue' = TRUE
    /\ UNCHANGED <<circuitVars, required, stage, loop, nextId, asked, threads,
                   result, attribution>>

-----------------------------------------------------------------------------
(* The call.                                                                *)

\* resolve_with_fallback.
Resolved(ok) == IF ok THEN "provider" ELSE IF required THEN "error" ELSE "built-in"

RefusedCall ==
    /\ stage = "idle" /\ Refuse
    /\ attribution' = Resolved(FALSE)
    /\ result' = [Nothing EXCEPT !.kind = "refused"]
    /\ UNCHANGED <<required, stage, loop, nextId, asked, overdue, threads>>

PermittedCall ==
    /\ stage = "idle" /\ Permit
    /\ stage' = "connect"
    /\ result' = Nothing /\ attribution' = "none"
    /\ UNCHANGED <<required, loop, nextId, asked, overdue, threads>>

\* connect: the program does not start, or its threads do and initialize is
\* sent.
Connect ==
    /\ stage = "connect"
    /\ \/ /\ Fail("failed")
          /\ UNCHANGED <<nextId, asked, overdue, threads>>
       \/ /\ Send("initialize")
          /\ writing' = TRUE /\ reading' = TRUE /\ server' = "running"
          /\ UNCHANGED <<known, lines, responses, result>>
    /\ UNCHANGED <<circuitVars, required, attribution>>

\* call_tool; an adapter calls once, a program that holds a session may again.
CallTool ==
    /\ stage = "held"
    /\ IF writing THEN Send("tools/call") /\ result' = Nothing
                  ELSE /\ result.kind = "none"
                       /\ Fail("failed")
                       /\ UNCHANGED <<nextId, asked, outbox, overdue>>
    /\ UNCHANGED <<circuitVars, required, writing, known, server, lines, reading,
                   responses, attribution>>

\* kill and wait.
ServerAfterDrop == "none"

\* The session is dropped, with its channels and threads.
Drop ==
    /\ stage = "drop" \/ (stage = "held" /\ result.kind # "none")
    /\ stage' = "report"
    /\ nextId' = 1 /\ asked' = Nothing /\ overdue' = FALSE
    /\ outbox' = <<>> /\ writing' = FALSE /\ known' = {}
    /\ server' = ServerAfterDrop
    /\ lines' = <<>> /\ reading' = FALSE /\ responses' = <<>>
    /\ UNCHANGED <<circuitVars, required, loop, result, attribution>>

\* The circuit is told, and the outcome attributed.
ReportCall ==
    /\ stage = "report"
    /\ IF result.kind = "ok" THEN Success ELSE Failure
    /\ attribution' = Resolved(result.kind = "ok")
    /\ stage' = "idle"
    /\ UNCHANGED <<required, loop, nextId, asked, overdue, threads, result>>

-----------------------------------------------------------------------------
(* The server and the threads.                                              *)

\* The writer hands a request to the server...
Deliver ==
    /\ writing /\ outbox # <<>> /\ server = "running"
    /\ known' = known \cup {Head(outbox)}
    /\ outbox' = Tail(outbox)
    /\ UNCHANGED <<circuitVars, required, stage, loop, nextId, asked, overdue,
                   writing, server, lines, reading, responses, result, attribution>>

\* ... or ends when there is nobody to write to.
WriterEnds ==
    /\ writing /\ outbox # <<>> /\ server = "exited"
    /\ writing' = FALSE /\ outbox' = <<>>
    /\ UNCHANGED <<circuitVars, required, stage, loop, nextId, asked, overdue,
                   known, server, lines, reading, responses, result, attribution>>

\* The server writes an answer to any request it has read, a notification, or
\* something else.
ServerWrites ==
    /\ server = "running" /\ Len(lines) + Len(responses) < PipeLines
    /\ \E line \in {[r EXCEPT !.kind = k] : r \in known, k \in {"good", "bad"}}
                   \cup {[Nothing EXCEPT !.kind = k] : k \in {"notification", "garbage"}} :
          lines' = Append(lines, line)
    /\ UNCHANGED <<circuitVars, required, stage, loop, nextId, asked, overdue,
                   outbox, writing, known, server, reading, responses, result, attribution>>

ServerExits ==
    /\ server = "running"
    /\ server' = "exited"
    /\ UNCHANGED <<circuitVars, required, stage, loop, nextId, asked, overdue,
                   outbox, writing, known, lines, reading, responses, result, attribution>>

\* read_lines: a line that is too long, or not text, is the last; so is the
\* end of the file.
ReadLine ==
    /\ reading
    /\ \/ /\ lines # <<>>
          /\ lines' = Tail(lines)
          /\ responses' = Append(responses, Head(lines))
          /\ reading' \in (IF Head(lines).kind = "garbage" THEN BOOLEAN ELSE {TRUE})
       \/ /\ lines = <<>> /\ server = "exited"
          /\ reading' = FALSE
          /\ UNCHANGED <<lines, responses>>
    /\ UNCHANGED <<circuitVars, required, stage, loop, nextId, asked, overdue,
                   outbox, writing, known, server, result, attribution>>

Pass == TimePasses /\ UNCHANGED sessionVars

SessionCaller == PermittedCall \/ Connect \/ Check \/ Receive \/ ReceiveNothing
           \/ CallTool \/ Drop \/ ReportCall

SessionNext ==
    \/ RefusedCall \/ SessionCaller \/ Expired \/ Deliver \/ WriterEnds
    \/ ServerWrites \/ ServerExits \/ ReadLine \/ Pass

\* The caller's thread runs, and clocks advance; nothing is assumed of the
\* server, and nobody has to call.
SessionFairness ==
    /\ WF_sessionVars(Connect) /\ WF_sessionVars(Check) /\ WF_sessionVars(Receive)
    /\ WF_sessionVars(ReceiveNothing) /\ WF_sessionVars(Drop)
    /\ WF_sessionVars(ReportCall) /\ WF_sessionVars(Expired)
    /\ WF_circuitVars(Pass)

SessionSpec == SessionInit /\ [][SessionNext]_<<circuitVars, sessionVars>> /\ SessionFairness

-----------------------------------------------------------------------------
(* Properties.                                                              *)

\* A result is the server's answer to this very call, though answers to
\* earlier calls, that were given up, may still arrive; and an outcome is
\* attributed to the provider only if there is one.
AnswerIsOwn ==
    /\ stage = "held" /\ result.kind = "ok" => result.number = asked.number
    /\ stage = "idle" /\ attribution = "provider" => result.kind = "ok"
    /\ attribution = "built-in" => ~required

\* A request ends by its deadline, whatever the server sends or does not.
RequestEnds == stage \in Requests ~> stage \in {"held", "drop"}
=============================================================================
