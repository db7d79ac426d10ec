----------------------------- MODULE SdkStdio -----------------------------
(***************************************************************************)
(* The VS Code extension (packages/vscode) and the transport it uses, the  *)
(* StdioTransport of packages/sdk: commands share one client, which the    *)
(* first of them connects by starting a server; requests wait in a map     *)
(* until a line answers them, a timer fires or the server exits; and       *)
(* deactivation closes the client.                                         *)
(*                                                                         *)
(* One event handler runs at a time, from one await to the next.  What a   *)
(* write to the server's closed pipe raises is left out: nobody listens to *)
(* it, and the request waits for its timer.                                *)
(***************************************************************************)
EXTENDS Naturals, FiniteSets, Sequences

CONSTANTS
    Users,          \* commands of the extension, each run any number of times
    MaxTransports,  \* bound: servers started
    MaxIds          \* bound: no command begins when a transport has used so many

ASSUME SdkAssumption == MaxTransports \in Nat /\ MaxIds \in Nat

Transports == 1 .. MaxTransports
NoTransport == 0
NotYet == 0
Over == MaxTransports + 1

VARIABLES
    client,     \* the transport of the extension's client, or NoTransport
    phase,      \* where each command is
    using,      \* the transport it has a request on, or will have
    reply,      \* how its request ended
    program,    \* the server of each transport
    exited,     \* transports whose exit event has been handled
    ids,        \* #nextId
    pending,    \* #pending: the requests that wait, with their ids
    stdin,      \* requests a running server has not read
    closed,     \* transports with close called: no lines, no stdin
    stdout,     \* answers that have not been read and may be
    ending,     \* the deactivation: not yet, the transport it waits for, over
    lost        \* history: transports that nobody will close, and why

sdkVars == <<client, phase, using, reply, program, exited, ids, pending, stdin, closed,
             stdout, ending, lost>>

SdkInit ==
    /\ client = NoTransport
    /\ phase = [u \in Users |-> "idle"]
    /\ using = [u \in Users |-> NoTransport]
    /\ reply = [u \in Users |-> "none"]
    /\ program = [t \in Transports |-> "unused"]
    /\ exited = {} /\ closed = {}
    /\ ids = [t \in Transports |-> 1]
    /\ pending = [t \in Transports |-> {}]
    /\ stdin = [t \in Transports |-> <<>>]
    /\ stdout = [t \in Transports |-> <<>>]
    /\ ending = NotYet
    /\ lost = [t \in Transports |-> "no"]

-----------------------------------------------------------------------------
(* Commands.                                                                *)

Phase(u, next) == phase' = [phase EXCEPT ![u] = next]

\* #request: a timer, an entry of the map and a line, which reaches a server
\* that is there.
Request(u, t) ==
    LET request == [id |-> ids[t], user |-> u]
    IN  /\ ids' = [ids EXCEPT ![t] = @ + 1]
        /\ pending' = [pending EXCEPT ![t] = {p \in @ : p.id # ids[t]} \cup {request}]
        /\ stdin' = IF program'[t] = "running" /\ t \notin closed
                    THEN [stdin EXCEPT ![t] = Append(@, request)] ELSE stdin
        /\ reply' = [reply EXCEPT ![u] = "none"]
        /\ using' = [using EXCEPT ![u] = t]

\* getClient: the client there is, or a new one, whose server is started and
\* asked to initialize.
GetClient(u) ==
    /\ phase[u] = "idle" /\ ending = NotYet
    /\ \A t \in Transports : ids[t] <= MaxIds
    /\ \/ /\ client # NoTransport
          /\ using' = [using EXCEPT ![u] = client]
          /\ Phase(u, "ready")
          /\ UNCHANGED <<program, ids, pending, stdin, reply>>
       \/ /\ client = NoTransport
          /\ \E t \in Transports :
                /\ program[t] = "unused"
                /\ \A s \in 1 .. t - 1 : program[s] # "unused"
                /\ program' = [program EXCEPT ![t] = "running"]
                /\ Request(u, t)
          /\ Phase(u, "connect")
    /\ UNCHANGED <<client, exited, closed, stdout, ending, lost>>

\* The answer to initialize makes the transport the client, also when another
\* command has connected one meanwhile or the extension is deactivated.
Connected(u) ==
    /\ phase[u] = "connect" /\ reply[u] = "answer"
    /\ client' = using[u]
    /\ lost' = [t \in Transports |->
                   CASE t = client /\ t # using[u] -> "displaced"
                     [] t = using[u] /\ ending # NotYet -> "late"
                     [] OTHER -> lost[t]]
    /\ Phase(u, "ready")
    /\ UNCHANGED <<using, reply, program, exited, ids, pending, stdin, closed, stdout, ending>>

\* What a command knew is gone with it.
Return(u) ==
    /\ Phase(u, "idle")
    /\ using' = [using EXCEPT ![u] = NoTransport]
    /\ reply' = [reply EXCEPT ![u] = "none"]

\* connect fails, and nothing refers to the transport any more.
NotConnected(u) ==
    /\ phase[u] = "connect" /\ reply[u] \notin {"none", "answer"}
    /\ lost' = [lost EXCEPT ![using[u]] = "failed"]
    /\ Return(u)
    /\ UNCHANGED <<client, program, exited, ids, pending, stdin, closed, stdout, ending>>

\* The command's own request.
CallTool(u) ==
    /\ phase[u] = "ready"
    /\ UNCHANGED program
    /\ Request(u, using[u])
    /\ Phase(u, "call")
    /\ UNCHANGED <<client, exited, closed, stdout, ending, lost>>

\* The result or the error is shown.
Shown(u) ==
    /\ phase[u] = "call" /\ reply[u] # "none"
    /\ Return(u)
    /\ UNCHANGED <<client, program, exited, ids, pending, stdin, closed, stdout, ending, lost>>

-----------------------------------------------------------------------------
(* Events of a transport.                                                   *)

HasTimer(u, t) == \E p \in pending[t] : p.user = u

\* The timer of a request, or its signal: both give the request up.
GivenUp(u) ==
    /\ using[u] # NoTransport /\ HasTimer(u, using[u])
    /\ pending' = [pending EXCEPT ![using[u]] = {p \in @ : p.user # u}]
    /\ reply' = [reply EXCEPT ![u] = "gave up"]
    /\ UNCHANGED <<client, phase, using, program, exited, ids, stdin, closed, stdout,
                   ending, lost>>

\* A line: the request of its id, if it still waits.
LineRead(t) ==
    /\ stdout[t] # <<>> /\ t \notin closed
    /\ LET answered == {p \in pending[t] : p.id = Head(stdout[t]).id}
       IN  /\ pending' = [pending EXCEPT ![t] = @ \ answered]
           /\ reply' = [u \in Users |->
                           IF \E p \in answered : p.user = u
                           THEN IF Head(stdout[t]).user = u THEN "answer" ELSE "another's"
                           ELSE reply[u]]
    /\ stdout' = [stdout EXCEPT ![t] = Tail(@)]
    /\ UNCHANGED <<client, phase, using, program, exited, ids, stdin, closed, ending, lost>>

\* The exit event fails what waits, unless the server ended well.
ExitSeen(t) ==
    /\ program[t] \in {"ended", "broken", "killed"} /\ t \notin exited
    /\ exited' = exited \cup {t}
    /\ IF program[t] = "ended" THEN UNCHANGED <<pending, reply>>
       ELSE /\ pending' = [pending EXCEPT ![t] = {}]
            /\ reply' = [u \in Users |-> IF \E p \in pending[t] : p.user = u
                                         THEN "exit" ELSE reply[u]]
    /\ UNCHANGED <<client, phase, using, program, ids, stdin, closed, stdout, ending, lost>>

-----------------------------------------------------------------------------
(* Deactivation.                                                            *)

\* Mutant: close does not wait for the server.
NeverWaits(t) == FALSE

\* Mutant: close waits for the event, also when it has come.
AlwaysWaits(t) == TRUE

\* exitCode is null: the server has not exited, or was killed by a signal.
WaitsForExit(t) == ~(t \in exited /\ program[t] \in {"ended", "broken"})

Closed == IF client = NoTransport THEN closed ELSE closed \cup {client}

\* deactivate, up to the wait of close: what has not been read never will be.
Deactivate ==
    /\ ending = NotYet
    /\ client' = NoTransport
    /\ closed' = Closed
    /\ ending' = IF client # NoTransport /\ WaitsForExit(client) THEN client ELSE Over
    /\ stdout' = [t \in Transports |-> IF t \in Closed THEN <<>> ELSE stdout[t]]
    /\ UNCHANGED <<phase, using, reply, program, exited, ids, pending, stdin, lost>>

\* The exit event that close waits for: it must come after it.
ExitAwaited(t) ==
    /\ ending = t
    /\ program[t] \in {"ended", "broken", "killed"} /\ t \notin exited
    /\ ending' = Over
    /\ exited' = exited \cup {t}
    /\ IF program[t] = "ended" THEN UNCHANGED <<pending, reply>>
       ELSE /\ pending' = [pending EXCEPT ![t] = {}]
            /\ reply' = [u \in Users |-> IF \E p \in pending[t] : p.user = u
                                         THEN "exit" ELSE reply[u]]
    /\ UNCHANGED <<client, phase, using, program, ids, stdin, closed, stdout, lost>>

-----------------------------------------------------------------------------
(* The server (serve_stdio), seen from outside.                             *)

\* It answers requests one after the other.
Answers(t) ==
    /\ program[t] = "running" /\ stdin[t] # <<>>
    /\ stdin' = [stdin EXCEPT ![t] = Tail(@)]
    /\ stdout' = IF t \in closed THEN stdout
                 ELSE [stdout EXCEPT ![t] = Append(@, Head(stdin[t]))]
    /\ UNCHANGED <<client, phase, using, reply, program, exited, ids, pending, closed,
                   ending, lost>>

\* At the end of its input it ends well.
Ends(t) ==
    /\ program[t] = "running" /\ stdin[t] = <<>> /\ t \in closed
    /\ program' = [program EXCEPT ![t] = "ended"]
    /\ UNCHANGED <<client, phase, using, reply, exited, ids, pending, stdin, closed,
                   stdout, ending, lost>>

\* It fails, cannot be started, or is killed by a signal.
Dies(t) ==
    /\ program[t] = "running"
    /\ program' \in {[program EXCEPT ![t] = "broken"], [program EXCEPT ![t] = "killed"]}
    /\ stdin' = [stdin EXCEPT ![t] = <<>>]
    /\ UNCHANGED <<client, phase, using, reply, exited, ids, pending, closed, stdout,
                   ending, lost>>

-----------------------------------------------------------------------------

Continues(u) == Connected(u) \/ NotConnected(u) \/ CallTool(u) \/ Shown(u)

ExitEvent(t) == (ending # t /\ ExitSeen(t)) \/ ExitAwaited(t)

SdkNext ==
    \/ \E u \in Users : GetClient(u) \/ Continues(u) \/ GivenUp(u)
    \/ \E t \in Transports : LineRead(t) \/ ExitEvent(t) \/ Answers(t) \/ Ends(t) \/ Dies(t)
    \/ Deactivate

\* Handlers run, timers fire, the exit of a process is reported, and a server
\* with nothing more to read ends.  No command need be given, and no answer
\* need come.
SdkFairness ==
    /\ \A u \in Users : WF_sdkVars(Continues(u)) /\ WF_sdkVars(GivenUp(u))
    /\ \A t \in Transports : WF_sdkVars(ExitEvent(t)) /\ WF_sdkVars(Answers(t)) /\ WF_sdkVars(Ends(t))

SdkSpec == SdkInit /\ [][SdkNext]_sdkVars /\ SdkFairness

-----------------------------------------------------------------------------
(* Properties.                                                              *)

\* Every command ends, whether its server answers, ends well without an
\* answer, dies, or is closed under it (StdioTransport.#request).
CommandsEnd == \A u \in Users : phase[u] # "idle" ~> phase[u] = "idle"

\* The deactivation of the extension ends, also when the server dies while it
\* waits, by a signal or not, or has died and the event is still to come.  One
\* case is excepted, in which the code waits for ever: the server was killed by
\* a signal and its exit event was handled before, so that exitCode stays null
\* and no event comes any more (StdioTransport.close).
DeactivationEnds ==
    \A t \in Transports :
        ending = t ~> ending = Over \/ (program[t] = "killed" /\ t \in exited)

\* After the deactivation a server runs on only if its connection failed, came
\* too late, is still being made, or was displaced by another command's
\* (getClient, deactivate).
NoServerForgotten ==
    ending = Over =>
        \A t \in Transports :
            program[t] = "running" /\ lost[t] = "no" =>
                \E u \in Users : phase[u] = "connect" /\ using[u] = t
=============================================================================
