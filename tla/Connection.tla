----------------------------- MODULE Connection -----------------------------
(***************************************************************************)
(* One connection to a daemon: daemon_call and handle_connection           *)
(* (crates/ts-daemon) at its two ends, and the frames of crates/           *)
(* ts-protocol between them.  A frame is a header of four bytes with the   *)
(* length of its payload, and the payload; a write may be taken in pieces, *)
(* a read waits for all it asks for, and either end may be gone at any     *)
(* time.                                                                   *)
(*                                                                         *)
(* The caller may be of another release than the daemon, may have read the *)
(* record of another daemon, and may have another bound on frames.  What   *)
(* ServiceGraph does with an accepted request is a choice of its outcomes. *)
(***************************************************************************)
EXTENDS Integers, Sequences

CONSTANTS
    Payloads,   \* sizes in bytes that a message may have
    Bounds,     \* values of max_frame_bytes
    Widest,     \* the greatest length that a header can hold
    Majors,     \* major versions of the protocol
    Tokens      \* authentication tokens, as sequences of bytes

ASSUME ConnectionAssumption ==
    /\ Payloads \subseteq Nat \ {0}
    /\ Widest \in Nat
    /\ Bounds \subseteq 1 .. Widest
    /\ Tokens \subseteq Seq(0 .. 255)

VARIABLES
    maximum,    \* max_frame_bytes at each end
    request,    \* what is asked
    expected,   \* the token and the version of the daemon
    upward,     \* the frame of the request, and how much of it is written
    downward,   \* the frame of the answer, likewise
    caller,     \* daemon_call
    worker,     \* handle_connection
    ran,        \* whether the request has had an effect
    answer,     \* the response that the worker has made
    told        \* how daemon_call has ended

wireVars == <<maximum, request, expected, upward, downward, caller, worker, ran, answer, told>>

-----------------------------------------------------------------------------
(* Frames.                                                                  *)

HeaderSize == 4

NoFrame == [length |-> 0, size |-> 0, written |-> 0]

\* write_frame: a payload is sent with its length.
Frame(size) == [length |-> size, size |-> size, written |-> 0]

\* write_frame refuses what is empty, too long for a header, or over the bound.
Sendable(size, bound) == size \in 1 .. Widest /\ size <= bound

\* read_frame believes a length that is not zero and within the bound.
Acceptable(frame, bound) == frame.length # 0 /\ frame.length <= bound

HasHeader(frame) == frame.written >= HeaderSize

\* Mutant: a read that returns what has arrived so far.
HasSome(frame) == frame.written > HeaderSize

HasPayload(frame) == frame.written >= HeaderSize + frame.length

\* What read_frame hands to the parser is the message and nothing else.
Parses(frame) == frame.length = frame.size

Whole(frame) == frame.written = HeaderSize + frame.size

\* A step of write_all: some more of the frame, at least a byte.
Longer(frame) ==
    {[frame EXCEPT !.written = n] : n \in frame.written + 1 .. HeaderSize + frame.size}

-----------------------------------------------------------------------------
(* Requests and responses.                                                  *)

Methods == {"malformed", "shutdown", "cancel", "cancel nothing", "service"}

Requests ==
    [size : Payloads, readable : BOOLEAN, jsonrpc : BOOLEAN, major : Majors,
     token : Tokens, method : Methods, deadline : BOOLEAN]

\* constant_time_eq
SameToken(left, right) ==
    Len(left) = Len(right) /\ \A i \in DOMAIN left : left[i] = right[i]

\* is_compatible_with: minor versions may differ.
Compatible == request.major = expected.major

\* Mutant: a caller of another major version is let in.
RejectionOfToken ==
    IF ~request.jsonrpc THEN "invalid-jsonrpc"
    ELSE IF ~SameToken(request.token, expected.token) THEN "authentication"
    ELSE IF request.method = "malformed" THEN "invalid-method"
    ELSE "none"

\* RpcRequest::validate, and the code that protocol_error_code gives its error.
Rejection ==
    IF ~request.jsonrpc THEN "invalid-jsonrpc"
    ELSE IF ~Compatible THEN "incompatible-version"
    ELSE IF ~SameToken(request.token, expected.token) THEN "authentication"
    ELSE IF request.method = "malformed" THEN "invalid-method"
    ELSE "none"

NoReply == [kind |-> "none", value |-> "none", code |-> 0]

Success(value) == [kind |-> "success", value |-> value, code |-> 0]

Failure(code, value) == [kind |-> "failure", value |-> value, code |-> code]

\* The codes of what handle_connection answers without a dispatch.
InvalidRequest == -32001
DeadlineExceeded == -32002
InvalidParams == -32602

\* ServiceError::data_code of what a dispatch returns without having run the
\* request, and of what a handler returns.
Refusals == {"shutting-down", "duplicate-request", "method-not-found", "clock"}
Breakdowns == {"json", "internal"}

\* ServiceError::code
Code(error) ==
    CASE error = "method-not-found" -> -32601
      [] error = "shutting-down" -> -32003
      [] error = "duplicate-request" -> -32004
      [] OTHER -> -32603

\* In JSON a result of null reads as no result.
HasResult(response) == response.kind = "success" /\ response.value # "null"
HasError(response) == response.kind = "failure"

\* RpcResponse::is_valid
IsValid(response) == HasResult(response) # HasError(response)

WireInit ==
    /\ maximum \in [caller : Bounds, daemon : Bounds]
    /\ request \in Requests
    /\ expected \in [major : Majors, token : Tokens]
    /\ upward = NoFrame /\ downward = NoFrame
    /\ caller = "asks" /\ worker = "header"
    /\ ran = FALSE /\ answer = NoReply
    /\ told = [end |-> "none", code |-> 0]

-----------------------------------------------------------------------------
(* daemon_call.                                                             *)

callerOnly == <<maximum, request, expected, worker, ran, answer>>

Gone == {"ended", "dead"}

Told(end, code) == caller' = "ended" /\ told' = [end |-> end, code |-> code]

Ask ==
    /\ caller = "asks"
    /\ IF Sendable(request.size, maximum.caller)
       THEN /\ caller' = "writes" /\ upward' = Frame(request.size)
            /\ UNCHANGED told
       ELSE Told("frame-too-large", 0) /\ UNCHANGED upward
    /\ UNCHANGED <<callerOnly, downward>>

WriteRequest ==
    /\ caller = "writes" /\ worker # "closed"
    /\ upward' \in Longer(upward)
    /\ caller' = IF Whole(upward') THEN "header" ELSE "writes"
    /\ UNCHANGED <<callerOnly, downward, told>>

\* The other end has gone: a write fails, a read finds the end of the stream.
WriteFails ==
    /\ caller = "writes" /\ worker = "closed"
    /\ Told("io", 0)
    /\ UNCHANGED <<callerOnly, upward, downward>>

ReadFails ==
    /\ worker = "closed"
    /\ \/ caller = "header" /\ ~HasHeader(downward)
       \/ caller = "payload" /\ ~HasPayload(downward)
    /\ Told("io", 0)
    /\ UNCHANGED <<callerOnly, upward, downward>>

ReadHeader ==
    /\ caller = "header" /\ HasHeader(downward)
    /\ IF Acceptable(downward, maximum.caller)
       THEN caller' = "payload" /\ UNCHANGED told
       ELSE Told("frame-too-large", 0)
    /\ UNCHANGED <<callerOnly, upward, downward>>

ReadReply ==
    /\ caller = "payload" /\ HasPayload(downward)
    /\ IF ~Parses(downward) THEN Told("invalid-json", 0)
       ELSE IF ~IsValid(answer) THEN Told("invalid response", 0)
       ELSE IF HasResult(answer) THEN Told("result", 0)
       ELSE Told("remote error", answer.code)
    /\ UNCHANGED <<callerOnly, upward, downward>>

CallerDies ==
    /\ caller \notin Gone
    /\ caller' = "dead"
    /\ UNCHANGED <<callerOnly, upward, downward, told>>

-----------------------------------------------------------------------------
(* handle_connection.                                                       *)

workerOnly == <<maximum, request, expected, upward, caller, told>>

Goes(stage) == worker' = stage /\ UNCHANGED <<workerOnly, downward, ran, answer>>

AcceptHeader ==
    /\ worker = "header" /\ HasHeader(upward)
    /\ Goes(IF Acceptable(upward, maximum.daemon) THEN "payload" ELSE "closed")

AcceptRequest ==
    /\ worker = "payload" /\ HasPayload(upward)
    /\ Goes(IF Parses(upward) /\ request.readable THEN "checks" ELSE "closed")

RequestCutOff ==
    /\ caller \in Gone
    /\ \/ worker = "header" /\ ~HasHeader(upward)
       \/ worker = "payload" /\ ~HasPayload(upward)
    /\ Goes("closed")

Answer(response, effect) ==
    /\ worker' = "answers" /\ answer' = response /\ ran' = effect
    /\ UNCHANGED <<workerOnly, downward>>

RejectRequest ==
    /\ worker = "checks" /\ Rejection # "none"
    /\ Answer(Failure(InvalidRequest, Rejection), FALSE)

Command ==
    /\ worker = "checks" /\ Rejection = "none"
    /\ \/ request.method \in {"shutdown", "cancel"} /\ Answer(Success("object"), TRUE)
       \/ request.method = "cancel nothing"
          /\ Answer(Failure(InvalidParams, "invalid-params"), FALSE)

\* Time passes until here, so that a deadline may or may not be over.
RefuseLate ==
    /\ worker = "checks" /\ Rejection = "none" /\ request.method = "service"
    /\ request.deadline
    /\ Answer(Failure(DeadlineExceeded, "deadline-exceeded"), FALSE)

Dispatch ==
    /\ worker = "checks" /\ Rejection = "none" /\ request.method = "service"
    /\ Goes("serves")

ServiceRefuses ==
    /\ worker = "serves"
    /\ \E error \in Refusals : Answer(Failure(Code(error), error), FALSE)

ServiceReturns ==
    /\ worker = "serves"
    /\ \/ \E value \in {"object", "null"} : Answer(Success(value), TRUE)
       \/ \E error \in Breakdowns : Answer(Failure(Code(error), error), TRUE)

\* A panic ends the thread, and with it the connection.
ServicePanics ==
    /\ worker = "serves"
    /\ worker' = "closed" /\ ran' = TRUE
    /\ UNCHANGED <<workerOnly, downward, answer>>

\* An answer that is too long for a frame is not sent, and nobody is told.
BeginReply ==
    /\ worker = "answers"
    /\ \E size \in Payloads :
          IF Sendable(size, maximum.daemon)
          THEN worker' = "writes" /\ downward' = Frame(size)
          ELSE worker' = "closed" /\ UNCHANGED downward
    /\ UNCHANGED <<workerOnly, ran, answer>>

WriteReply ==
    /\ worker = "writes"
    /\ IF caller \in Gone
       THEN worker' = "closed" /\ UNCHANGED downward
       ELSE /\ downward' \in Longer(downward)
            /\ worker' = IF Whole(downward') THEN "closed" ELSE "writes"
    /\ UNCHANGED <<workerOnly, ran, answer>>

DaemonDies == worker # "closed" /\ Goes("closed")

-----------------------------------------------------------------------------
Calling == WriteRequest \/ WriteFails \/ ReadFails \/ ReadHeader \/ ReadReply

Handling ==
    \/ AcceptHeader \/ AcceptRequest \/ RequestCutOff
    \/ RejectRequest \/ Command \/ RefuseLate \/ Dispatch
    \/ BeginReply \/ WriteReply

Serving == ServiceRefuses \/ ServiceReturns \/ ServicePanics

WireNext == Ask \/ Calling \/ CallerDies \/ Handling \/ Serving \/ DaemonDies

\* Both threads are scheduled; a handler need not return, and nobody need die.
WireFairness == WF_wireVars(Calling) /\ WF_wireVars(Handling)

WireSpec == WireInit /\ [][WireNext]_wireVars /\ WireFairness

-----------------------------------------------------------------------------
(* Properties.                                                              *)

Frames == [length : Nat, size : Nat, written : Nat]

Replies ==
    [kind : {"none", "success", "failure"},
     value : {"none", "object", "null", "deadline-exceeded", "invalid-params",
              "invalid-jsonrpc", "incompatible-version", "authentication", "invalid-method"}
             \cup Refusals \cup Breakdowns,
     code : Int]

EndNames ==
    {"none", "frame-too-large", "io", "invalid-json", "invalid response", "result",
     "remote error"}

Endings == [end : EndNames, code : Int]

\* The type invariant.
WireTypeOK ==
    /\ maximum \in [caller : Bounds, daemon : Bounds]
    /\ request \in Requests
    /\ expected \in [major : Majors, token : Tokens]
    /\ upward \in Frames /\ downward \in Frames
    /\ caller \in {"asks", "writes", "header", "payload"} \cup Gone
    /\ worker \in {"header", "payload", "checks", "serves", "answers", "writes", "closed"}
    /\ ran \in BOOLEAN
    /\ answer \in Replies
    /\ told \in Endings

\* Nothing has an effect that was not wholly received, within the daemon's
\* bound, from a caller that speaks the daemon's protocol and knows its token
\* (read_frame, RpcRequest::validate).
EffectsAreChecked ==
    ran => /\ request.readable /\ Whole(upward)
           /\ upward.size \in 1 .. maximum.daemon
           /\ request.jsonrpc /\ request.major = expected.major
           /\ request.token = expected.token
           /\ request.method # "malformed"

\* What daemon_call returns is what the daemon said, received as a whole: a
\* result means that the request ran, and an error of any code but
\* "internal" that it did not, so that it may be sent again.
AnswersAreTrue ==
    /\ told.end = "result" => ran /\ answer.kind = "success" /\ Whole(downward)
    /\ told.end = "remote error" =>
          /\ answer.kind = "failure" /\ told.code = answer.code /\ Whole(downward)
          /\ ran => told.code = Code("internal")
    /\ told.end # "invalid-json"
    /\ told.end = "invalid response" => answer.kind = "success" /\ answer.value = "null"

\* A call ends, whatever the bounds are and whoever dies, unless the service
\* never returns.
CallEnds ==
    []<>(worker # "serves") => ((caller = "writes") ~> (caller \in Gone))
=============================================================================
