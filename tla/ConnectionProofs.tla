-------------------------- MODULE ConnectionProofs --------------------------
(***************************************************************************)
(* That nothing has an effect that was not received and checked, and that  *)
(* what a caller is told is what happened, whatever the sizes, bounds,     *)
(* tokens and versions are.                                                *)
(*                                                                         *)
(* The invariant says what each end knows at each of its stages: of the    *)
(* frame it reads, how much has been written; of the request, that it has  *)
(* passed the checks; of the reply, whether the request ran.               *)
(***************************************************************************)
EXTENDS Connection, TLAPS

\* A frame says how long it is, and no more than that is written.
FrameOK(frame) ==
    /\ frame.length = frame.size
    /\ frame.written <= HeaderSize + frame.size

\* The worker has read the request and found it readable.
Received ==
    /\ Whole(upward) /\ upward.size \in 1 .. maximum.daemon
    /\ request.readable

FramesInv ==
    /\ FrameOK(upward) /\ FrameOK(downward)
    /\ caller = "writes" => upward.size # 0
    /\ worker = "writes" => downward.size # 0
    /\ caller = "asks" => upward = NoFrame
    /\ upward = NoFrame \/ upward.size # 0
    /\ downward = NoFrame \/ downward.size # 0

WorkerInv ==
    /\ worker = "payload" => HasHeader(upward) /\ upward.size \in 1 .. maximum.daemon
    /\ worker \in {"checks", "serves", "answers", "writes"} => Received
    /\ worker = "serves" => Rejection = "none"
    /\ ran => Received /\ Rejection = "none"
    /\ worker \in {"header", "payload", "checks", "serves"} => ~ran /\ answer = NoReply
    /\ worker \notin {"writes", "closed"} => downward = NoFrame

ReplyInv ==
    /\ downward # NoFrame \/ worker \in {"answers", "writes"} => answer.kind # "none"
    /\ answer.kind = "success" => ran
    /\ answer.kind = "failure" /\ ran => answer.code = Code("internal")

CallerInv ==
    /\ caller # "ended" => told.end = "none"
    /\ caller = "payload" => HasHeader(downward)

WireInv ==
    /\ WireTypeOK /\ FramesInv /\ WorkerInv /\ ReplyInv /\ CallerInv /\ AnswersAreTrue
-----------------------------------------------------------------------------
(* Frames.                                                                  *)

\* A frame in the making is a frame, and has nothing written.
LEMMA NewFrame ==
  ASSUME NEW size \in Payloads, NEW bound \in Bounds, Sendable(size, bound)
  PROVE  /\ Frame(size) \in Frames /\ FrameOK(Frame(size))
         /\ Frame(size).size = size /\ size # 0 /\ Frame(size) # NoFrame
         /\ ~HasHeader(Frame(size))
BY ConnectionAssumption
   DEF ConnectionAssumption, Sendable, Frame, Frames, FrameOK, NoFrame,
       HasHeader, HeaderSize

\* Writing more of a frame leaves it a frame, of the same size and not shorter.
LEMMA LongerFrame ==
  ASSUME NEW frame \in Frames, FrameOK(frame), NEW longer \in Longer(frame)
  PROVE  /\ longer \in Frames /\ FrameOK(longer)
         /\ longer.size = frame.size /\ longer.length = frame.length
         /\ longer.written > frame.written
<1>1. PICK n \in frame.written + 1 .. HeaderSize + frame.size :
         longer = [frame EXCEPT !.written = n]
  BY DEF Longer
<1>2. n \in Nat /\ n > frame.written /\ n <= HeaderSize + frame.size
  BY <1>1 DEF Frames, HeaderSize
<1> QED
  BY <1>1, <1>2 DEF Frames, FrameOK

\* What has its payload is whole.
LEMMA PayloadIsWhole ==
  ASSUME NEW frame \in Frames, FrameOK(frame), HasPayload(frame)
  PROVE  Whole(frame)
BY DEF Frames, FrameOK, HasPayload, Whole, HeaderSize

\* What has a header is a frame, of which something is written.
LEMMA NothingHasNoHeader == ~HasHeader(NoFrame) /\ ~Whole(NoFrame) /\ NoFrame \in Frames
BY DEF HasHeader, Whole, NoFrame, HeaderSize, Frames

-----------------------------------------------------------------------------
(* The invariant.                                                           *)

LEMMA WireInitInv == WireInit => WireInv
<1> SUFFICES ASSUME WireInit PROVE WireInv
  OBVIOUS
<1>1. WireTypeOK
  <2>1. answer \in Replies
    BY DEF WireInit, NoReply, Replies
  <2>2. told \in Endings
    BY DEF WireInit, Endings, EndNames
  <2>3. upward \in Frames /\ downward \in Frames
    BY NothingHasNoHeader DEF WireInit
  <2> QED
    BY <2>1, <2>2, <2>3 DEF WireInit, WireTypeOK
<1>2. FramesInv
  BY DEF WireInit, FramesInv, FrameOK, NoFrame, HeaderSize
<1>3. WorkerInv /\ ReplyInv /\ CallerInv /\ AnswersAreTrue
  BY DEF WireInit, WorkerInv, ReplyInv, CallerInv, AnswersAreTrue, NoReply
<1> QED
  BY <1>1, <1>2, <1>3 DEF WireInv

\* The end of a call.
LEMMA ToldEnds ==
  ASSUME NEW end \in EndNames, NEW code \in Int, Told(end, code)
  PROVE  caller' = "ended" /\ told' \in Endings /\ told'.end = end /\ told'.code = code
BY DEF Told, Endings

\* How a read of the reply ends: with what the reply says.
LEMMA ReplyIsTold ==
  ASSUME WireInv, ReadReply
  PROVE  /\ caller' = "ended" /\ told' \in Endings
         /\ Whole(downward) /\ downward # NoFrame
         /\ \/ told'.end = "invalid response" /\ answer.kind = "success" /\ answer.value = "null"
            \/ told'.end = "result" /\ answer.kind = "success" /\ ran
            \/ told'.end = "remote error" /\ answer.kind = "failure" /\ told'.code = answer.code
<1>1. HasPayload(downward) /\ HasHeader(downward)
  BY DEF ReadReply, WireInv, CallerInv
<1>2. Whole(downward) /\ Parses(downward) /\ downward # NoFrame
  BY <1>1, PayloadIsWhole, NothingHasNoHeader DEF WireInv, WireTypeOK, FramesInv, FrameOK, Parses
<1>3. answer.kind \in {"success", "failure"} /\ answer.code \in Int
  BY <1>2 DEF WireInv, ReplyInv, WireTypeOK, Replies
<1>4. CASE ~IsValid(answer)
  <2>1. Told("invalid response", 0)
    BY <1>2, <1>4 DEF ReadReply
  <2>2. answer.kind = "success" /\ answer.value = "null"
    BY <1>3, <1>4 DEF IsValid, HasResult, HasError
  <2>3. "invalid response" \in EndNames /\ 0 \in Int
    BY DEF EndNames
  <2>4. /\ caller' = "ended" /\ told' \in Endings /\ told'.end = "invalid response"
    BY <2>1, <2>3, ToldEnds, Zenon
  <2> QED
    BY <1>2, <2>2, <2>4
<1>5. CASE IsValid(answer) /\ HasResult(answer)
  <2>1. Told("result", 0)
    BY <1>2, <1>5 DEF ReadReply
  <2>2. "result" \in EndNames
    BY DEF EndNames
  <2>3. /\ caller' = "ended" /\ told' \in Endings /\ told'.end = "result"
    BY <2>1, <2>2, ToldEnds
  <2>4. answer.kind = "success" /\ ran
    BY <1>5 DEF HasResult, WireInv, ReplyInv
  <2> QED
    BY <1>2, <2>3, <2>4
<1>6. CASE IsValid(answer) /\ ~HasResult(answer)
  <2>1. Told("remote error", answer.code)
    BY <1>2, <1>6 DEF ReadReply
  <2>2. "remote error" \in EndNames
    BY DEF EndNames
  <2>3. /\ caller' = "ended" /\ told' \in Endings /\ told'.end = "remote error"
        /\ told'.code = answer.code
    BY <1>3, <2>1, <2>2, ToldEnds
  <2>4. answer.kind = "failure"
    BY <1>3, <1>6 DEF IsValid, HasError, HasResult
  <2> QED
    BY <1>2, <2>3, <2>4
<1> QED
  BY <1>4, <1>5, <1>6

\* The caller's steps leave everything to the worker but the frame it reads,
\* and that only grows.
LEMMA CallerWrites ==
  ASSUME WireInv, Ask \/ Calling \/ CallerDies
  PROVE  /\ UNCHANGED <<maximum, request, expected, worker, ran, answer, downward>>
         /\ upward' \in Frames /\ FrameOK(upward')
         /\ upward' = NoFrame \/ upward'.size # 0
         /\ Whole(upward) => upward' = upward
         /\ HasHeader(upward) => HasHeader(upward') /\ upward'.size = upward.size
         /\ caller' \in {"writes", "header", "payload"} \cup Gone
         /\ caller' = "writes" => upward'.size # 0
<1> USE DEF WireInv
<1>1. UNCHANGED <<maximum, request, expected, worker, ran, answer, downward>>
  BY DEF Calling, Ask, WriteRequest, WriteFails, ReadFails, ReadHeader, ReadReply,
         CallerDies, callerOnly
<1>2. CASE UNCHANGED upward /\ caller' \in {"header", "payload"} \cup Gone
  BY <1>1, <1>2 DEF WireTypeOK, FramesInv, Gone
<1>3. CASE Ask
  <2>1. CASE ~Sendable(request.size, maximum.caller)
    BY <1>2, <1>3, <2>1 DEF Ask, Told, Gone
  <2>2. CASE Sendable(request.size, maximum.caller)
    <3>1. caller' = "writes" /\ upward' = Frame(request.size)
      BY <1>3, <2>2 DEF Ask
    <3>2. request.size \in Payloads /\ maximum.caller \in Bounds
      BY DEF WireTypeOK, Requests
    <3>3. /\ upward' \in Frames /\ FrameOK(upward') /\ upward'.size # 0
          /\ upward' # NoFrame
      BY <2>2, <3>1, <3>2, NewFrame
    <3>4. ~Whole(upward) /\ ~HasHeader(upward)
      BY <1>3, NothingHasNoHeader DEF Ask, FramesInv
    <3> QED
      BY <1>1, <3>1, <3>3, <3>4
  <2> QED
    BY <2>1, <2>2
<1>4. CASE WriteRequest
  <2>1. /\ caller = "writes" /\ upward' \in Longer(upward)
        /\ caller' \in {"header", "writes"}
    BY <1>4 DEF WriteRequest
  <2>2. /\ upward' \in Frames /\ FrameOK(upward')
        /\ upward'.size = upward.size /\ upward'.length = upward.length
        /\ upward'.written > upward.written
    BY <2>1, LongerFrame DEF WireTypeOK, FramesInv
  <2>3. ~Whole(upward)
    BY <2>2 DEF Whole, FrameOK, Frames, HeaderSize, WireTypeOK
  <2>4. HasHeader(upward) => HasHeader(upward')
    BY <2>2 DEF HasHeader, Frames, HeaderSize, WireTypeOK
  <2>5. upward.size # 0
    BY <2>1 DEF FramesInv
  <2> QED
    BY <1>1, <2>1, <2>2, <2>3, <2>4, <2>5
<1>5. CASE WriteFails \/ ReadFails \/ ReadReply
  BY <1>2, <1>5 DEF WriteFails, ReadFails, ReadReply, Told, Gone
<1>6. CASE ReadHeader
  BY <1>2, <1>6 DEF ReadHeader, Told, Gone
<1>7. CASE CallerDies
  BY <1>2, <1>7 DEF CallerDies, Gone
<1> QED
  BY <1>3, <1>4, <1>5, <1>6, <1>7 DEF Calling

\* A call that has not ended with an answer says nothing of the daemon.
LEMMA NothingTold ==
  ASSUME told'.end \in {"none", "io", "frame-too-large"}
  PROVE  AnswersAreTrue'
<1>1. told'.end # "result"
  OBVIOUS
<1>2. told'.end # "remote error"
  OBVIOUS
<1>3. told'.end # "invalid-json"
  OBVIOUS
<1>4. told'.end # "invalid response"
  OBVIOUS
<1> QED
  BY <1>1, <1>2, <1>3, <1>4 DEF AnswersAreTrue

LEMMA CallerKeepsInv ==
  ASSUME WireInv, Ask \/ Calling \/ CallerDies
  PROVE  WireInv'
<1>1. /\ UNCHANGED <<maximum, request, expected, worker, ran, answer, downward>>
      /\ upward' \in Frames /\ FrameOK(upward')
      /\ upward' = NoFrame \/ upward'.size # 0
      /\ Whole(upward) => upward' = upward
      /\ HasHeader(upward) => HasHeader(upward') /\ upward'.size = upward.size
      /\ caller' \in {"writes", "header", "payload"} \cup Gone
      /\ caller' = "writes" => upward'.size # 0
  BY CallerWrites
<1>2. Rejection' = Rejection
  BY <1>1 DEF Rejection, Compatible
<1>3. FramesInv'
  BY <1>1 DEF WireInv, FramesInv, Gone
<1>4. WorkerInv'
  <2>1. Received => Received'
    BY <1>1 DEF Received
  <2> QED
    BY <1>1, <1>2, <2>1 DEF WireInv, WorkerInv
<1>5. ReplyInv'
  BY <1>1 DEF WireInv, ReplyInv
<1>6. told' \in Endings /\ CallerInv' /\ AnswersAreTrue'
  <2>1. ASSUME told' = told, caller \notin Gone, caller' # "ended",
               caller' = "payload" => HasHeader(downward)
        PROVE  told' \in Endings /\ CallerInv' /\ AnswersAreTrue'
    <3>1. told.end = "none"
      BY <2>1 DEF WireInv, CallerInv, Gone
    <3>2. told' \in Endings
      BY <2>1 DEF WireInv, WireTypeOK
    <3>3. CallerInv'
      BY <1>1, <2>1, <3>1 DEF CallerInv
    <3>4. AnswersAreTrue'
      BY <2>1, <3>1 DEF AnswersAreTrue
    <3> QED
      BY <3>2, <3>3, <3>4
  <2>2. ASSUME NEW end \in {"io", "frame-too-large"}, Told(end, 0)
        PROVE  told' \in Endings /\ CallerInv' /\ AnswersAreTrue'
    <3>1. end \in EndNames
      BY DEF EndNames
    <3>2. caller' = "ended" /\ told' \in Endings /\ told'.end = end
      BY <2>2, <3>1, ToldEnds
    <3>3. CallerInv'
      BY <3>2 DEF CallerInv
    <3>4. told'.end \in {"none", "io", "frame-too-large"}
      BY <3>2
    <3>5. AnswersAreTrue'
      BY <3>4, NothingTold
    <3> QED
      BY <3>2, <3>3, <3>5
  <2>3. CASE ReadReply
    <3>1. /\ caller' = "ended" /\ told' \in Endings
          /\ Whole(downward) /\ downward # NoFrame
          /\ \/ told'.end = "invalid response" /\ answer.kind = "success" /\ answer.value = "null"
             \/ told'.end = "result" /\ answer.kind = "success" /\ ran
             \/ told'.end = "remote error" /\ answer.kind = "failure" /\ told'.code = answer.code
      BY <2>3, ReplyIsTold
    <3>2. CallerInv'
      BY <3>1 DEF CallerInv
    <3>3. Whole(downward') /\ answer' = answer /\ ran' = ran
      BY <1>1, <3>1
    <3>4. answer.kind = "failure" /\ ran => answer.code = Code("internal")
      BY DEF WireInv, ReplyInv
    <3>5. ASSUME told'.end = "invalid response"
          PROVE  AnswersAreTrue'
      <4>1. answer'.kind = "success" /\ answer'.value = "null"
        BY <3>1, <3>3, <3>5
      <4>2. told'.end # "result" /\ told'.end # "remote error" /\ told'.end # "invalid-json"
        BY <3>5
      <4> QED
        BY <4>1, <4>2 DEF AnswersAreTrue
    <3>6. ASSUME told'.end = "result"
          PROVE  AnswersAreTrue'
      <4>1. answer'.kind = "success" /\ ran' /\ Whole(downward')
        BY <3>1, <3>3, <3>6
      <4>2. /\ told'.end # "remote error" /\ told'.end # "invalid-json"
            /\ told'.end # "invalid response"
        BY <3>6
      <4> QED
        BY <4>1, <4>2 DEF AnswersAreTrue
    <3>7. ASSUME told'.end = "remote error"
          PROVE  AnswersAreTrue'
      <4>1. answer.kind = "failure" /\ told'.code = answer.code
        BY <3>1, <3>7
      <4>2. /\ answer'.kind = "failure" /\ told'.code = answer'.code /\ Whole(downward')
            /\ ran' => told'.code = Code("internal")
        BY <3>3, <3>4, <4>1
      <4>3. told'.end # "result" /\ told'.end # "invalid-json" /\ told'.end # "invalid response"
        BY <3>7
      <4> QED
        BY <4>2, <4>3 DEF AnswersAreTrue
    <3> QED
      BY <3>1, <3>2, <3>5, <3>6, <3>7
  <2>4. CASE Ask
    BY <2>1, <2>2, <2>4 DEF Ask, Gone
  <2>5. CASE WriteRequest \/ CallerDies
    BY <2>1, <2>5 DEF WriteRequest, CallerDies, Gone
  <2>6. CASE ReadHeader
    BY <2>1, <2>2, <2>6 DEF ReadHeader, Gone
  <2> QED
    BY <2>2, <2>3, <2>4, <2>5, <2>6 DEF Calling, WriteFails, ReadFails
<1>7. WireTypeOK'
  BY <1>1, <1>6 DEF WireInv, WireTypeOK
<1> QED
  BY <1>3, <1>4, <1>5, <1>6, <1>7 DEF WireInv

\* A step of the worker keeps the invariant when it keeps what the worker and
\* the reply stand for, and takes back neither a reply nor what is written of it.
LEMMA WorkerSteps ==
  ASSUME WireInv, UNCHANGED <<maximum, request, expected, upward, caller, told>>,
         worker' \in {"header", "payload", "checks", "serves", "answers", "writes", "closed"},
         ran' \in BOOLEAN, answer' \in Replies, downward' \in Frames,
         FrameOK(downward'), downward' = NoFrame \/ downward'.size # 0,
         worker' = "writes" => downward'.size # 0,
         HasHeader(downward) => HasHeader(downward'),
         Whole(downward) => downward' = downward,
         answer.kind # "none" => answer' = answer /\ ran' = ran,
         WorkerInv', ReplyInv'
  PROVE  WireInv'
<1>1. WireTypeOK'
  BY DEF WireInv, WireTypeOK
<1>2. FramesInv'
  BY DEF WireInv, FramesInv
<1>3. CallerInv'
  BY DEF WireInv, CallerInv
<1>4. AnswersAreTrue'
  <2>1. ASSUME told.end = "result" PROVE AnswersAreTrue'
    <3>1. ran /\ answer.kind = "success" /\ Whole(downward)
      BY <2>1 DEF WireInv, AnswersAreTrue
    <3>2. told'.end = "result" /\ ran' /\ answer'.kind = "success" /\ Whole(downward')
      BY <2>1, <3>1
    <3> QED
      BY <3>2 DEF AnswersAreTrue
  <2>2. ASSUME told.end = "remote error" PROVE AnswersAreTrue'
    <3>1. /\ answer.kind = "failure" /\ told.code = answer.code /\ Whole(downward)
          /\ ran => told.code = Code("internal")
      BY <2>2 DEF WireInv, AnswersAreTrue
    <3>2. /\ told'.end = "remote error"
          /\ answer'.kind = "failure" /\ told'.code = answer'.code /\ Whole(downward')
          /\ ran' => told'.code = Code("internal")
      BY <2>2, <3>1
    <3> QED
      BY <3>2 DEF AnswersAreTrue
  <2>3. ASSUME told.end = "invalid response" PROVE AnswersAreTrue'
    <3>1. answer.kind = "success" /\ answer.value = "null"
      BY <2>3 DEF WireInv, AnswersAreTrue
    <3>2. told'.end = "invalid response" /\ answer'.kind = "success" /\ answer'.value = "null"
      BY <2>3, <3>1
    <3> QED
      BY <3>2 DEF AnswersAreTrue
  <2>4. ASSUME told.end \notin {"result", "remote error", "invalid response"}
        PROVE  AnswersAreTrue'
    <3>1. told.end # "invalid-json"
      BY DEF WireInv, AnswersAreTrue
    <3>2. /\ told'.end # "result" /\ told'.end # "remote error"
          /\ told'.end # "invalid response" /\ told'.end # "invalid-json"
      BY <2>4, <3>1
    <3> QED
      BY <3>2 DEF AnswersAreTrue
  <2> QED
    BY <2>1, <2>2, <2>3, <2>4
<1> QED
  BY <1>1, <1>2, <1>3, <1>4 DEF WireInv

\* The codes and the bounds are numbers.
LEMMA BoundsAreNat == Bounds \subseteq Nat
BY ConnectionAssumption DEF ConnectionAssumption

LEMMA CodesAreInt == {InvalidRequest, DeadlineExceeded, InvalidParams} \subseteq Int
BY DEF InvalidRequest, DeadlineExceeded, InvalidParams

\* What the invariant says of a worker is about what only the caller changes.
LEMMA SameRequest ==
  ASSUME UNCHANGED <<maximum, request, expected, upward>>
  PROVE  Rejection' = Rejection /\ (Received' <=> Received)
BY DEF Rejection, Compatible, Received

\* A step that only takes the worker on, from one stage to the next.
LEMMA WorkerGoes ==
  ASSUME WireInv, NEW stage \in {"payload", "checks", "serves", "closed"}, Goes(stage),
         stage = "payload" =>
            worker = "header" /\ HasHeader(upward) /\ upward.size \in 1 .. maximum.daemon,
         stage = "checks" => worker = "payload" /\ Received,
         stage = "serves" => worker = "checks" /\ Rejection = "none"
  PROVE  WireInv'
<1>1. /\ UNCHANGED <<maximum, request, expected, upward, caller, told, downward, ran, answer>>
      /\ worker' = stage
  BY DEF Goes, workerOnly
<1>2. Rejection' = Rejection /\ (Received' <=> Received)
  BY <1>1, SameRequest
<1>3. WorkerInv'
  BY <1>1, <1>2 DEF WireInv, WorkerInv
<1>4. ReplyInv'
  BY <1>1 DEF WireInv, ReplyInv
<1> QED
  BY <1>1, <1>3, <1>4, WorkerSteps DEF WireInv, WireTypeOK, FramesInv

\* The making of a reply.
LEMMA WorkerAnswers ==
  ASSUME WireInv, NEW response \in Replies, NEW effect \in BOOLEAN,
         Answer(response, effect), worker \in {"checks", "serves"}, Rejection = "none" \/ ~effect,
         response.kind \in {"success", "failure"}, response.kind = "success" => effect,
         response.kind = "failure" /\ effect => response.code = Code("internal")
  PROVE  WireInv'
<1>1. /\ UNCHANGED <<maximum, request, expected, upward, caller, told, downward>>
      /\ worker' = "answers" /\ answer' = response /\ ran' = effect
  BY DEF Answer, workerOnly
<1>2. Rejection' = Rejection /\ (Received' <=> Received)
  BY <1>1, SameRequest
<1>3. downward = NoFrame /\ answer.kind = "none" /\ Received
  BY DEF WireInv, WorkerInv, NoReply
<1>4. WorkerInv'
  BY <1>1, <1>2, <1>3 DEF WorkerInv
<1>5. ReplyInv'
  BY <1>1, <1>3 DEF ReplyInv
<1> QED
  BY <1>1, <1>3, <1>4, <1>5, WorkerSteps DEF WireInv, WireTypeOK, FramesInv

\* The worker's steps, whether its own, the service's, or its death.
LEMMA WorkerKeepsInv ==
  ASSUME WireInv, Handling \/ Serving \/ DaemonDies
  PROVE  WireInv'
<1>1. CASE AcceptHeader
  <2>1. worker = "header" /\ HasHeader(upward)
    BY <1>1 DEF AcceptHeader
  <2>2. CASE Acceptable(upward, maximum.daemon)
    <3>1. Goes("payload")
      BY <1>1, <2>2 DEF AcceptHeader
    <3>2. upward.size \in 1 .. maximum.daemon
      <4>1. maximum.daemon \in Bounds
        BY DEF WireInv, WireTypeOK
      <4>2. maximum.daemon \in Nat
        BY <4>1, BoundsAreNat
      <4> QED
        BY <2>2, <4>2 DEF Acceptable, WireInv, WireTypeOK, FramesInv, FrameOK, Frames
    <3> QED
      BY <2>1, <3>1, <3>2, WorkerGoes
  <2>3. CASE ~Acceptable(upward, maximum.daemon)
    <3>1. Goes("closed")
      BY <1>1, <2>3 DEF AcceptHeader
    <3> QED
      BY <3>1, WorkerGoes
  <2> QED
    BY <2>2, <2>3
<1>2. CASE AcceptRequest
  <2>1. worker = "payload" /\ HasPayload(upward)
    BY <1>2 DEF AcceptRequest
  <2>2. CASE Parses(upward) /\ request.readable
    <3>1. Goes("checks")
      BY <1>2, <2>2 DEF AcceptRequest
    <3>2. Whole(upward)
      BY <2>1, PayloadIsWhole DEF WireInv, WireTypeOK, FramesInv
    <3>3. Received
      BY <2>1, <2>2, <3>2 DEF WireInv, WorkerInv, Received
    <3> QED
      BY <2>1, <3>1, <3>3, WorkerGoes
  <2>3. CASE ~(Parses(upward) /\ request.readable)
    <3>1. Goes("closed")
      BY <1>2, <2>3 DEF AcceptRequest
    <3> QED
      BY <3>1, WorkerGoes
  <2> QED
    BY <2>2, <2>3
<1>3. CASE RequestCutOff \/ DaemonDies
  <2>1. Goes("closed")
    BY <1>3 DEF RequestCutOff, DaemonDies
  <2> QED
    BY <2>1, WorkerGoes
<1>4. CASE RejectRequest
  <2>1. Failure(InvalidRequest, Rejection) \in Replies
    BY CodesAreInt DEF Failure, Replies, Rejection
  <2>2. worker = "checks" /\ Answer(Failure(InvalidRequest, Rejection), FALSE)
    BY <1>4 DEF RejectRequest
  <2>3. Failure(InvalidRequest, Rejection).kind = "failure"
    BY DEF Failure
  <2> QED
    BY <2>1, <2>2, <2>3, WorkerAnswers
<1>5. CASE Command
  <2>1. worker = "checks" /\ Rejection = "none"
    BY <1>5 DEF Command
  <2>2. CASE Answer(Success("object"), TRUE)
    <3>1. Success("object") \in Replies /\ Success("object").kind = "success"
      BY DEF Success, Replies
    <3> QED
      BY <2>1, <2>2, <3>1, WorkerAnswers
  <2>3. CASE Answer(Failure(InvalidParams, "invalid-params"), FALSE)
    <3>1. /\ Failure(InvalidParams, "invalid-params") \in Replies
          /\ Failure(InvalidParams, "invalid-params").kind = "failure"
      BY CodesAreInt DEF Failure, Replies
    <3> QED
      BY <2>1, <2>3, <3>1, WorkerAnswers
  <2> QED
    BY <1>5, <2>2, <2>3 DEF Command
<1>6. CASE RefuseLate
  <2>1. worker = "checks" /\ Answer(Failure(DeadlineExceeded, "deadline-exceeded"), FALSE)
    BY <1>6 DEF RefuseLate
  <2>2. /\ Failure(DeadlineExceeded, "deadline-exceeded") \in Replies
        /\ Failure(DeadlineExceeded, "deadline-exceeded").kind = "failure"
    BY CodesAreInt DEF Failure, Replies
  <2> QED
    BY <2>1, <2>2, WorkerAnswers
<1>7. CASE Dispatch
  <2>1. worker = "checks" /\ Rejection = "none" /\ Goes("serves")
    BY <1>7 DEF Dispatch
  <2> QED
    BY <2>1, WorkerGoes
<1>8. CASE ServiceRefuses
  <2>1. PICK error \in Refusals : Answer(Failure(Code(error), error), FALSE)
    BY <1>8 DEF ServiceRefuses
  <2>2. worker = "serves"
    BY <1>8 DEF ServiceRefuses
  <2>3. Code(error) \in Int
    BY DEF Code
  <2>4. Failure(Code(error), error) \in Replies /\ Failure(Code(error), error).kind = "failure"
    BY <2>3 DEF Failure, Replies
  <2> QED
    BY <2>1, <2>2, <2>4, WorkerAnswers
<1>9. CASE ServiceReturns
  <2>1. worker = "serves" /\ Rejection = "none"
    BY <1>9 DEF ServiceReturns, WireInv, WorkerInv
  <2>2. ASSUME NEW value \in {"object", "null"}, Answer(Success(value), TRUE)
        PROVE  WireInv'
    <3>1. Success(value) \in Replies /\ Success(value).kind = "success"
      BY DEF Success, Replies
    <3> QED
      BY <2>1, <2>2, <3>1, WorkerAnswers
  <2>3. ASSUME NEW error \in Breakdowns, Answer(Failure(Code(error), error), TRUE)
        PROVE  WireInv'
    <3>1. Code(error) \in Int /\ Code(error) = Code("internal")
      BY DEF Code, Breakdowns
    <3>2. /\ Failure(Code(error), error) \in Replies
          /\ Failure(Code(error), error).kind = "failure"
          /\ Failure(Code(error), error).code = Code("internal")
      BY <3>1 DEF Failure, Replies
    <3> QED
      BY <2>1, <2>3, <3>2, WorkerAnswers
  <2> QED
    BY <1>9, <2>2, <2>3 DEF ServiceReturns
<1>10. CASE ServicePanics
  <2>1. /\ worker = "serves" /\ worker' = "closed" /\ ran' = TRUE
        /\ UNCHANGED <<maximum, request, expected, upward, caller, told, downward, answer>>
    BY <1>10 DEF ServicePanics, workerOnly
  <2>2. Rejection' = Rejection /\ (Received' <=> Received)
    BY <2>1, SameRequest
  <2>3. downward = NoFrame /\ answer.kind = "none" /\ Received /\ Rejection = "none"
    BY <2>1 DEF WireInv, WorkerInv, NoReply
  <2>4. WorkerInv'
    BY <2>1, <2>2, <2>3 DEF WorkerInv
  <2>5. ReplyInv'
    BY <2>1, <2>3 DEF ReplyInv
  <2> QED
    BY <2>1, <2>3, <2>4, <2>5, WorkerSteps DEF WireInv, WireTypeOK, FramesInv
<1>11. CASE BeginReply
  <2>1. /\ worker = "answers"
        /\ UNCHANGED <<maximum, request, expected, upward, caller, told, ran, answer>>
    BY <1>11 DEF BeginReply, workerOnly
  <2>2. Rejection' = Rejection /\ (Received' <=> Received)
    BY <2>1, SameRequest
  <2>3. downward = NoFrame /\ Received /\ ~HasHeader(downward) /\ ~Whole(downward)
    BY <2>1, NothingHasNoHeader DEF WireInv, WorkerInv
  <2>4. PICK size \in Payloads :
           IF Sendable(size, maximum.daemon)
           THEN worker' = "writes" /\ downward' = Frame(size)
           ELSE worker' = "closed" /\ UNCHANGED downward
    BY <1>11 DEF BeginReply
  <2>5. WorkerInv'
    BY <2>1, <2>2, <2>3, <2>4 DEF WireInv, WorkerInv
  <2>6. answer.kind # "none"
    BY <2>1 DEF WireInv, ReplyInv
  <2>7. ReplyInv'
    BY <2>1, <2>6 DEF WireInv, ReplyInv
  <2>8. CASE Sendable(size, maximum.daemon)
    <3>1. maximum.daemon \in Bounds
      BY DEF WireInv, WireTypeOK
    <3>2. /\ downward' \in Frames /\ FrameOK(downward') /\ downward'.size # 0
          /\ worker' = "writes"
      BY <2>4, <2>8, <3>1, NewFrame
    <3> QED
      BY <2>1, <2>3, <2>5, <2>7, <3>2, WorkerSteps DEF WireInv, WireTypeOK
  <2>9. CASE ~Sendable(size, maximum.daemon)
    BY <2>1, <2>4, <2>5, <2>7, <2>9, WorkerSteps DEF WireInv, WireTypeOK, FramesInv
  <2> QED
    BY <2>8, <2>9
<1>12. CASE WriteReply
  <2>1. /\ worker = "writes" /\ worker' \in {"writes", "closed"}
        /\ UNCHANGED <<maximum, request, expected, upward, caller, told, ran, answer>>
    BY <1>12 DEF WriteReply, workerOnly
  <2>2. Rejection' = Rejection /\ (Received' <=> Received)
    BY <2>1, SameRequest
  <2>3. WorkerInv'
    BY <2>1, <2>2 DEF WireInv, WorkerInv
  <2>4. CASE downward' = downward
    <3>1. ReplyInv'
      BY <2>1, <2>4 DEF WireInv, ReplyInv
    <3> QED
      BY <2>1, <2>3, <2>4, <3>1, WorkerSteps DEF WireInv, WireTypeOK, FramesInv
  <2>5. CASE downward' \in Longer(downward)
    <3>1. /\ downward' \in Frames /\ FrameOK(downward')
          /\ downward'.size = downward.size /\ downward'.length = downward.length
          /\ downward'.written > downward.written
      BY <2>5, LongerFrame DEF WireInv, WireTypeOK, FramesInv
    <3>2. ~Whole(downward)
      BY <3>1 DEF Whole, FrameOK, Frames, HeaderSize, WireInv, WireTypeOK
    <3>3. HasHeader(downward) => HasHeader(downward')
      BY <3>1 DEF HasHeader, Frames, HeaderSize, WireInv, WireTypeOK
    <3>4. downward.size # 0 /\ downward # NoFrame
      BY <2>1 DEF WireInv, FramesInv, NoFrame
    <3>5. ReplyInv'
      BY <2>1, <3>4 DEF WireInv, ReplyInv
    <3> QED
      BY <2>1, <2>3, <3>1, <3>2, <3>3, <3>4, <3>5, WorkerSteps DEF WireInv, WireTypeOK
  <2> QED
    BY <1>12, <2>4, <2>5 DEF WriteReply
<1> QED
  BY <1>1, <1>2, <1>3, <1>4, <1>5, <1>6, <1>7, <1>8, <1>9, <1>10, <1>11, <1>12
     DEF Handling, Serving

\* A step that changes nothing.
LEMMA WireStutters ==
  ASSUME WireInv, UNCHANGED wireVars
  PROVE  WireInv'
<1>1. /\ UNCHANGED <<maximum, request, expected, upward, caller, told>>
      /\ UNCHANGED <<worker, ran, answer, downward>>
  BY DEF wireVars
<1>2. Rejection' = Rejection /\ (Received' <=> Received)
  BY <1>1, SameRequest
<1>3. WorkerInv'
  BY <1>1, <1>2 DEF WireInv, WorkerInv
<1>4. ReplyInv'
  BY <1>1 DEF WireInv, ReplyInv
<1> QED
  BY <1>1, <1>3, <1>4, WorkerSteps DEF WireInv, WireTypeOK, FramesInv

-----------------------------------------------------------------------------
(* The theorems.                                                            *)

\* Every state of a connection keeps the invariant: every frame says how long
\* it is, each end is at a stage that the other's frame allows, and the reply
\* is of what was done (handle_connection, daemon_call).
THEOREM ConnectionInvariant == WireSpec => []WireInv
<1>1. ASSUME WireInv, WireNext PROVE WireInv'
  BY <1>1, CallerKeepsInv, WorkerKeepsInv DEF WireNext
<1>2. WireInv /\ [WireNext]_wireVars => WireInv'
  BY <1>1, WireStutters
<1> QED
  BY WireInitInv, <1>2, PTL DEF WireSpec

\* Two tokens of the same bytes are the same token (constant_time_eq).
LEMMA SameTokenIsEqual ==
  ASSUME NEW left \in Tokens, NEW right \in Tokens, SameToken(left, right)
  PROVE  left = right
BY ConnectionAssumption DEF ConnectionAssumption, SameToken

\* The invariant says what the effects of a request presuppose.
LEMMA EffectsFollow == WireInv => EffectsAreChecked
<1> SUFFICES ASSUME WireInv, ran PROVE EffectsAreChecked
  BY DEF EffectsAreChecked
<1>1. Received /\ Rejection = "none"
  BY DEF WireInv, WorkerInv
<1>2. /\ request.jsonrpc /\ Compatible /\ SameToken(request.token, expected.token)
      /\ request.method # "malformed"
  BY <1>1 DEF Rejection
<1>3. request.token \in Tokens /\ expected.token \in Tokens
  BY DEF WireInv, WireTypeOK, Requests
<1>4. request.token = expected.token
  BY <1>2, <1>3, SameTokenIsEqual
<1> QED
  BY <1>1, <1>2, <1>4 DEF EffectsAreChecked, Received, Compatible

\* Nothing has an effect that was not wholly received, from a caller of the
\* daemon's protocol that knows its token, for every size, bound and token
\* (read_frame, RpcRequest::validate).
THEOREM EffectsChecked == WireSpec => []EffectsAreChecked
BY ConnectionInvariant, EffectsFollow, PTL

\* A result means that the request ran, an error that it did not unless its
\* code is that of an internal error, and no message is taken for another's
\* bytes (daemon_call, RpcResponse::is_valid).
THEOREM AnswersTrue == WireSpec => []AnswersAreTrue
<1>1. WireInv => AnswersAreTrue
  BY DEF WireInv
<1> QED
  BY ConnectionInvariant, <1>1, PTL
=============================================================================
