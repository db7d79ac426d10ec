--------------------------- MODULE ProviderProofs ---------------------------
(***************************************************************************)
(* Proofs about optional providers, for every number of callers, requests, *)
(* threshold and cooldown, any pipe, and whatever a server sends.          *)
(*                                                                         *)
(* ManagedProcess: the circuit is open exactly from its threshold on, and  *)
(* a caller has a program exactly while it waits for it.                   *)
(*                                                                         *)
(* McpSession: a session counts its requests and its ids together, so that *)
(* within it an id stands for one request only; and nothing that is on its *)
(* way, or that the server has read, was made for another session, as all  *)
(* of it is dropped with the session.                                      *)
(*                                                                         *)
(* ExternalMemory: the records read are the first of what the parts so far *)
(* hold when they are joined, and that begins what all parts hold.         *)
(***************************************************************************)
EXTENDS ManagedProcess, McpSession, ExternalMemory, FiniteSetTheorems, SequenceTheorems, TLAPS

-----------------------------------------------------------------------------
(* The circuit breaker and the processes.                                   *)

\* Between Spawn and Return, and only then, a caller has a program.
ProgramWhileWaiting ==
    \A c \in Callers : child[c] # "none" <=> pc[c] \in {"wait", "collect"}

Inv == TypeOK /\ OpenAtThreshold /\ ProgramWhileWaiting

\* Only permit, success, failure and the clock touch the circuit: each keeps
\* the relation between its two fields.
LEMMA CircuitStep ==
    ASSUME CircuitTypeOK, OpenAtThreshold,
           Permit \/ Success \/ Failure \/ TimePasses \/ UNCHANGED circuitVars
    PROVE  CircuitTypeOK' /\ OpenAtThreshold'
<1>. USE CircuitAssumption DEF CircuitTypeOK, OpenAtThreshold, circuitVars
<1>1. CASE Permit
  BY <1>1 DEF Permit, Refusing, Reset
<1>2. CASE Success
  BY <1>2 DEF Success, Reset
<1>3. CASE Failure
  BY <1>3 DEF Failure, Opens
<1>4. CASE TimePasses
  BY <1>4 DEF TimePasses, Refusing
<1>5. CASE UNCHANGED circuitVars
  BY <1>5
<1>. QED BY <1>1, <1>2, <1>3, <1>4, <1>5

LEMMA InitInv == Init => Inv
  BY CircuitAssumption
     DEF Init, CircuitInit, Inv, TypeOK, CircuitTypeOK, OpenAtThreshold,
         ProgramWhileWaiting, Outcomes

\* A step of a caller touches that caller alone.
LEMMA CallerStep ==
    ASSUME Inv, NEW c \in Callers,
           \/ AskRefused(c) \/ AskPermitted(c) \/ Proceed(c)
           \/ Collect(c) \/ Exit(c) \/ Expire(c)
    PROVE  Inv'
<1>. USE DEF Inv, TypeOK, ProgramWhileWaiting, Outcomes, Goto
<1>1. CASE AskRefused(c)
  BY <1>1, CircuitStep DEF AskRefused, Refuse
<1>2. CASE AskPermitted(c)
  BY <1>2, CircuitStep DEF AskPermitted
<1>3. CASE Spawn(c)
  BY <1>3, CircuitStep DEF Spawn, Return
<1>4. CASE Poll(c)
  BY <1>4, CircuitStep DEF Poll, Return
<1>5. CASE Collect(c)
  BY <1>5, CircuitStep DEF Collect, Return
<1>6. CASE Report(c)
  BY <1>6, CircuitStep DEF Report
<1>7. CASE Exit(c)
  BY <1>7, CircuitStep DEF Exit
<1>8. CASE Expire(c)
  BY <1>8, CircuitStep DEF Expire
<1>. QED BY <1>1, <1>2, <1>3, <1>4, <1>5, <1>6, <1>7, <1>8 DEF Proceed

LEMMA NextInv == Inv /\ [Next]_vars => Inv'
<1>. SUFFICES ASSUME Inv, [Next]_vars
              PROVE  Inv'
  OBVIOUS
<1>1. CASE Tick
  BY <1>1, CircuitStep DEF Tick, processVars, Inv, TypeOK, ProgramWhileWaiting
<1>2. CASE UNCHANGED vars
  BY <1>2, CircuitStep DEF vars, processVars, Inv, TypeOK, ProgramWhileWaiting
<1>. QED BY <1>1, <1>2, CallerStep DEF Next

LEMMA Invariance == Spec => []Inv
  BY InitInv, NextInv, PTL DEF Spec

-----------------------------------------------------------------------------
\* Type correctness of the circuit and its callers.
THEOREM TypeCorrect == Spec => []TypeOK
<1>1. Inv => TypeOK
  BY DEF Inv
<1>. QED BY <1>1, Invariance, PTL

\* permit, success and failure, called in any order by any number of threads,
\* keep the circuit open exactly from the threshold on.
THEOREM CircuitOpensAtThreshold == Spec => []OpenAtThreshold
<1>1. Inv => OpenAtThreshold
  BY DEF Inv
<1>. QED BY <1>1, Invariance, PTL

\* run_process: no way of returning leaves the provider's program running.
THEOREM ProgramsAreReaped == Spec => []NoProgramLeftRunning
<1>1. Inv => NoProgramLeftRunning
  BY DEF Inv, ProgramWhileWaiting, NoProgramLeftRunning
<1>. QED BY <1>1, Invariance, PTL

-----------------------------------------------------------------------------
(* A session over MCP.                                                      *)


Kinds == Requests \cup {"none", "good", "bad", "notification", "garbage", "ok", "timeout",
                        "failed", "refused"}

\* Requests, answers and results whose id is the number of their request.
Message == {m \in [id : Nat, number : Nat, kind : Kinds] : m.id = m.number}

SessionTypeOK ==
    /\ asked \in Message
    /\ nextId = asked.number + 1
    /\ outbox \in Seq(Message)
    /\ known \subseteq Message
    /\ lines \in Seq(Message)
    /\ responses \in Seq(Message)
    /\ result \in Message

\* A request that is under way has no result yet.
WaitingInv ==
    /\ loop # "none" => stage \in Requests
    /\ stage \in Requests \cup {"connect"} => result = Nothing

SessionInv == SessionTypeOK /\ WaitingInv /\ AnswerIsOwn

LEMMA NothingIsMessage ==
  /\ Nothing \in Message
  /\ \A kind \in Kinds : [Nothing EXCEPT !.kind = kind] \in Message
BY DEF Nothing, Message, Kinds, Requests

LEMMA KindChanges ==
  \A m \in Message, kind \in Kinds : [m EXCEPT !.kind = kind] \in Message
BY DEF Message

LEMMA InitialInvariant == SessionInit => SessionInv
<1> SUFFICES ASSUME SessionInit PROVE SessionInv
  OBVIOUS
<1>1. SessionTypeOK
  BY NothingIsMessage DEF SessionInit, SessionTypeOK, Nothing
<1>2. AnswerIsOwn /\ WaitingInv
  BY DEF SessionInit, AnswerIsOwn, WaitingInv, Requests
<1> QED BY <1>1, <1>2 DEF SessionInv

\* A request that is sent keeps ids and numbers together.
LEMMA SendKeepsTypes ==
  ASSUME SessionTypeOK, NEW kind \in Requests, Send(kind)
  PROVE  /\ asked' \in Message /\ nextId' = asked'.number + 1
         /\ outbox' \in Seq(Message)
         /\ stage' = kind
<1>1. asked' \in Message /\ nextId' = asked'.number + 1
  BY DEF Send, FollowingId, SessionTypeOK, Message, Kinds
<1>2. outbox' \in Seq(Message)
  BY <1>1 DEF Send, SessionTypeOK
<1> QED BY <1>1, <1>2 DEF Send

\* A failure is not a result.
LEMMA FailKeepsTypes ==
  ASSUME NEW kind \in {"timeout", "failed"}, Fail(kind)
  PROVE  /\ result' \in Message /\ result'.kind # "ok"
         /\ stage' \in {"held", "drop"} /\ loop' = "none"
BY NothingIsMessage DEF Fail, Nothing, Kinds
-----------------------------------------------------------------------------

\* The head of the loop, with or without a message.
LEMMA RequestStepsKeepInvariant ==
  ASSUME SessionInv, Check \/ ReceiveNothing \/ Receive
  PROVE  SessionInv'
<1> USE DEF SessionInv
<1>1. CASE Check \/ ReceiveNothing
  <2>1. UNCHANGED <<required, nextId, asked, outbox, known, lines, responses, attribution>>
    BY <1>1 DEF Check, ReceiveNothing, threads
  <2>2. \/ result' \in Message /\ result'.kind # "ok" /\ stage' \in {"held", "drop"}
           /\ loop' = "none"
        \/ result' = result /\ stage' = stage /\ stage \in Requests
    BY <1>1, FailKeepsTypes DEF Check, ReceiveNothing, WaitingInv
  <2>3. SessionTypeOK'
    BY <2>1, <2>2 DEF SessionTypeOK
  <2>4. AnswerIsOwn' /\ WaitingInv'
    BY <2>1, <2>2 DEF AnswerIsOwn, WaitingInv, Requests
  <2> QED BY <2>3, <2>4
<1>2. CASE Receive
  <2> DEFINE message == Head(responses)
  <2>1. /\ responses # <<>> /\ loop = "receive" /\ responses' = Tail(responses)
        /\ UNCHANGED <<required, known, lines, attribution>>
    BY <1>2 DEF Receive
  <2>2. message \in Message /\ responses' \in Seq(Message)
    BY <2>1 DEF SessionTypeOK
  <2>3. stage \in Requests /\ result = Nothing
    BY <2>1 DEF WaitingInv
  <2>4. CASE message.kind = "garbage" \/ message.id # asked.id
    <3>1. /\ UNCHANGED <<nextId, asked, outbox>>
          /\ \/ result' \in Message /\ result'.kind # "ok" /\ stage' \in {"held", "drop"}
                /\ loop' = "none"
             \/ result' = result /\ stage' = stage
      BY <1>2, <2>4, FailKeepsTypes DEF Receive, Malformed
    <3>2. SessionTypeOK'
      BY <2>1, <2>2, <3>1 DEF SessionTypeOK
    <3>3. AnswerIsOwn' /\ WaitingInv'
      BY <2>1, <3>1 DEF AnswerIsOwn, WaitingInv, Requests
    <3> QED BY <3>2, <3>3
  <2>5. CASE message.kind # "garbage" /\ message.id = asked.id
    <3>1. FollowUp(message)
      BY <1>2, <2>5 DEF Receive, Malformed
    <3>2. CASE Send("tools/list") /\ UNCHANGED result
      <4>1. SessionTypeOK'
        BY <2>1, <2>2, <3>2, SendKeepsTypes DEF SessionTypeOK, Requests
      <4>2. AnswerIsOwn' /\ WaitingInv'
        BY <2>1, <2>3, <3>2 DEF AnswerIsOwn, WaitingInv, Send, Requests
      <4> QED BY <4>1, <4>2
    <3>3. CASE UNCHANGED <<nextId, asked, outbox>> /\ stage' \in {"held", "drop"} /\ loop' = "none"
               /\ result' \in Message
               /\ (result'.kind # "ok" \/ result'.number = asked.number)
      <4>1. SessionTypeOK'
        BY <2>1, <2>2, <3>3 DEF SessionTypeOK
      <4>2. AnswerIsOwn' /\ WaitingInv'
        BY <2>1, <3>3 DEF AnswerIsOwn, WaitingInv, Requests
      <4> QED BY <4>1, <4>2
    <3>4. CASE stage = "initialize"
      BY <3>1, <3>2, <3>3, <3>4, FailKeepsTypes DEF FollowUp, Send
    <3>5. CASE stage = "tools/list" /\ message.kind = "bad"
      BY <3>1, <3>3, <3>5, FailKeepsTypes DEF FollowUp
    <3>6. CASE stage = "tools/list" /\ message.kind # "bad"
      <4>1. UNCHANGED <<nextId, asked, outbox, result>> /\ stage' = "held" /\ loop' = "none"
        BY <3>1, <3>6 DEF FollowUp
      <4>2. result'.kind # "ok" /\ result' \in Message
        BY <2>3, <4>1, NothingIsMessage DEF Nothing
      <4> QED BY <3>3, <4>1, <4>2
    <3>7. CASE stage = "tools/call" /\ message.kind = "bad"
      BY <3>1, <3>3, <3>7, FailKeepsTypes DEF FollowUp
    <3>8. CASE stage = "tools/call" /\ message.kind # "bad"
      <4>1. /\ result' = [message EXCEPT !.kind = "ok"]
            /\ stage' = "held" /\ loop' = "none"
            /\ UNCHANGED <<nextId, asked, outbox>>
        BY <3>1, <3>8 DEF FollowUp
      <4>2. result'.number = asked.number
        BY <2>2, <2>5, <4>1 DEF SessionTypeOK, Message
      <4>3. result' \in Message
        BY <2>2, <4>1, KindChanges DEF Kinds
      <4> QED BY <3>3, <4>1, <4>2, <4>3
    <3> QED BY <2>3, <3>4, <3>5, <3>6, <3>7, <3>8 DEF Requests
  <2> QED BY <2>4, <2>5
<1> QED BY <1>1, <1>2

\* The call around the requests.
LEMMA CallStepsKeepInvariant ==
  ASSUME SessionInv,
         RefusedCall \/ PermittedCall \/ Connect \/ CallTool \/ Drop \/ ReportCall
  PROVE  SessionInv'
<1> USE DEF SessionInv
<1>1. CASE RefusedCall
  <2>1. /\ UNCHANGED <<required, stage, loop, nextId, asked, outbox, known, lines, responses>>
        /\ stage = "idle" /\ result' \in Message /\ result'.kind # "ok"
        /\ attribution' = IF required THEN "error" ELSE "built-in"
    BY <1>1, NothingIsMessage DEF RefusedCall, Resolved, threads, Kinds, Nothing
  <2> QED BY <2>1 DEF SessionTypeOK, WaitingInv, AnswerIsOwn, Requests
<1>2. CASE PermittedCall
  <2>1. /\ UNCHANGED <<required, loop, nextId, asked, outbox, known, lines, responses>>
        /\ stage = "idle" /\ stage' = "connect" /\ result' = Nothing /\ attribution' = "none"
    BY <1>2 DEF PermittedCall, threads
  <2> QED BY <2>1, NothingIsMessage DEF SessionTypeOK, WaitingInv, AnswerIsOwn, Requests
<1>3. CASE Connect
  <2>1. UNCHANGED <<required, known, lines, responses, attribution>> /\ stage = "connect"
    BY <1>3 DEF Connect, threads
  <2>2. CASE Fail("failed") /\ UNCHANGED <<nextId, asked, outbox>>
    BY <2>1, <2>2, FailKeepsTypes DEF SessionTypeOK, WaitingInv, AnswerIsOwn, Requests
  <2>3. CASE Send("initialize") /\ result' = result
    <3>1. result = Nothing
      BY <2>1 DEF WaitingInv
    <3> QED BY <2>1, <2>3, <3>1, SendKeepsTypes
            DEF SessionTypeOK, WaitingInv, AnswerIsOwn, Requests
  <2> QED BY <1>3, <2>2, <2>3 DEF Connect, threads
<1>4. CASE CallTool
  <2>1. UNCHANGED <<required, known, lines, responses, attribution>> /\ stage = "held"
    BY <1>4 DEF CallTool
  <2>2. CASE Fail("failed") /\ UNCHANGED <<nextId, asked, outbox>>
    BY <2>1, <2>2, FailKeepsTypes DEF SessionTypeOK, WaitingInv, AnswerIsOwn, Requests
  <2>3. CASE Send("tools/call") /\ result' = Nothing
    BY <2>1, <2>3, SendKeepsTypes, NothingIsMessage
       DEF SessionTypeOK, WaitingInv, AnswerIsOwn, Requests
  <2> QED BY <1>4, <2>2, <2>3 DEF CallTool
<1>5. CASE Drop
  <2>1. /\ UNCHANGED <<required, loop, result, attribution>>
        /\ stage \in {"drop", "held"} /\ stage' = "report"
        /\ nextId' = 1 /\ asked' = Nothing
        /\ outbox' = <<>> /\ known' = {} /\ lines' = <<>> /\ responses' = <<>>
    BY <1>5 DEF Drop
  <2>2. SessionTypeOK'
    BY <2>1, NothingIsMessage DEF SessionTypeOK, Nothing
  <2> QED BY <2>1, <2>2 DEF WaitingInv, AnswerIsOwn, Requests
<1>6. CASE ReportCall
  <2>1. /\ UNCHANGED <<required, loop, nextId, asked, outbox, known, lines, responses, result>>
        /\ stage = "report" /\ stage' = "idle"
        /\ attribution' = IF result.kind = "ok" THEN "provider"
                          ELSE IF required THEN "error" ELSE "built-in"
    BY <1>6 DEF ReportCall, Resolved, threads
  <2> QED BY <2>1 DEF SessionTypeOK, WaitingInv, AnswerIsOwn, Requests
<1> QED BY <1>1, <1>2, <1>3, <1>4, <1>5, <1>6

\* The threads pass on, and the server invents, nothing but messages.
LEMMA ThreadsKeepInvariant ==
  ASSUME SessionInv, Deliver \/ WriterEnds \/ ServerWrites \/ ServerExits \/ ReadLine
  PROVE  SessionInv'
<1>1. UNCHANGED <<required, stage, loop, nextId, asked, result, attribution>>
  <2>1. CASE Deliver BY <2>1 DEF Deliver
  <2>2. CASE WriterEnds BY <2>2 DEF WriterEnds
  <2>3. CASE ServerWrites BY <2>3 DEF ServerWrites
  <2>4. CASE ServerExits BY <2>4 DEF ServerExits
  <2>5. CASE ReadLine BY <2>5 DEF ReadLine
  <2> QED BY <2>1, <2>2, <2>3, <2>4, <2>5
<1>2. /\ outbox' \in Seq(Message) /\ known' \subseteq Message
      /\ lines' \in Seq(Message) /\ responses' \in Seq(Message)
  <2> USE DEF SessionInv, SessionTypeOK
  <2>1. CASE Deliver
    <3>1. /\ outbox # <<>> /\ known' = known \cup {Head(outbox)} /\ outbox' = Tail(outbox)
          /\ lines' = lines /\ responses' = responses
      BY <2>1 DEF Deliver
    <3>2. Head(outbox) \in Message /\ Tail(outbox) \in Seq(Message)
      BY <3>1
    <3> QED BY <3>1, <3>2
  <2>2. CASE WriterEnds \/ ServerExits
    <3>1. /\ outbox' = outbox \/ outbox' = <<>>
          /\ known' = known /\ lines' = lines /\ responses' = responses
      BY <2>2 DEF WriterEnds, ServerExits
    <3>2. <<>> \in Seq(Message)
      OBVIOUS
    <3> QED BY <3>1, <3>2
  <2>3. CASE ServerWrites
    <3>1. PICK line \in {[r EXCEPT !.kind = k] : r \in known, k \in {"good", "bad"}}
                   \cup {[Nothing EXCEPT !.kind = k] : k \in {"notification", "garbage"}} :
             lines' = Append(lines, line)
      BY <2>3 DEF ServerWrites
    <3>2. line \in Message
      <4>1. CASE line \in {[r EXCEPT !.kind = k] : r \in known, k \in {"good", "bad"}}
        <5>1. PICK r \in known, k \in {"good", "bad"} : line = [r EXCEPT !.kind = k]
          BY <4>1
        <5>2. r \in Message /\ k \in Kinds
          BY DEF Kinds
        <5> QED BY <5>1, <5>2, KindChanges
      <4>2. CASE line \in {[Nothing EXCEPT !.kind = k] : k \in {"notification", "garbage"}}
        <5>1. PICK k \in {"notification", "garbage"} : line = [Nothing EXCEPT !.kind = k]
          BY <4>2
        <5>2. k \in Kinds
          BY DEF Kinds
        <5> QED BY <5>1, <5>2, NothingIsMessage
      <4> QED BY <4>1, <4>2
    <3>3. UNCHANGED <<outbox, known, responses>>
      BY <2>3 DEF ServerWrites
    <3> QED BY <3>1, <3>2, <3>3
  <2>4. CASE ReadLine
    <3>1. /\ outbox' = outbox /\ known' = known
          /\ \/ /\ lines # <<>> /\ lines' = Tail(lines)
                /\ responses' = Append(responses, Head(lines))
             \/ lines' = lines /\ responses' = responses
      BY <2>4 DEF ReadLine
    <3>2. CASE lines # <<>> /\ lines' = Tail(lines) /\ responses' = Append(responses, Head(lines))
      <4>1. Head(lines) \in Message /\ Tail(lines) \in Seq(Message)
        BY <3>2
      <4>2. responses' \in Seq(Message)
        BY <3>2, <4>1
      <4> QED BY <3>1, <3>2, <4>1, <4>2
    <3>3. CASE lines' = lines /\ responses' = responses
      BY <3>1, <3>3
    <3> QED BY <3>1, <3>2, <3>3
  <2> QED BY <2>1, <2>2, <2>3, <2>4
<1> QED BY <1>1, <1>2 DEF SessionInv, SessionTypeOK, WaitingInv, AnswerIsOwn

LEMMA StepKeepsInvariant ==
  SessionInv /\ [SessionNext]_<<circuitVars, sessionVars>> => SessionInv'
<1> SUFFICES ASSUME SessionInv, [SessionNext]_<<circuitVars, sessionVars>>
             PROVE  SessionInv'
  OBVIOUS
<1>1. CASE RefusedCall \/ SessionCaller
  BY <1>1, RequestStepsKeepInvariant, CallStepsKeepInvariant DEF SessionCaller
<1>2. CASE Deliver \/ WriterEnds \/ ServerWrites \/ ServerExits \/ ReadLine
  BY <1>2, ThreadsKeepInvariant
<1>3. CASE Expired \/ Pass \/ UNCHANGED <<circuitVars, sessionVars>>
  <2>1. UNCHANGED <<required, stage, loop, nextId, asked, outbox, known, lines, responses,
                    result, attribution>>
    BY <1>3 DEF Expired, Pass, sessionVars, threads
  <2> QED BY <2>1 DEF SessionInv, SessionTypeOK, WaitingInv, AnswerIsOwn
<1> QED BY <1>1, <1>2, <1>3 DEF SessionNext

\* A result is the server's answer to this very call, though answers to calls
\* that were given up may still arrive, and an outcome is attributed to the
\* provider only if there is one (McpSession::request, resolve_with_fallback).
THEOREM AnswersAreOwn == SessionSpec => []AnswerIsOwn
<1>1. SessionInit /\ [][SessionNext]_<<circuitVars, sessionVars>> => []SessionInv
  BY InitialInvariant, StepKeepsInvariant, PTL
<1>2. SessionInv => AnswerIsOwn
  BY DEF SessionInv
<1> QED BY <1>1, <1>2, PTL DEF SessionSpec

-----------------------------------------------------------------------------
(* What an external memory has answered.                                    *)

\* Induction over a set of numbers.
LEMMA Inductive ==
  ASSUME NEW T, 0 \in T, \A n \in Nat : n \in T => n + 1 \in T
  PROVE  Nat \subseteq T
<1> DEFINE R == OpToRel(<, Nat)
           F == Nat \ T
<1> SUFFICES ASSUME F # {} PROVE FALSE
  OBVIOUS
<1>1. PICK m \in F : \A k \in F : ~(<<k, m>> \in R)
  <2>1. IsWellFoundedOn(R, Nat)
    BY NatLessThanWellFounded
  <2>2. F \subseteq Nat
    OBVIOUS
  <2> HIDE DEF R, F
  <2> QED BY <2>1, <2>2, WFMin
<1>2. m \in Nat /\ m # 0 /\ m - 1 \in Nat /\ m - 1 < m
  OBVIOUS
<1>3. <<m - 1, m>> \in R
  BY <1>2 DEF OpToRel
<1>4. m - 1 \in T
  BY <1>1, <1>2, <1>3
<1>5. (m - 1) + 1 = m
  BY <1>2
<1> QED BY <1>2, <1>4, <1>5

ListsOf(a) == [k \in DOMAIN a |-> ItemsOf(a[k])]

\* f[k] joins the first k lists.
Joins(f, lists, n) ==
    /\ f \in [0 .. n -> Seq(Items)] /\ f[0] = <<>>
    /\ \A k \in 1 .. n : f[k] = f[k - 1] \o lists[k]

Joined(lists) == CHOOSE f : Joins(f, lists, Len(lists))

LEMMA JoinExists ==
  ASSUME NEW lists \in Seq(Seq(Items))
  PROVE  Joins(Joined(lists), lists, Len(lists))
<1> DEFINE N == Len(lists)
           T == {n \in Nat : n <= N => \E f : Joins(f, lists, n)}
<1>0. N \in Nat /\ \A k \in 1 .. N : lists[k] \in Seq(Items)
  OBVIOUS
<1> HIDE DEF N
<1>1. 0 \in T
  <2> DEFINE f == [k \in 0 .. 0 |-> <<>>]
  <2>1. f \in [0 .. 0 -> Seq(Items)] /\ f[0] = <<>> /\ 1 .. 0 = {}
    OBVIOUS
  <2> QED BY <2>1 DEF Joins
<1>2. ASSUME NEW n \in Nat, n \in T PROVE n + 1 \in T
  <2> SUFFICES ASSUME n + 1 <= N PROVE \E f : Joins(f, lists, n + 1)
    OBVIOUS
  <2>1. PICK f : Joins(f, lists, n)
    BY <1>0, <1>2
  <2> DEFINE v == f[n] \o lists[n + 1]
             g == [k \in 0 .. n + 1 |-> IF k = n + 1 THEN v ELSE f[k]]
  <2>2. v \in Seq(Items)
    <3>1. f[n] \in Seq(Items) /\ lists[n + 1] \in Seq(Items)
      BY <1>0, <2>1 DEF Joins
    <3> QED BY <3>1
  <2>3. \A k \in 0 .. n + 1 : k # n + 1 => k \in 0 .. n /\ f[k] \in Seq(Items)
    BY <2>1 DEF Joins
  <2> HIDE DEF v
  <2>4. g \in [0 .. n + 1 -> Seq(Items)]
    BY <2>2, <2>3
  <2>5. /\ g[n + 1] = v /\ \A k \in 0 .. n : g[k] = f[k]
        /\ \A k \in 1 .. n + 1 : k - 1 \in 0 .. n /\ (k = n + 1 => k - 1 = n)
    OBVIOUS
  <2> HIDE DEF g
  <2>6. ASSUME NEW k \in 1 .. n + 1 PROVE g[k] = g[k - 1] \o lists[k]
    <3>1. CASE k = n + 1
      BY <2>5, <3>1 DEF v
    <3>2. CASE k # n + 1
      <4>1. k \in 1 .. n /\ k \in 0 .. n
        BY <3>2
      <4> QED BY <2>1, <2>5, <4>1 DEF Joins
    <3> QED BY <3>1, <3>2
  <2>7. g[0] = <<>>
    BY <2>1, <2>5 DEF Joins
  <2> QED BY <2>4, <2>6, <2>7 DEF Joins
<1> HIDE DEF T
<1>3. N \in T
  BY <1>0, <1>1, <1>2, Inductive
<1>4. \E f : Joins(f, lists, N)
  BY <1>0, <1>3 DEF T
<1> QED BY <1>4 DEF Joined, N

\* The last of them is what FlattenSeq makes.
LEMMA JoinIsFlat ==
  ASSUME NEW lists \in Seq(Seq(Items))
  PROVE  FlattenSeq(lists) = Joined(lists)[Len(lists)]
<1> DEFINE N == Len(lists)
           f == Joined(lists)
           G(g) == [i \in 1 .. N |-> IF i = 1 THEN lists[i] ELSE g[i - 1] \o lists[i]]
           g == CHOOSE g : g = G(g)
<1>1. N \in Nat /\ Joins(f, lists, N) /\ \A k \in 1 .. N : lists[k] \in Seq(Items)
  BY JoinExists
<1>2. FlattenSeq(lists) = IF N = 0 THEN lists ELSE g[N]
  BY DEF FlattenSeq
<1> HIDE DEF f, N
<1>3. CASE N = 0
  <2>1. lists = <<>>
    BY <1>3 DEF N
  <2> QED BY <1>1, <1>2, <1>3, <2>1 DEF Joins, f, N
<1>4. CASE N # 0
  <2>1. \A i \in 1 .. N : f[i] = IF i = 1 THEN lists[i] ELSE f[i - 1] \o lists[i]
    <3> SUFFICES ASSUME NEW i \in 1 .. N
                 PROVE  f[i] = IF i = 1 THEN lists[i] ELSE f[i - 1] \o lists[i]
      OBVIOUS
    <3>1. f[i] = f[i - 1] \o lists[i] /\ lists[i] \in Seq(Items) /\ f[0] = <<>>
      BY <1>1 DEF Joins
    <3>2. <<>> \o lists[i] = lists[i]
      BY <3>1
    <3>3. i = 1 => f[i - 1] = <<>>
      BY <3>1
    <3>4. i = 1 => f[i] = lists[i]
      BY <3>1, <3>2, <3>3
    <3> QED BY <3>1, <3>4
  <2> DEFINE h == [i \in 1 .. N |-> f[i]]
  <2>2. h = G(h)
    <3>1. \A i \in 1 .. N : h[i] = f[i] /\ (i # 1 => i - 1 \in 1 .. N /\ h[i - 1] = f[i - 1])
      BY <1>1
    <3>2. \A i \in 1 .. N : h[i] = IF i = 1 THEN lists[i] ELSE h[i - 1] \o lists[i]
      BY <2>1, <3>1
    <3>3. h = [i \in 1 .. N |-> h[i]]
      OBVIOUS
    <3> HIDE DEF h
    <3> QED BY <3>2, <3>3
  <2> HIDE DEF h
  <2>3. g = G(g)
    BY <2>2
  <2> HIDE DEF g
  <2>4. \A i \in 1 .. N : g[i] = IF i = 1 THEN lists[i] ELSE g[i - 1] \o lists[i]
    <3>1. \A i \in 1 .. N : G(g)[i] = IF i = 1 THEN lists[i] ELSE g[i - 1] \o lists[i]
      OBVIOUS
    <3> QED BY <2>3, <3>1
  <2> DEFINE T == {n \in Nat : n \in 1 .. N => g[n] = f[n]}
  <2>5. 0 \in T
    OBVIOUS
  <2>6. ASSUME NEW n \in Nat, n \in T PROVE n + 1 \in T
    <3> SUFFICES ASSUME n + 1 \in 1 .. N PROVE g[n + 1] = f[n + 1]
      OBVIOUS
    <3>1. (n + 1) - 1 = n /\ (n + 1 # 1 => n \in 1 .. N)
      BY <1>1
    <3> QED BY <2>1, <2>4, <2>6, <3>1
  <2> HIDE DEF T
  <2>7. N \in T
    BY <1>1, <2>5, <2>6, Inductive
  <2>8. g[N] = f[N]
    BY <1>1, <1>4, <2>7 DEF T
  <2> QED BY <1>2, <1>4, <2>8 DEF f, N
<1> QED BY <1>3, <1>4

\* What joins some of the lists begins what joins all of them.
Begins(c, d) == Len(c) <= Len(d) /\ \A i \in 1 .. Len(c) : c[i] = d[i]

LEMMA JoinsBegin ==
  ASSUME NEW lists \in Seq(Seq(Items)), NEW k \in 0 .. Len(lists)
  PROVE  Begins(Joined(lists)[k], Joined(lists)[Len(lists)])
<1> DEFINE N == Len(lists)
           f == Joined(lists)
           T == {n \in Nat : n \in k .. N => Begins(f[k], f[n])}
<1>1. N \in Nat /\ Joins(f, lists, N) /\ \A i \in 1 .. N : lists[i] \in Seq(Items)
  BY JoinExists
<1>2. k \in 0 .. N
  OBVIOUS
<1> HIDE DEF f, N
<1>3. \A n \in 0 .. N : f[n] \in Seq(Items)
  BY <1>1 DEF Joins
<1>4. Begins(f[k], f[k])
  <2>1. Len(f[k]) \in Nat
    BY <1>2, <1>3
  <2> QED BY <2>1 DEF Begins
<1>5. 0 \in T
  <2>1. 0 \in k .. N => k = 0
    BY <1>2
  <2> QED BY <1>4, <2>1
<1>6. ASSUME NEW n \in Nat, n \in T PROVE n + 1 \in T
  <2> SUFFICES ASSUME n + 1 \in k .. N PROVE Begins(f[k], f[n + 1])
    OBVIOUS
  <2>1. CASE n + 1 = k
    BY <1>4, <2>1
  <2>2. CASE n + 1 # k
    <3>1. n \in k .. N /\ n \in 0 .. N /\ n + 1 \in 1 .. N /\ (n + 1) - 1 = n
      BY <1>1, <1>2, <2>2
    <3> DEFINE c == f[k]
               d == f[n]
               l == lists[n + 1]
    <3>2. Begins(c, d) /\ f[n + 1] = d \o l
      BY <1>1, <1>6, <3>1 DEF Joins
    <3>3. c \in Seq(Items) /\ d \in Seq(Items) /\ l \in Seq(Items)
      BY <1>1, <1>2, <1>3, <3>1
    <3> HIDE DEF c, d, l
    <3>4. /\ Len(d \o l) = Len(d) + Len(l) /\ Len(c) \in Nat /\ Len(d) \in Nat /\ Len(l) \in Nat
          /\ \A i \in 1 .. Len(d) : (d \o l)[i] = d[i]
      BY <3>3
    <3>5. Begins(c, d \o l)
      BY <3>2, <3>4 DEF Begins
    <3> QED BY <3>2, <3>5 DEF c
  <2> QED BY <2>1, <2>2
<1> HIDE DEF T
<1>7. N \in T
  BY <1>1, <1>5, <1>6, Inductive
<1>8. N \in k .. N
  BY <1>1, <1>2
<1> QED BY <1>7, <1>8 DEF T, f, N

\* Every part is read as a sequence of items.
LEMMA PartsHaveItems ==
  ASSUME NEW p \in Parts
  PROVE  ItemsOf(p) \in Seq(Items)
<1>1. IsPart(p)
  BY ExternalMemoryAssumption DEF ExternalMemoryAssumption
<1>2. CASE p.kind = "silent"
  BY <1>2 DEF ItemsOf
<1>3. CASE p.kind = "plain"
  <2>1. ItemsOf(p) = <<[content |-> p.text, text |-> "absent", id |-> "absent"]>>
    BY <1>3 DEF ItemsOf
  <2>2. [content |-> p.text, text |-> "absent", id |-> "absent"] \in Items
    BY <1>1, <1>3 DEF IsPart, Items, Fields
  <2> QED BY <2>1, <2>2
<1>4. CASE p.kind = "array"
  BY <1>1, <1>4 DEF ItemsOf, IsPart
<1>5. CASE p.kind = "object"
  <2> DEFINE listed == {k \in DOMAIN Lists : Lists[k] \in DOMAIN p.lists}
  <2>1. ItemsOf(p) = IF listed = {} THEN <<p.self>> ELSE p.lists[Lists[Min(listed)]]
    BY <1>5 DEF ItemsOf
  <2>2. p.self \in Items /\ \A field \in DOMAIN p.lists : p.lists[field] \in Seq(Items)
    BY <1>1, <1>5 DEF IsPart
  <2>3. CASE listed = {}
    BY <2>1, <2>2, <2>3
  <2>4. CASE listed # {}
    <3>1. DOMAIN Lists = 1 .. 3
      BY DEF Lists
    <3>2. \E k \in listed : \A j \in listed : k <= j
      BY <2>4, <3>1
    <3>3. Min(listed) \in listed
      BY <3>2 DEF Min
    <3> QED BY <2>1, <2>2, <2>4, <3>3
  <2> QED BY <2>3, <2>4
<1> QED BY <1>1, <1>2, <1>3, <1>4, <1>5 DEF IsPart

LEMMA AnswerLists ==
  ASSUME NEW a \in Answers
  PROVE  /\ a \in Seq(Parts) /\ Len(a) \in Nat
         /\ ListsOf(a) \in Seq(Seq(Items)) /\ Len(ListsOf(a)) = Len(a)
         /\ \A k \in 1 .. Len(a) : ListsOf(a)[k] = ItemsOf(a[k])
<1>1. a \in Seq(Parts)
  BY ExternalMemoryAssumption DEF ExternalMemoryAssumption
<1>2. Len(a) \in Nat /\ DOMAIN a = 1 .. Len(a) /\ \A k \in 1 .. Len(a) : ItemsOf(a[k]) \in Seq(Items)
  BY <1>1, PartsHaveItems
<1> DEFINE n == Len(a)
<1>3. ListsOf(a) \in [1 .. n -> Seq(Items)] /\ \A k \in 1 .. n : ListsOf(a)[k] = ItemsOf(a[k])
  BY <1>2 DEF ListsOf
<1> HIDE DEF n
<1>4. n \in Nat
  BY <1>2 DEF n
<1>5. ListsOf(a) \in Seq(Seq(Items)) /\ Len(ListsOf(a)) = n
  BY <1>3, <1>4
<1> QED BY <1>1, <1>2, <1>3, <1>5 DEF n

MemoryRecords == {Record(i) : i \in Items}

\* Of the items of c, n have been read: the first ones are recs, and the rest
\* is pend.
ReadSoFar(c, recs, pend, n) ==
    /\ c \in Seq(Items) /\ pend \in Seq(Items) /\ recs \in Seq(MemoryRecords)
    /\ n \in 0 .. Len(c) /\ Len(recs) <= n
    /\ \A k \in 1 .. Len(recs) : Readable(c[k]) /\ recs[k] = Record(c[k])
    /\ Len(pend) = Len(c) - n
    /\ \A k \in 1 .. Len(pend) : pend[k] = c[n + k]

\* What has been read of the lists in the parts so far, in a search that has
\* something to read.
SearchInv(a, k, recs, pend, limit, state) ==
    LET c == Joined(ListsOf(a))[k]
        n == Len(recs)
    IN  /\ k \in 0 .. Len(a) /\ n <= limit
        /\ state # "malformed" => ReadSoFar(c, recs, pend, n)
        /\ state = "malformed" =>
              ReadSoFar(c, recs, pend, n + 1) /\ n < limit /\ ~Readable(c[n + 1])
        /\ state = "reading" => n < limit
        /\ state = "records" => n = limit \/ (k = Len(a) /\ pend = <<>>)

ExternalInv ==
    /\ wanted \in Nat /\ verdict \in {"none", "reading", "records", "malformed"}
    /\ verdict = "none" => part = 0 /\ pending = <<>> /\ records = <<>>
    /\ verdict \notin {"none", "malformed"} => Askable /\ answer \in Answers
    /\ verdict = "malformed" => ~Askable \/ answer \in Answers \cup {NoContent}
    /\ verdict # "none" /\ Askable /\ answer \in Answers =>
          SearchInv(answer, part, records, pending, wanted, verdict)

LEMMA ItemReads ==
  ASSUME NEW c, NEW recs, NEW pend, ReadSoFar(c, recs, pend, Len(recs)), pend # <<>>
  PROVE  /\ Head(pend) = c[Len(recs) + 1]
         /\ Readable(Head(pend)) =>
               ReadSoFar(c, Append(recs, Record(Head(pend))), Tail(pend), Len(recs) + 1)
         /\ ReadSoFar(c, recs, Tail(pend), Len(recs) + 1)
         /\ Len(Append(recs, Record(Head(pend)))) = Len(recs) + 1
<1> DEFINE n == Len(recs)
           h == Head(pend)
           t == Tail(pend)
           r == Append(recs, Record(h))
<1>1. /\ c \in Seq(Items) /\ pend \in Seq(Items) /\ recs \in Seq(MemoryRecords)
      /\ n \in 0 .. Len(c)
      /\ \A k \in 1 .. n : Readable(c[k]) /\ recs[k] = Record(c[k])
      /\ Len(pend) = Len(c) - n /\ Len(c) \in Nat
      /\ \A k \in 1 .. Len(pend) : pend[k] = c[n + k]
  BY DEF ReadSoFar
<1>2. /\ Len(pend) \in Nat /\ Len(pend) >= 1 /\ h = pend[1] /\ h \in Items
      /\ t \in Seq(Items) /\ Len(t) = Len(pend) - 1 /\ \A k \in 1 .. Len(t) : t[k] = pend[k + 1]
  BY <1>1
<1>3. Record(h) \in MemoryRecords
  BY <1>2 DEF MemoryRecords
<1>4. /\ r \in Seq(MemoryRecords) /\ Len(r) = n + 1 /\ r[n + 1] = Record(h)
      /\ \A k \in 1 .. n : r[k] = recs[k]
  <2> HIDE DEF h
  <2> QED BY <1>1, <1>3
<1> HIDE DEF n, h, t, r
<1>5. n \in Nat /\ n + 1 \in 0 .. Len(c) /\ Len(t) = Len(c) - (n + 1)
  BY <1>1, <1>2
<1>6. h = c[n + 1]
  BY <1>1, <1>2
<1>7. \A k \in 1 .. Len(t) : t[k] = c[(n + 1) + k]
  <2> SUFFICES ASSUME NEW k \in 1 .. Len(t) PROVE t[k] = c[(n + 1) + k]
    OBVIOUS
  <2>1. k + 1 \in 1 .. Len(pend) /\ n + (k + 1) = (n + 1) + k
    BY <1>2, <1>5
  <2> QED BY <1>1, <1>2, <2>1
<1>8. ReadSoFar(c, recs, t, n + 1)
  <2>1. Len(recs) = n /\ n <= n + 1
    BY <1>5 DEF n
  <2> QED BY <1>1, <1>2, <1>5, <1>7, <2>1 DEF ReadSoFar
<1>9. ASSUME Readable(h) PROVE ReadSoFar(c, r, t, n + 1)
  <2>1. \A k \in 1 .. n + 1 : Readable(c[k]) /\ r[k] = Record(c[k])
    <3>1. \A k \in 1 .. n + 1 : k = n + 1 \/ k \in 1 .. n
      BY <1>5
    <3> QED BY <1>1, <1>4, <1>6, <1>9, <3>1
  <2>2. Len(r) <= n + 1
    BY <1>4, <1>5
  <2> QED BY <1>1, <1>2, <1>4, <1>5, <1>7, <2>1, <2>2 DEF ReadSoFar
<1> QED BY <1>4, <1>6, <1>8, <1>9 DEF n, h, t, r

LEMMA PartReads ==
  ASSUME NEW c, NEW recs, ReadSoFar(c, recs, <<>>, Len(recs)), NEW l \in Seq(Items)
  PROVE  ReadSoFar(c \o l, recs, l, Len(recs))
<1> DEFINE d == c \o l
<1>1. /\ c \in Seq(Items) /\ recs \in Seq(MemoryRecords) /\ Len(c) \in Nat /\ Len(l) \in Nat
      /\ Len(recs) = Len(c)
      /\ \A k \in 1 .. Len(recs) : Readable(c[k]) /\ recs[k] = Record(c[k])
  BY DEF ReadSoFar
<1>2. /\ d \in Seq(Items) /\ Len(d) = Len(c) + Len(l)
      /\ \A k \in 1 .. Len(c) : d[k] = c[k]
      /\ \A k \in 1 .. Len(l) : d[Len(c) + k] = l[k]
  BY <1>1
<1> HIDE DEF d
<1>3. ReadSoFar(d, recs, l, Len(recs))
  BY <1>1, <1>2 DEF ReadSoFar
<1> QED BY <1>3 DEF d

LEMMA ElementIn ==
  ASSUME NEW S, NEW s \in Seq(S), NEW i \in 1 .. Len(s)
  PROVE  s[i] \in S
OBVIOUS

LEMMA ExternalStart == ExternalInit => ExternalInv
BY DEF ExternalInit, ExternalInv, Askable

\* A search that has something to read.
LEMMA ReadingFacts ==
  ASSUME ExternalInv, verdict = "reading"
  PROVE  /\ Askable /\ answer \in Answers /\ wanted \in Nat
         /\ SearchInv(answer, part, records, pending, wanted, "reading")
BY DEF ExternalInv

LEMMA AskKeeps ==
  ASSUME ExternalInv, AskMemory
  PROVE  ExternalInv'
<1>1. /\ part' = 0 /\ pending' = <<>> /\ records' = <<>> /\ wanted' \in Nat
      /\ answer' \in Answers \cup {NoContent} /\ verdict' \in {"reading", "malformed"}
      /\ verdict' = "reading" <=> Askable' /\ answer' # NoContent
  BY ExternalMemoryAssumption DEF ExternalMemoryAssumption, ExternalInv, AskMemory
<1>2. NoContent \notin Answers
  BY ExternalMemoryAssumption DEF ExternalMemoryAssumption
<1>3. ASSUME verdict' = "reading"
      PROVE  SearchInv(answer', 0, <<>>, <<>>, wanted', "reading")
  <2> DEFINE a == answer'
             c == Joined(ListsOf(a))[0]
  <2>1. a \in Answers
    BY <1>1, <1>3
  <2>2. c = <<>> /\ Len(a) \in Nat
    BY <2>1, AnswerLists, JoinExists DEF Joins
  <2>3. ReadSoFar(<<>>, <<>>, <<>>, 0)
    BY DEF ReadSoFar
  <2>4. 0 < wanted' /\ Len(<<>>) = 0
    BY <1>1, <1>3 DEF Askable
  <2> QED BY <1>1, <2>2, <2>3, <2>4 DEF SearchInv
<1> QED BY <1>1, <1>2, <1>3 DEF ExternalInv

LEMMA PartKeeps ==
  ASSUME ExternalInv, ReadPart
  PROVE  ExternalInv'
<1>1. /\ verdict = "reading" /\ pending = <<>> /\ part < Len(answer)
      /\ part' = part + 1 /\ pending' = ItemsOf(answer[part + 1])
      /\ UNCHANGED <<blank, wanted, answer, records, verdict>>
  BY DEF ReadPart
<1>2. /\ Askable /\ answer \in Answers /\ wanted \in Nat
      /\ SearchInv(answer, part, records, <<>>, wanted, "reading")
  BY <1>1, ReadingFacts
<1> DEFINE a == answer
           k == part
           c == Joined(ListsOf(a))[k]
           l == ItemsOf(a[k + 1])
<1>3. /\ Len(a) \in Nat /\ ListsOf(a) \in Seq(Seq(Items)) /\ Len(ListsOf(a)) = Len(a)
      /\ \A i \in 1 .. Len(a) : ListsOf(a)[i] = ItemsOf(a[i])
  BY <1>2, AnswerLists
<1>4. /\ k \in 0 .. Len(a) /\ k + 1 \in 1 .. Len(a) /\ (k + 1) - 1 = k /\ k + 1 \in 0 .. Len(a)
      /\ ReadSoFar(c, records, <<>>, Len(records)) /\ Len(records) < wanted
      /\ Len(records) <= wanted
  BY <1>1, <1>2, <1>3 DEF SearchInv
<1>5. l \in Seq(Items)
  <2>1. ListsOf(a)[k + 1] \in Seq(Items)
    BY <1>3, <1>4, ElementIn
  <2> QED BY <1>3, <1>4, <2>1
<1>6. Joined(ListsOf(a))[k + 1] = c \o l
  BY <1>3, <1>4, JoinExists DEF Joins
<1>7. ReadSoFar(c \o l, records, l, Len(records))
  BY <1>4, <1>5, PartReads
<1>8. SearchInv(a, k + 1, records, l, wanted, "reading")
  BY <1>4, <1>6, <1>7 DEF SearchInv
<1> QED BY <1>1, <1>2, <1>8 DEF ExternalInv, Askable

LEMMA ItemKeeps ==
  ASSUME ExternalInv, ReadItem
  PROVE  ExternalInv'
<1> DEFINE h == Head(pending)
           c == Joined(ListsOf(answer))[part]
           longer == Append(records, Record(h))
           n == Len(records)
<1>1. /\ verdict = "reading" /\ pending # <<>> /\ pending' = Tail(pending)
      /\ UNCHANGED <<blank, wanted, answer, part>>
      /\ \/ /\ Readable(h) /\ records' = longer
            /\ verdict' = IF Reached(Len(longer)) THEN "records" ELSE "reading"
         \/ ~Readable(h) /\ verdict' = "malformed" /\ records' = records
  BY DEF ReadItem
<1>2. /\ Askable /\ answer \in Answers /\ wanted \in Nat
      /\ SearchInv(answer, part, records, pending, wanted, "reading")
  BY <1>1, ReadingFacts
<1>3. /\ part \in 0 .. Len(answer) /\ ReadSoFar(c, records, pending, n) /\ n < wanted /\ n \in Nat
      /\ n <= wanted
  BY <1>2 DEF SearchInv, ReadSoFar
<1>4. /\ h = c[n + 1] /\ Len(longer) = n + 1
      /\ Readable(h) => ReadSoFar(c, longer, Tail(pending), n + 1)
      /\ ReadSoFar(c, records, Tail(pending), n + 1)
  BY <1>1, <1>3, ItemReads
<1> HIDE DEF c, longer, h, n
<1>5. CASE Readable(h) /\ Reached(Len(longer))
  <2>1. SearchInv(answer, part, longer, Tail(pending), wanted, "records")
    BY <1>3, <1>4, <1>5 DEF SearchInv, Reached, c
  <2> QED BY <1>1, <1>2, <1>5, <2>1 DEF ExternalInv, Askable
<1>6. CASE Readable(h) /\ ~Reached(Len(longer))
  <2>1. n + 1 < wanted /\ n + 1 <= wanted
    BY <1>2, <1>3, <1>4, <1>6 DEF Reached
  <2>2. SearchInv(answer, part, longer, Tail(pending), wanted, "reading")
    BY <1>3, <1>4, <1>6, <2>1 DEF SearchInv, c
  <2> QED BY <1>1, <1>2, <1>6, <2>2 DEF ExternalInv, Askable
<1>7. CASE ~Readable(h)
  <2>1. SearchInv(answer, part, records, Tail(pending), wanted, "malformed")
    BY <1>3, <1>4, <1>7 DEF SearchInv, c, n
  <2> QED BY <1>1, <1>2, <1>7, <2>1 DEF ExternalInv, Askable
<1> QED BY <1>5, <1>6, <1>7

LEMMA EndKeeps ==
  ASSUME ExternalInv, EndOfAnswer
  PROVE  ExternalInv'
<1>1. /\ verdict = "reading" /\ pending = <<>> /\ part = Len(answer) /\ verdict' = "records"
      /\ UNCHANGED <<blank, wanted, answer, part, pending, records>>
  BY DEF EndOfAnswer
<1>2. /\ Askable /\ answer \in Answers /\ wanted \in Nat
      /\ SearchInv(answer, part, records, pending, wanted, "reading")
  BY <1>1, ReadingFacts
<1>3. SearchInv(answer, part, records, pending, wanted, "records")
  BY <1>1, <1>2 DEF SearchInv
<1> QED BY <1>1, <1>2, <1>3 DEF ExternalInv, Askable

LEMMA ExternalKeeps ==
  ASSUME ExternalInv, [ExternalNext]_externalVars
  PROVE  ExternalInv'
<1>1. CASE ReturnRecords
  BY <1>1 DEF ReturnRecords, ExternalInv, Askable
<1>2. CASE UNCHANGED externalVars
  BY <1>2 DEF externalVars, ExternalInv, Askable
<1> QED BY <1>1, <1>2, AskKeeps, PartKeeps, ItemKeeps, EndKeeps DEF ExternalNext

\* What has been read so far begins what there is to read.
LEMMA RecordsAreFirst ==
  ASSUME ExternalInv
  PROVE  FirstRecordsOrNone
<1> DEFINE all == FlattenSeq(ListsOf(answer))
           m == IF wanted < Len(all) THEN wanted ELSE Len(all)
           first == SubSeq(all, 1, m)
           whole == \A k \in DOMAIN first : Readable(first[k])
           c == Joined(ListsOf(answer))[part]
           n == Len(records)
<1> SUFFICES /\ verdict = "records" =>
                   Askable /\ whole /\ records = [k \in DOMAIN first |-> Record(first[k])]
             /\ verdict = "malformed" => ~Askable \/ answer = NoContent \/ ~whole
  BY DEF FirstRecordsOrNone, ListsOf
<1>1. CASE verdict = "none" \/ ~(Askable /\ answer \in Answers)
  BY <1>1 DEF ExternalInv
<1>2. CASE verdict # "none" /\ Askable /\ answer \in Answers
  <2>1. /\ SearchInv(answer, part, records, pending, wanted, verdict) /\ wanted \in Nat
        /\ verdict \in {"reading", "records", "malformed"}
    BY <1>2 DEF ExternalInv
  <2>2. /\ ListsOf(answer) \in Seq(Seq(Items)) /\ Len(ListsOf(answer)) = Len(answer)
        /\ Len(answer) \in Nat /\ part \in 0 .. Len(answer)
    BY <1>2, <2>1, AnswerLists DEF SearchInv
  <2>3. /\ all = Joined(ListsOf(answer))[Len(answer)] /\ all \in Seq(Items) /\ c \in Seq(Items)
        /\ Begins(c, all) /\ (part = Len(answer) => c = all)
    <3>1. FlattenSeq(ListsOf(answer)) = Joined(ListsOf(answer))[Len(answer)]
      BY <2>2, JoinIsFlat
    <3>2. Joins(Joined(ListsOf(answer)), ListsOf(answer), Len(answer))
      BY <2>2, JoinExists
    <3>3. Begins(Joined(ListsOf(answer))[part], Joined(ListsOf(answer))[Len(answer)])
      BY <2>2, JoinsBegin
    <3>4. Len(answer) \in 0 .. Len(answer)
      BY <2>2
    <3> QED BY <2>2, <3>1, <3>2, <3>3, <3>4 DEF Joins
  <2>4. /\ verdict # "malformed" => ReadSoFar(c, records, pending, n)
        /\ verdict = "malformed" =>
              ReadSoFar(c, records, pending, n + 1) /\ n < wanted /\ ~Readable(c[n + 1])
        /\ verdict = "records" => n = wanted \/ (part = Len(answer) /\ pending = <<>>)
        /\ n <= wanted
    BY <2>1 DEF SearchInv
  <2> HIDE DEF all, c, n
  <2>5. /\ Len(all) \in Nat /\ Len(c) \in Nat /\ Len(c) <= Len(all)
        /\ \A k \in 1 .. Len(c) : c[k] = all[k]
    BY <2>3 DEF Begins
  <2>6. m \in 0 .. Len(all) /\ m <= wanted /\ (m = wanted \/ m = Len(all))
    BY <2>1, <2>5
  <2> HIDE DEF m
  <2>7. /\ DOMAIN first = 1 .. m /\ \A k \in 1 .. m : first[k] = all[k]
    BY <2>3, <2>5, <2>6
  <2> HIDE DEF first
  <2>8. ASSUME verdict = "records"
        PROVE  whole /\ records = [k \in DOMAIN first |-> Record(first[k])]
    <3>1. /\ ReadSoFar(c, records, pending, n) /\ n \in 0 .. Len(c) /\ DOMAIN records = 1 .. n
          /\ records \in Seq(MemoryRecords)
          /\ \A k \in 1 .. n : Readable(c[k]) /\ records[k] = Record(c[k])
          /\ Len(pending) = Len(c) - n
      BY <2>4, <2>8 DEF ReadSoFar, n
    <3>2. m = n
      <4>1. CASE n = wanted
        BY <2>5, <2>6, <3>1, <4>1 DEF m
      <4>2. CASE part = Len(answer) /\ pending = <<>>
        <5>1. Len(all) = n
          BY <2>3, <2>5, <3>1, <4>2
        <5> QED BY <2>1, <2>4, <2>6, <5>1
      <4> QED BY <2>4, <2>8, <4>1, <4>2
    <3>3. \A k \in 1 .. m : k \in 1 .. n /\ k \in 1 .. Len(c)
      BY <2>5, <3>1, <3>2
    <3>4. \A k \in 1 .. m : Readable(first[k]) /\ records[k] = Record(first[k])
      BY <2>5, <2>7, <3>1, <3>3
    <3>5. records = [k \in 1 .. n |-> records[k]]
      BY <3>1
    <3>6. records = [k \in 1 .. m |-> Record(first[k])]
      BY <3>2, <3>4, <3>5
    <3> QED BY <2>7, <3>4, <3>6
  <2>9. ASSUME verdict = "malformed" PROVE ~whole
    <3>1. n + 1 \in 0 .. Len(c) /\ n \in Nat
      BY <2>4, <2>9 DEF ReadSoFar, n
    <3>2. n + 1 \in 1 .. m /\ n + 1 \in 1 .. Len(c)
      BY <2>1, <2>4, <2>5, <2>6, <2>9, <3>1
    <3>3. ~Readable(first[n + 1])
      BY <2>4, <2>5, <2>7, <2>9, <3>2
    <3> QED BY <2>7, <3>2, <3>3
  <2> QED BY <1>2, <2>8, <2>9
<1> QED BY <1>1, <1>2

\* A search of an external memory returns the first records of the answer, as
\* many as were asked for, and fails only for what it would have returned: for
\* any answer, of any number of parts of any shape (search_inner,
\* parse_memory_result).
THEOREM SearchReturnsFirst ==
  ExternalSpec => []FirstRecordsOrNone
BY ExternalStart, ExternalKeeps, RecordsAreFirst, PTL DEF ExternalSpec
=============================================================================
