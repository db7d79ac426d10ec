-------------------------- MODULE ExecutionProofs --------------------------
(***************************************************************************)
(* Proofs about the execution of a program, whatever the sizes of pipes    *)
(* and captures.                                                           *)
(*                                                                         *)
(* A stopped program leaves no process of its group behind: once the kill  *)
(* program has emptied the group nobody can start a process in it any      *)
(* more, as only its members can; and nothing ever starts the program      *)
(* itself again.  A reason is set exactly when the caller turns to         *)
(* killing, or finds the program gone.                                     *)
(*                                                                         *)
(* The capture is exact: what a reader keeps is a function of how many     *)
(* bytes it has seen, and when it is done nobody holds the pipe any more,  *)
(* nor can be given it, so that nothing is written afterwards.             *)
(***************************************************************************)
EXTENDS Execution, TLAPS

-----------------------------------------------------------------------------
(* Who is left.                                                             *)

Killing == {"kill group", "kill program", "reap"}
Stopped == {"cancelled", "timed out"}

ReasonInv ==
    /\ at \in {"admit", "poll", "check", "join", "returned", "failed"} \cup Killing
    /\ at \in {"admit", "poll", "check"} => reason = "none"
    /\ at \in Killing => reason \in Stopped

\* What is gone once the kill program, and then the child, have been killed.
GoneInv ==
    /\ at = "kill program" /\ killer => alive \cap Group = {}
    /\ at \in {"reap", "join", "returned"} /\ reason \in Stopped =>
          /\ "program" \notin alive
          /\ killer => alive \cap Group = {}

StopInv == killer \in BOOLEAN /\ ReasonInv /\ GoneInv

LEMMA InitialInvariant == Init => StopInv
  BY DEF Init, StopInv, ReasonInv, GoneInv, Killing, Stopped

\* The caller's steps.
LEMMA CallerKeepsInvariant ==
  ASSUME StopInv, Caller
  PROVE  StopInv'
<1> USE DEF StopInv, ReasonInv, GoneInv, Killing, Stopped, inputs
<1>1. CASE Refuse \/ Spawn \/ WaitFails
  BY <1>1 DEF Refuse, Spawn, WaitFails
<1>2. CASE Poll
  BY <1>2 DEF Poll
<1>3. CASE Check
  BY <1>3 DEF Check
<1>4. CASE KillGroup
  BY <1>4 DEF KillGroup, Killed, KillTargets
<1>5. CASE KillProgram
  BY <1>5 DEF KillProgram, Killed, Group
<1>6. CASE Reap
  BY <1>6 DEF Reap
<1>7. CASE Join
  <2>1. /\ at = "join" /\ at' \in {"returned", "failed"}
        /\ reason' = reason /\ killer' = killer /\ alive' = alive
    BY <1>7 DEF Join
  <2> QED BY <2>1
<1> QED BY <1>1, <1>2, <1>3, <1>4, <1>5, <1>6, <1>7 DEF Caller

\* The processes' steps: they shrink what is alive, or start a process that
\* an emptied group cannot.
LEMMA ProcessesKeepInvariant ==
  ASSUME StopInv, NEW p \in Processes,
         Exit(p) \/ (\E child \in Processes : Fork(p, child)) \/ (\E s \in Streams : Write(p, s))
  PROVE  StopInv'
<1> USE DEF StopInv, ReasonInv, GoneInv, inputs
<1>1. CASE Exit(p)
  BY <1>1 DEF Exit, Killed
<1>2. ASSUME NEW child \in Processes, Fork(p, child)
      PROVE  StopInv'
  <2>1. /\ at' = at /\ reason' = reason /\ killer' = killer
        /\ alive' = alive \cup {child} /\ child # "program"
        /\ child \in Group => p \in alive \cap Group
    BY <1>2 DEF Fork, Group
  <2> QED BY <2>1
<1>3. ASSUME NEW s \in Streams, Write(p, s)
      PROVE  StopInv'
  BY <1>3 DEF Write
<1> QED BY <1>1, <1>2, <1>3

LEMMA UnchangedKeepsInvariant ==
  ASSUME StopInv, UNCHANGED <<at, reason, killer, alive>>
  PROVE  StopInv'
BY DEF StopInv, ReasonInv, GoneInv

LEMMA StepKeepsInvariant == StopInv /\ [Next]_vars => StopInv'
<1> SUFFICES ASSUME StopInv, [Next]_vars
             PROVE  StopInv'
  OBVIOUS
<1>1. CASE Caller
  BY <1>1, CallerKeepsInvariant
<1>2. ASSUME NEW s \in Streams, Read(s) \/ EndOfFile(s) \/ ReadFails(s)
      PROVE  StopInv'
  <2>1. UNCHANGED <<at, reason, killer, alive>>
    BY <1>2 DEF Read, EndOfFile, ReadFails, inputs
  <2> QED BY <2>1, UnchangedKeepsInvariant
<1>3. ASSUME NEW p \in Processes,
             \/ Exit(p)
             \/ \E child \in Processes : Fork(p, child)
             \/ \E s \in Streams : Write(p, s)
      PROVE  StopInv'
  BY <1>3, ProcessesKeepInvariant
<1>4. CASE Cancel \/ Expire \/ UNCHANGED vars
  <2>1. UNCHANGED <<at, reason, killer, alive>>
    BY <1>4 DEF Cancel, Expire, vars
  <2> QED BY <2>1, UnchangedKeepsInvariant
<1> QED BY <1>1, <1>2, <1>3, <1>4 DEF Next

LEMMA InvariantImpliesGone == StopInv => StoppedTreeIsGone
  BY DEF StopInv, GoneInv, StoppedTreeIsGone, Stopped

\* A run that was cancelled or timed out leaves no process of its group
\* behind, not even one started while it was being stopped
\* (terminate_process_tree).
THEOREM NothingOutlivesStop == Spec => []StoppedTreeIsGone
<1>1. Init /\ [][Next]_vars => []StopInv
  BY InitialInvariant, StepKeepsInvariant, PTL
<1> QED BY <1>1, InvariantImpliesGone, PTL DEF Spec

-----------------------------------------------------------------------------
(* What is captured.                                                        *)

\* The n bytes after the first k.
Bytes(k, n) == [i \in 1 .. n |-> k + i]

LEMMA BytesAreASequence ==
  ASSUME NEW k \in Nat, NEW n \in Nat
  PROVE  Bytes(k, n) \in Seq(Nat) /\ Len(Bytes(k, n)) = n /\ DOMAIN Bytes(k, n) = 1 .. n
<1>1. Bytes(k, n) \in [1 .. n -> Nat]
  BY DEF Bytes
<1>2. Bytes(k, n) \in Seq(Nat)
  BY <1>1
<1> QED BY <1>1, <1>2

LEMMA NextByte ==
  ASSUME NEW k \in Nat, NEW n \in Nat
  PROVE  Append(Bytes(k, n), k + n + 1) = Bytes(k, n + 1)
<1>1. Bytes(k, n) \in Seq(Nat) /\ Len(Bytes(k, n)) = n
  BY BytesAreASequence
<1>2. Bytes(k, n + 1) \in Seq(Nat) /\ Len(Bytes(k, n + 1)) = n + 1
  BY BytesAreASequence
<1> QED BY <1>1, <1>2 DEF Bytes

LEMMA WithoutFirstByte ==
  ASSUME NEW k \in Nat, NEW n \in Nat, n > 0
  PROVE  Tail(Bytes(k, n)) = Bytes(k + 1, n - 1)
<1>1. Bytes(k, n) \in Seq(Nat) /\ Len(Bytes(k, n)) = n
  BY BytesAreASequence
<1>2. Bytes(k + 1, n - 1) \in Seq(Nat) /\ Len(Bytes(k + 1, n - 1)) = n - 1
  BY BytesAreASequence
<1> QED BY <1>1, <1>2 DEF Bytes

LEMMA JoinedBytes ==
  ASSUME NEW a \in Nat, NEW b \in Nat
  PROVE  Bytes(0, a) \o Bytes(a, b) = Bytes(0, a + b)
<1>1. /\ Bytes(0, a) \in Seq(Nat) /\ Len(Bytes(0, a)) = a
      /\ Bytes(a, b) \in Seq(Nat) /\ Len(Bytes(a, b)) = b
      /\ Bytes(0, a + b) \in Seq(Nat) /\ Len(Bytes(0, a + b)) = a + b
  BY BytesAreASequence
<1> QED BY <1>1 DEF Bytes

LEMMA PartOfBytes ==
  ASSUME NEW n \in Nat, NEW a \in Nat, NEW b \in Nat, a + b <= n
  PROVE  SubSeq(Bytes(0, n), a + 1, a + b) = Bytes(a, b)
<1>1. /\ Bytes(0, n) \in Seq(Nat) /\ Len(Bytes(0, n)) = n
      /\ Bytes(a, b) \in Seq(Nat) /\ Len(Bytes(a, b)) = b
  BY BytesAreASequence
<1>2. \A i \in a + 1 .. a + b : Bytes(0, n)[i] = i
  BY DEF Bytes
<1> QED BY <1>1, <1>2 DEF Bytes

LEMMA Halves == HeadCap \in Nat /\ TailCap \in Nat /\ HeadCap + TailCap = Cap /\ HeadCap > 0
  BY ExecutionAssumption DEF ExecutionAssumption, HeadCap, TailCap

LEMMA NoBytes == \A k : Bytes(k, 0) = <<>>
  BY DEF Bytes

\* The lengths of the head and the tail after n bytes.
HeadLength(n) == IF n < HeadCap THEN n ELSE HeadCap

TailLength(n) == IF n < HeadCap THEN 0
                 ELSE IF n - HeadCap < TailCap THEN n - HeadCap ELSE TailCap

LEMMA Lengths ==
  ASSUME NEW n \in Nat
  PROVE  /\ HeadLength(n) \in Nat /\ TailLength(n) \in Nat /\ n - TailLength(n) \in Nat
         /\ n <= Cap => HeadLength(n) + TailLength(n) = n
         /\ n > Cap => HeadLength(n) = HeadCap /\ TailLength(n) = TailCap
  BY Halves, ExecutionAssumption DEF ExecutionAssumption, HeadLength, TailLength

\* What a reader that has seen n bytes keeps.
KeptOf(n) == [head |-> Bytes(0, HeadLength(n)),
              tail |-> Bytes(n - TailLength(n), TailLength(n))]

\* The loop over the bytes of a read, one byte.
LEMMA KeepsFirstAndLast ==
  ASSUME NEW n \in Nat
  PROVE  Kept(KeptOf(n), n + 1) = KeptOf(n + 1)
<1>1. /\ HeadLength(n) \in Nat /\ TailLength(n) \in Nat /\ n - TailLength(n) \in Nat
      /\ HeadCap \in Nat /\ TailCap \in Nat /\ HeadCap > 0
  BY Lengths, Halves
<1>2. /\ Len(KeptOf(n).head) = HeadLength(n) /\ Len(KeptOf(n).tail) = TailLength(n)
  BY <1>1, BytesAreASequence DEF KeptOf
<1>3. CASE n < HeadCap
  <2>1. HeadLength(n) = n /\ HeadLength(n + 1) = n + 1 /\ TailLength(n) = 0 /\ TailLength(n + 1) = 0
    BY <1>1, <1>3 DEF HeadLength, TailLength
  <2>2. Append(Bytes(0, n), n + 1) = Bytes(0, n + 1)
    BY NextByte
  <2>3. Kept(KeptOf(n), n + 1) = [KeptOf(n) EXCEPT !.head = Append(KeptOf(n).head, n + 1)]
    BY <1>2, <1>3, <2>1 DEF Kept
  <2>4. Bytes(n - 0, 0) = Bytes(n + 1 - 0, 0)
    BY NoBytes
  <2> QED BY <2>1, <2>2, <2>3, <2>4 DEF KeptOf
<1>4. CASE n >= HeadCap /\ TailCap = 0
  <2>1. /\ HeadLength(n) = HeadCap /\ HeadLength(n + 1) = HeadCap
        /\ TailLength(n) = 0 /\ TailLength(n + 1) = 0
    BY <1>1, <1>4 DEF HeadLength, TailLength
  <2>2. Kept(KeptOf(n), n + 1) = KeptOf(n)
    BY <1>1, <1>2, <1>4, <2>1 DEF Kept
  <2>3. Bytes(n - 0, 0) = Bytes(n + 1 - 0, 0)
    BY NoBytes
  <2> QED BY <2>1, <2>2, <2>3 DEF KeptOf
<1>5. CASE n >= HeadCap /\ n - HeadCap < TailCap
  <2> DEFINE t == n - HeadCap
  <2>1. /\ HeadLength(n) = HeadCap /\ HeadLength(n + 1) = HeadCap
        /\ TailLength(n) = t /\ TailLength(n + 1) = t + 1 /\ t \in Nat
        /\ n - t = HeadCap /\ n + 1 - (t + 1) = HeadCap /\ HeadCap + t + 1 = n + 1
    BY <1>1, <1>5 DEF HeadLength, TailLength
  <2>2. Append(Bytes(HeadCap, t), n + 1) = Bytes(HeadCap, t + 1)
    BY <1>1, <2>1, NextByte
  <2>3. Kept(KeptOf(n), n + 1) = [KeptOf(n) EXCEPT !.tail = Append(KeptOf(n).tail, n + 1)]
    <3>1. /\ ~ (Len(KeptOf(n).head) < HeadCap) /\ TailCap # 0
          /\ Len(KeptOf(n).tail) # TailCap
      BY <1>1, <1>2, <1>5, <2>1
    <3> QED BY <3>1 DEF Kept
  <2>4. KeptOf(n).tail = Bytes(HeadCap, t)
    BY <2>1 DEF KeptOf
  <2>5. KeptOf(n + 1).tail = Bytes(HeadCap, t + 1) /\ KeptOf(n + 1).head = KeptOf(n).head
    BY <2>1 DEF KeptOf
  <2> QED BY <2>2, <2>3, <2>4, <2>5 DEF KeptOf
<1>6. CASE n >= HeadCap /\ n - HeadCap >= TailCap /\ TailCap # 0
  <2>1. /\ HeadLength(n) = HeadCap /\ HeadLength(n + 1) = HeadCap
        /\ TailLength(n) = TailCap /\ TailLength(n + 1) = TailCap
        /\ n - TailCap \in Nat /\ TailCap > 0 /\ TailCap - 1 \in Nat
        /\ n + 1 - TailCap = n - TailCap + 1
        /\ (n - TailCap + 1) + (TailCap - 1) + 1 = n + 1 /\ (TailCap - 1) + 1 = TailCap
    BY <1>1, <1>6 DEF HeadLength, TailLength
  <2>2. KeptOf(n).tail = Bytes(n - TailCap, TailCap)
    BY <2>1 DEF KeptOf
  <2>3. Tail(KeptOf(n).tail) = Bytes(n - TailCap + 1, TailCap - 1)
    BY <1>1, <2>1, <2>2, WithoutFirstByte
  <2>4. Append(Bytes(n - TailCap + 1, TailCap - 1), n + 1) = Bytes(n - TailCap + 1, TailCap)
    <3>1. n - TailCap + 1 \in Nat
      BY <2>1
    <3>2. Append(Bytes(n - TailCap + 1, TailCap - 1), (n - TailCap + 1) + (TailCap - 1) + 1)
              = Bytes(n - TailCap + 1, (TailCap - 1) + 1)
      BY <2>1, <3>1, NextByte
    <3> QED BY <2>1, <3>2
  <2>5. Kept(KeptOf(n), n + 1) = [KeptOf(n) EXCEPT !.tail = Append(Tail(KeptOf(n).tail), n + 1)]
    BY <1>1, <1>2, <1>6, <2>1 DEF Kept
  <2>6. KeptOf(n + 1).tail = Bytes(n - TailCap + 1, TailCap) /\ KeptOf(n + 1).head = KeptOf(n).head
    BY <2>1 DEF KeptOf
  <2> QED BY <2>3, <2>4, <2>5, <2>6 DEF KeptOf
<1> QED BY <1>1, <1>3, <1>4, <1>5, <1>6

\* What CaptureExact says of a stream.
Exact(s) ==
    LET all == Bytes(0, written[s])
    IN  /\ seen[s] = written[s]
        /\ IF Truncated(s)
           THEN /\ head[s] = SubSeq(all, 1, HeadCap)
                /\ tail[s] = SubSeq(all, Len(all) - TailCap + 1, Len(all))
           ELSE head[s] = all /\ tail[s] = <<>>

StreamsOK ==
    /\ written \in [Streams -> Nat] /\ seen \in [Streams -> Nat]
    /\ reader \in [Streams -> {"none", "reading", "done", "failed"}]
    /\ head = [s \in Streams |-> head[s]] /\ tail = [s \in Streams |-> tail[s]]
    /\ holds = [p \in Processes |-> holds[p]]

\* How far a reader has come; once it is done nobody writes any more.
StreamInv(s) ==
    /\ seen[s] <= written[s]
    /\ at = "admit" => reader[s] = "none"
    /\ reader[s] \in {"none", "reading"} =>
          [head |-> head[s], tail |-> tail[s]] = KeptOf(seen[s])
    /\ reader[s] = "done" => Exact(s) /\ \A p \in Processes : s \notin holds[p]
    /\ at = "returned" => reader[s] = "done"

CaptureInv == StreamsOK /\ \A s \in Streams : StreamInv(s)

\* A step that leaves a stream alone, while nobody new gets hold of it.
LEMMA StreamLeftAlone ==
  ASSUME NEW s \in Streams, StreamInv(s),
         written'[s] = written[s], seen'[s] = seen[s], reader'[s] = reader[s],
         head'[s] = head[s], tail'[s] = tail[s],
         \A p \in Processes : s \in holds'[p] => \E q \in Processes : s \in holds[q],
         at' = "admit" => at = "admit",
         at' = "returned" => reader[s] = "done"
  PROVE  StreamInv(s)'
BY DEF StreamInv, Exact, Truncated

\* The caller's steps.
LEMMA CallerKeepsCapture ==
  ASSUME CaptureInv, Caller
  PROVE  CaptureInv'
<1>1. CASE Spawn
  <2>1. /\ at = "admit" /\ at' = "poll" /\ reader' = [s \in Streams |-> "reading"]
        /\ holds' = [holds EXCEPT !["program"] = Streams]
        /\ UNCHANGED <<written, seen, head, tail>>
    BY <1>1 DEF Spawn
  <2>2. StreamsOK'
    BY <2>1 DEF CaptureInv, StreamsOK
  <2>3. ASSUME NEW s \in Streams PROVE StreamInv(s)'
    BY <2>1 DEF CaptureInv, StreamInv
  <2> QED BY <2>2, <2>3 DEF CaptureInv
<1>2. CASE ~Spawn
  <2>1. UNCHANGED streams
    BY <1>2 DEF Caller, Refuse, Poll, WaitFails, Check, KillGroup, KillProgram, Reap, Join, streams
  <2>2. holds' = [p \in Processes |-> holds'[p]] /\ \A p \in Processes : holds'[p] \in {{}, holds[p]}
    <3>1. CASE UNCHANGED holds
      BY <3>1 DEF CaptureInv, StreamsOK
    <3>2. CASE Killed(KillTargets) \/ Killed({"program"})
      BY <3>2 DEF Killed
    <3> QED BY <1>2, <3>1, <3>2
            DEF Caller, Refuse, Poll, WaitFails, Check, KillGroup, KillProgram, Reap, Join
  <2>3. at' # "admit" /\ (at' = "returned" => \A s \in Streams : reader[s] = "done")
    BY <1>2 DEF Caller, Refuse, Poll, WaitFails, Check, KillGroup, KillProgram, Reap, Join
  <2>4. StreamsOK'
    BY <2>1, <2>2 DEF CaptureInv, StreamsOK, streams
  <2>5. ASSUME NEW s \in Streams PROVE StreamInv(s)'
    BY <2>1, <2>2, <2>3, StreamLeftAlone DEF CaptureInv, streams
  <2> QED BY <2>4, <2>5 DEF CaptureInv
<1> QED BY <1>1, <1>2

\* A reader's step on its stream.
LEMMA ReaderKeepsCapture ==
  ASSUME CaptureInv, NEW s \in Streams, Read(s) \/ EndOfFile(s) \/ ReadFails(s)
  PROVE  CaptureInv'
<1> DEFINE kept == [head |-> head[s], tail |-> tail[s]]
<1>1. UNCHANGED <<at, holds, written>> /\ reader[s] = "reading"
  BY DEF Read, EndOfFile, ReadFails
<1>2. kept = KeptOf(seen[s]) /\ seen[s] \in Nat /\ written[s] \in Nat /\ seen[s] <= written[s]
  BY <1>1 DEF CaptureInv, StreamInv, StreamsOK
<1>3. at # "admit" /\ at # "returned"
  BY <1>1 DEF CaptureInv, StreamInv
<1>4. ASSUME \A q \in Streams \ {s} : /\ seen'[q] = seen[q] /\ reader'[q] = reader[q]
                                      /\ head'[q] = head[q] /\ tail'[q] = tail[q]
      PROVE  \A q \in Streams \ {s} : StreamInv(q)'
  BY <1>1, <1>3, <1>4, StreamLeftAlone DEF CaptureInv
<1>5. CASE Read(s)
  <2> DEFINE next == Kept(kept, seen[s] + 1)
  <2>1. next = KeptOf(seen[s] + 1)
    BY <1>2, KeepsFirstAndLast
  <2>2. /\ head' = [head EXCEPT ![s] = next.head] /\ tail' = [tail EXCEPT ![s] = next.tail]
        /\ seen' = [seen EXCEPT ![s] = seen[s] + 1] /\ reader' = reader /\ seen[s] < written[s]
    BY <1>5 DEF Read
  <2> HIDE DEF next
  <2>3. StreamsOK'
    <3>1. seen' \in [Streams -> Nat]
      BY <2>2 DEF CaptureInv, StreamsOK
    <3>2. /\ head' = [q \in Streams |-> head'[q]] /\ tail' = [q \in Streams |-> tail'[q]]
      BY <2>2 DEF CaptureInv, StreamsOK
    <3> QED BY <1>1, <2>2, <3>1, <3>2 DEF CaptureInv, StreamsOK
  <2>4. [head |-> head'[s], tail |-> tail'[s]] = KeptOf(seen'[s])
    BY <1>2, <2>1, <2>2 DEF CaptureInv, StreamsOK, KeptOf
  <2>5. seen'[s] <= written'[s]
    BY <1>1, <1>2, <2>2 DEF CaptureInv, StreamsOK
  <2>6. StreamInv(s)'
    BY <1>1, <1>3, <2>2, <2>4, <2>5 DEF StreamInv
  <2>7. \A q \in Streams \ {s} : StreamInv(q)'
    BY <1>4, <2>2 DEF CaptureInv, StreamsOK
  <2> QED BY <2>3, <2>6, <2>7 DEF CaptureInv
<1>6. CASE EndOfFile(s)
  <2>1. /\ seen[s] = written[s] /\ \A p \in Processes : s \notin holds[p]
        /\ reader' = [reader EXCEPT ![s] = "done"] /\ seen' = seen
    BY <1>6 DEF EndOfFile
  <2>2. head[s] = Bytes(0, HeadLength(seen[s]))
        /\ tail[s] = Bytes(seen[s] - TailLength(seen[s]), TailLength(seen[s]))
    BY <1>2 DEF KeptOf
  <2>3. CASE Truncated(s)
    <3>1. UNCHANGED <<head, tail>> /\ seen[s] > Cap
      BY <1>6, <2>3 DEF EndOfFile, Truncated
    <3>2. /\ HeadLength(seen[s]) = HeadCap /\ TailLength(seen[s]) = TailCap
          /\ HeadCap \in Nat /\ TailCap \in Nat /\ HeadCap + TailCap = Cap
          /\ seen[s] - TailCap \in Nat
      BY <1>2, <3>1, Lengths, Halves
    <3>3. head[s] = SubSeq(Bytes(0, written[s]), 1, HeadCap)
      <4>1. 0 + HeadCap <= written[s]
        BY <2>1, <3>1, <3>2, <1>2
      <4>2. SubSeq(Bytes(0, written[s]), 0 + 1, 0 + HeadCap) = Bytes(0, HeadCap)
        BY <1>2, <3>2, <4>1, PartOfBytes
      <4> QED BY <2>2, <3>2, <4>2
    <3>4. tail[s] = SubSeq(Bytes(0, written[s]), Len(Bytes(0, written[s])) - TailCap + 1,
                           Len(Bytes(0, written[s])))
      <4>1. Len(Bytes(0, written[s])) = written[s]
        BY <1>2, BytesAreASequence
      <4>2. /\ (written[s] - TailCap) + TailCap = written[s] /\ written[s] - TailCap \in Nat
            /\ (written[s] - TailCap) + TailCap <= written[s]
        BY <1>2, <2>1, <3>2
      <4>3. SubSeq(Bytes(0, written[s]), (written[s] - TailCap) + 1,
                   (written[s] - TailCap) + TailCap) = Bytes(written[s] - TailCap, TailCap)
        <5> DEFINE n == written[s]
                   from == written[s] - TailCap
        <5>1. n \in Nat /\ from \in Nat /\ TailCap \in Nat /\ from + TailCap <= n
          BY <1>2, <3>2, <4>2
        <5> HIDE DEF n, from
        <5>2. SubSeq(Bytes(0, n), from + 1, from + TailCap) = Bytes(from, TailCap)
          BY <5>1, PartOfBytes
        <5> QED BY <5>2 DEF n, from
      <4>4. /\ Len(Bytes(0, written[s])) - TailCap + 1 = (written[s] - TailCap) + 1
            /\ Len(Bytes(0, written[s])) = (written[s] - TailCap) + TailCap
        BY <4>1, <4>2
      <4>5. tail[s] = Bytes(written[s] - TailCap, TailCap)
        BY <2>1, <2>2, <3>2
      <4> QED BY <4>3, <4>4, <4>5
    <3>5. Exact(s)'
      BY <1>1, <2>1, <2>3, <3>1, <3>3, <3>4 DEF Exact, Truncated
    <3>6. StreamsOK' /\ reader'[s] = "done"
      BY <1>1, <2>1, <3>1 DEF CaptureInv, StreamsOK
    <3>7. StreamInv(s)'
      BY <1>1, <1>2, <1>3, <2>1, <3>5, <3>6 DEF StreamInv
    <3>8. \A q \in Streams \ {s} : StreamInv(q)'
      BY <1>4, <2>1, <3>1 DEF CaptureInv, StreamsOK
    <3> QED BY <3>6, <3>7, <3>8 DEF CaptureInv
  <2>4. CASE ~Truncated(s)
    <3>1. /\ head' = [head EXCEPT ![s] = head[s] \o tail[s]]
          /\ tail' = [tail EXCEPT ![s] = <<>>]
      BY <1>6, <2>4 DEF EndOfFile
    <3>2. seen[s] <= Cap
      BY <1>2, <2>4, ExecutionAssumption DEF ExecutionAssumption, Truncated
    <3>3. /\ HeadLength(seen[s]) + TailLength(seen[s]) = seen[s]
          /\ HeadLength(seen[s]) \in Nat /\ TailLength(seen[s]) \in Nat
      BY <1>2, <3>2, Lengths
    <3>4. head[s] \o tail[s] = Bytes(0, written[s])
      <4>1. seen[s] - TailLength(seen[s]) = HeadLength(seen[s])
        BY <1>2, <3>3
      <4> QED BY <2>1, <2>2, <3>3, <4>1, JoinedBytes
    <3>5. StreamsOK' /\ reader'[s] = "done" /\ head'[s] = Bytes(0, written[s]) /\ tail'[s] = <<>>
      BY <1>1, <2>1, <3>1, <3>4 DEF CaptureInv, StreamsOK
    <3>6. Exact(s)'
      BY <1>1, <2>1, <2>4, <3>5 DEF Exact, Truncated
    <3>7. StreamInv(s)'
      BY <1>1, <1>2, <1>3, <2>1, <3>5, <3>6 DEF StreamInv
    <3>8. \A q \in Streams \ {s} : StreamInv(q)'
      BY <1>4, <2>1, <3>1 DEF CaptureInv, StreamsOK
    <3> QED BY <3>5, <3>7, <3>8 DEF CaptureInv
  <2> QED BY <2>3, <2>4
<1>7. CASE ReadFails(s)
  <2>1. UNCHANGED <<seen, head, tail>> /\ reader' = [reader EXCEPT ![s] = "failed"]
    BY <1>7 DEF ReadFails
  <2>2. StreamsOK' /\ reader'[s] = "failed"
    BY <1>1, <2>1 DEF CaptureInv, StreamsOK
  <2>3. StreamInv(s)'
    BY <1>1, <1>2, <1>3, <2>1, <2>2 DEF StreamInv
  <2>4. \A q \in Streams \ {s} : StreamInv(q)'
    BY <1>4, <2>1 DEF CaptureInv, StreamsOK
  <2> QED BY <2>2, <2>3, <2>4 DEF CaptureInv
<1> QED BY <1>5, <1>6, <1>7

\* The processes' steps, and the world's.
LEMMA OthersKeepCapture ==
  ASSUME CaptureInv,
         \/ \E p \in Processes : \/ Exit(p)
                                 \/ \E child \in Processes : Fork(p, child)
                                 \/ \E s \in Streams : Write(p, s)
         \/ Cancel \/ Expire \/ UNCHANGED vars
  PROVE  CaptureInv'
<1>1. ASSUME UNCHANGED <<at, streams>>, holds' = [p \in Processes |-> holds'[p]],
             \A p \in Processes : holds'[p] = {} \/ \E q \in Processes : holds'[p] = holds[q]
      PROVE  CaptureInv'
  <2>1. StreamsOK'
    BY <1>1 DEF CaptureInv, StreamsOK, streams
  <2>2. ASSUME NEW s \in Streams PROVE StreamInv(s)'
    <3>1. StreamInv(s) /\ (at = "returned" => reader[s] = "done")
      BY DEF CaptureInv, StreamInv
    <3> QED BY <1>1, <3>1, StreamLeftAlone DEF streams
  <2> QED BY <2>1, <2>2 DEF CaptureInv
<1>2. ASSUME NEW p \in Processes, Exit(p) PROVE CaptureInv'
  BY <1>1, <1>2 DEF Exit, Killed
<1>3. ASSUME NEW p \in Processes, NEW child \in Processes, Fork(p, child) PROVE CaptureInv'
  <2>1. UNCHANGED <<at, streams>> /\ \E inherited \in {{}, holds[p]} :
                                         holds' = [holds EXCEPT ![child] = inherited]
    BY <1>3 DEF Fork
  <2> QED BY <1>1, <2>1 DEF CaptureInv, StreamsOK
<1>4. ASSUME NEW p \in Processes, NEW s \in Streams, Write(p, s) PROVE CaptureInv'
  <2>1. /\ s \in holds[p] /\ written' = [written EXCEPT ![s] = written[s] + 1]
        /\ UNCHANGED <<at, holds, reader, seen, head, tail>>
    BY <1>4 DEF Write
  <2>2. StreamsOK'
    BY <2>1 DEF CaptureInv, StreamsOK
  <2>3. reader[s] # "done" /\ at # "returned"
    BY <2>1 DEF CaptureInv, StreamInv
  <2>4. StreamInv(s)'
    <3>1. seen[s] <= written'[s]
      BY <2>1 DEF CaptureInv, StreamInv, StreamsOK
    <3> QED BY <2>1, <2>3, <3>1 DEF CaptureInv, StreamInv
  <2>5. ASSUME NEW q \in Streams, q # s PROVE StreamInv(q)'
    BY <2>1, <2>3, <2>5, StreamLeftAlone DEF CaptureInv, StreamsOK
  <2> QED BY <2>2, <2>4, <2>5 DEF CaptureInv
<1>5. CASE Cancel \/ Expire \/ UNCHANGED vars
  <2>1. UNCHANGED <<at, streams, holds>>
    BY <1>5 DEF Cancel, Expire, vars, streams
  <2> QED BY <1>1, <2>1 DEF CaptureInv, StreamsOK
<1> QED BY <1>2, <1>3, <1>4, <1>5

\* For every capacity of the capture and of the pipe: what execute returns has
\* the whole of each stream, or its first and its last bytes (read_bounded and
\* join_capture).
THEOREM CaptureIsExact == Spec => []CaptureExact
<1>1. ASSUME Init PROVE CaptureInv
  <2>1. StreamsOK /\ at = "admit" /\ \A s \in Streams : /\ seen[s] = 0 /\ written[s] = 0
                                                       /\ reader[s] = "none"
                                                       /\ head[s] = <<>> /\ tail[s] = <<>>
    BY <1>1 DEF Init, StreamsOK
  <2>2. KeptOf(0) = [head |-> <<>>, tail |-> <<>>]
    BY Halves, NoBytes DEF KeptOf, HeadLength, TailLength
  <2> QED BY <2>1, <2>2 DEF CaptureInv, StreamInv
<1>2. CaptureInv /\ [Next]_vars => CaptureInv'
  BY CallerKeepsCapture, ReaderKeepsCapture, OthersKeepCapture DEF Next
<1>3. ASSUME CaptureInv PROVE CaptureExact
  <2>1. ASSUME at = "returned", NEW s \in Streams PROVE Exact(s) /\ written[s] \in Nat
    BY <1>3, <2>1 DEF CaptureInv, StreamInv, StreamsOK
  <2>2. \A n \in Nat : Bytes(0, n) = [i \in 1 .. n |-> i]
    BY DEF Bytes
  <2> QED BY <2>1, <2>2 DEF CaptureExact, Exact
<1> QED BY <1>1, <1>2, <1>3, PTL DEF Spec
=============================================================================
