----------------------------- MODULE Execution -----------------------------
(***************************************************************************)
(* ExecutionEngine::execute (crates/ts-exec): a program in a process group *)
(* of its own, a reader thread on each pipe that keeps a bounded head and  *)
(* tail, and the caller that polls for exit, cancellation and timeout,     *)
(* kills the group and joins the readers.                                  *)
(*                                                                         *)
(* The program may start a process in its group and one that leaves it;    *)
(* either may keep the pipes open.  Byte i of a stream is the number i.    *)
(***************************************************************************)
EXTENDS Naturals, Sequences, Functions, TLC

CONSTANTS
    Cap,        \* max_output_bytes_per_stream
    MaxBytes,   \* bound: bytes written to a stream
    PipeSize    \* bytes the kernel holds for a reader

ASSUME ExecutionAssumption ==
    Cap \in Nat \ {0} /\ MaxBytes \in Nat /\ PipeSize \in Nat \ {0}

VARIABLES
    at,         \* where the caller is in execute
    reason,     \* the TerminationReason, once known
    cancelled,  \* the caller's cancellation flag
    late,       \* whether the timeout has passed
    killer,     \* whether the kill program can be run
    alive,      \* the processes that run
    holds,      \* the streams each process keeps open
    written,    \* bytes written to each stream
    reader,     \* where each reader thread is
    seen,       \* total_bytes of each reader
    head, tail  \* what each reader keeps

vars == <<at, reason, cancelled, late, killer, alive, holds, written, reader,
          seen, head, tail>>

Streams == {"stdout", "stderr"}

\* The program, a process it starts in its group, one that leaves the group.
Processes == {"program", "member", "escaped"}
Group == {"program", "member"}

Init ==
    /\ at = "admit"
    /\ reason = "none"
    /\ cancelled \in BOOLEAN
    /\ late = FALSE
    /\ killer \in BOOLEAN
    /\ alive = {}
    /\ holds = [p \in Processes |-> {}]
    /\ written = [s \in Streams |-> 0]
    /\ reader = [s \in Streams |-> "none"]
    /\ seen = [s \in Streams |-> 0]
    /\ head = [s \in Streams |-> <<>>]
    /\ tail = [s \in Streams |-> <<>>]

streams == <<written, reader, seen, head, tail>>
inputs == <<cancelled, late, killer>>

-----------------------------------------------------------------------------
(* Admission.                                                               *)

\* The policy the public execute tool makes for a request: its program, its
\* directory, its variables and five more, two hidden.
PublicPolicy(request) ==
    [allowed |-> {request.program}, denied |-> {}, roots |-> {request.root},
     inherited |-> DOMAIN request.environment \cup {"PATH", "HOME"},
     hidden |-> {"LD_PRELOAD"}]

\* admit, on canonical paths: an allowed program that is not denied, a
\* directory under a root, no variable that is hidden or not inherited.
Admits(policy, request) ==
    /\ request.program \in policy.allowed \ policy.denied
    /\ request.root \in policy.roots
    /\ DOMAIN request.environment \subseteq policy.inherited \ policy.hidden

\* The environment of an admitted program: what it inherits of the caller's,
\* overridden by what is requested.
Environment(policy, request, callers) ==
    request.environment @@
    Restrict(callers, DOMAIN callers \cap (policy.inherited \ policy.hidden))

\* Refused by the policy, a zero timeout, or a program that does not start.
Refuse ==
    /\ at = "admit"
    /\ at' = "failed"
    /\ UNCHANGED <<reason, inputs, alive, holds, streams>>

Spawn ==
    /\ at = "admit"
    /\ at' = "poll"
    /\ alive' = {"program"}
    /\ holds' = [holds EXCEPT !["program"] = Streams]
    /\ reader' = [s \in Streams |-> "reading"]
    /\ UNCHANGED <<reason, inputs, written, seen, head, tail>>

-----------------------------------------------------------------------------
(* The caller: wait_for_exit, and the joins.                                *)

\* try_wait.
Poll ==
    /\ at = "poll"
    /\ IF "program" \in alive THEN at' = "check" /\ UNCHANGED reason
                              ELSE at' = "join" /\ reason' = "completed"
    /\ UNCHANGED <<inputs, alive, holds, streams>>

\* An I/O error of try_wait or wait ends execute and leaves the program as it
\* is.
WaitFails ==
    /\ at \in {"poll", "reap"}
    /\ at' = "failed"
    /\ UNCHANGED <<reason, inputs, alive, holds, streams>>

\* Cancellation comes before the timeout; otherwise the caller sleeps.
Check ==
    /\ at = "check"
    /\ reason' = IF cancelled THEN "cancelled" ELSE IF late THEN "timed out" ELSE "none"
    /\ at' = IF reason' = "none" THEN "poll" ELSE "kill group"
    /\ UNCHANGED <<inputs, alive, holds, streams>>

Killed(ps) == /\ alive' = alive \ ps
              /\ holds' = [p \in Processes |-> IF p \in ps THEN {} ELSE holds[p]]

\* Mutant: the program alone is killed.
ProgramOnly == {"program"}

\* terminate_process_tree: the kill program, when there is one, on the group...
KillTargets == IF killer THEN Group ELSE {}

KillGroup ==
    /\ at = "kill group"
    /\ at' = "kill program"
    /\ Killed(KillTargets)
    /\ UNCHANGED <<reason, inputs, streams>>

\* ... then the child itself.
KillProgram ==
    /\ at = "kill program"
    /\ at' = "reap"
    /\ Killed({"program"})
    /\ UNCHANGED <<reason, inputs, streams>>

Reap ==
    /\ at = "reap"
    /\ "program" \notin alive
    /\ at' = "join"
    /\ UNCHANGED <<reason, inputs, alive, holds, streams>>

\* join_capture, of stdout and then stderr: a reader that failed ends execute
\* at once.
Join ==
    /\ at = "join"
    /\ reader["stdout"] # "reading"
    /\ \/ /\ reader["stdout"] = "failed" \/ reader["stderr"] = "failed"
          /\ at' = "failed"
       \/ /\ \A s \in Streams : reader[s] = "done"
          /\ at' = "returned"
    /\ UNCHANGED <<reason, inputs, alive, holds, streams>>

-----------------------------------------------------------------------------
(* The readers: read_bounded.                                               *)

HeadCap == (Cap + 1) \div 2
TailCap == Cap \div 2

\* Mutant: the tail keeps its oldest bytes.
KeptFirst(kept, byte) ==
    IF Len(kept.head) < HeadCap THEN [kept EXCEPT !.head = Append(@, byte)]
    ELSE IF Len(kept.tail) < TailCap THEN [kept EXCEPT !.tail = Append(@, byte)]
    ELSE kept

\* A byte goes to the head, and when that is full to the ring of the tail.
Kept(kept, byte) ==
    IF Len(kept.head) < HeadCap THEN [kept EXCEPT !.head = Append(@, byte)]
    ELSE IF TailCap = 0 THEN kept
    ELSE [kept EXCEPT !.tail =
             Append(IF Len(@) = TailCap THEN Tail(@) ELSE @, byte)]

\* A byte of what a read has returned.  A read of several bytes is as many
\* steps: nobody but this thread sees its buffer.
Read(s) ==
    /\ reader[s] = "reading"
    /\ seen[s] < written[s]
    /\ LET kept == Kept([head |-> head[s], tail |-> tail[s]], seen[s] + 1)
       IN  /\ head' = [head EXCEPT ![s] = kept.head]
           /\ tail' = [tail EXCEPT ![s] = kept.tail]
    /\ seen' = [seen EXCEPT ![s] = @ + 1]
    /\ UNCHANGED <<at, reason, inputs, alive, holds, written, reader>>

Truncated(s) == seen[s] > Cap

\* End of file: nobody holds the pipe and it is empty.  What is not truncated
\* is joined in the head.
EndOfFile(s) ==
    /\ reader[s] = "reading"
    /\ seen[s] = written[s]
    /\ \A p \in Processes : s \notin holds[p]
    /\ reader' = [reader EXCEPT ![s] = "done"]
    /\ IF Truncated(s)
       THEN UNCHANGED <<head, tail>>
       ELSE /\ head' = [head EXCEPT ![s] = @ \o tail[s]]
            /\ tail' = [tail EXCEPT ![s] = <<>>]
    /\ UNCHANGED <<at, reason, inputs, alive, holds, written, seen>>

ReadFails(s) ==
    /\ reader[s] = "reading"
    /\ reader' = [reader EXCEPT ![s] = "failed"]
    /\ UNCHANGED <<at, reason, inputs, alive, holds, written, seen, head, tail>>

-----------------------------------------------------------------------------
(* The program, its descendants and the world.                              *)

\* A running process of the tree starts another one, which shares its pipes
\* or not.
Fork(p, child) ==
    /\ p \in alive
    /\ child \notin alive
    /\ at \notin {"returned", "failed"}
    /\ child # "program" /\ (child = "member" => p \in Group)
    /\ alive' = alive \cup {child}
    /\ \E inherited \in {{}, holds[p]} : holds' = [holds EXCEPT ![child] = inherited]
    /\ UNCHANGED <<at, reason, inputs, streams>>

Write(p, s) ==
    /\ s \in holds[p]
    /\ written[s] < MaxBytes
    /\ written[s] - seen[s] < PipeSize
    /\ written' = [written EXCEPT ![s] = @ + 1]
    /\ UNCHANGED <<at, reason, inputs, alive, holds, reader, seen, head, tail>>

Exit(p) ==
    /\ p \in alive
    /\ Killed({p})
    /\ UNCHANGED <<at, reason, inputs, streams>>

Cancel ==
    /\ ~cancelled
    /\ cancelled' = TRUE
    /\ UNCHANGED <<at, reason, late, killer, alive, holds, streams>>

Expire ==
    /\ ~late /\ at # "admit"
    /\ late' = TRUE
    /\ UNCHANGED <<at, reason, cancelled, killer, alive, holds, streams>>

Caller == \/ Refuse \/ Spawn \/ Poll \/ WaitFails \/ Check \/ KillGroup
          \/ KillProgram \/ Reap \/ Join

Next ==
    \/ Caller
    \/ \E s \in Streams : Read(s) \/ EndOfFile(s) \/ ReadFails(s)
    \/ \E p \in Processes : \/ Exit(p)
                            \/ \E child \in Processes : Fork(p, child)
                            \/ \E s \in Streams : Write(p, s)
    \/ Cancel
    \/ Expire

\* The caller and the readers are threads the system runs; nothing is assumed
\* of the programs.
Spec == /\ Init /\ [][Next]_vars
        /\ WF_vars(Caller)
        /\ \A s \in Streams : WF_vars(Read(s) \/ EndOfFile(s))

-----------------------------------------------------------------------------
(* Properties.                                                              *)

\* However writes and reads interleave, and whoever of the tree wrote, the
\* result has every byte of a stream that fits and otherwise exactly its first
\* and its last bytes, with the right count: nothing that was written is missed
\* by a reader that is joined.
CaptureExact ==
    at = "returned" =>
        \A s \in Streams :
            LET all == [i \in 1 .. written[s] |-> i]
            IN  /\ seen[s] = written[s]
                /\ IF Truncated(s)
                   THEN /\ head[s] = SubSeq(all, 1, HeadCap)
                        /\ tail[s] = SubSeq(all, Len(all) - TailCap + 1, Len(all))
                   ELSE head[s] = all /\ tail[s] = <<>>

\* A run that was cancelled or timed out leaves no process of the group
\* behind, not even one started while it was being stopped, as long as the
\* kill program can be run.
StoppedTreeIsGone ==
    reason \in {"cancelled", "timed out"} /\ at \in {"join", "returned"} =>
        IF killer THEN alive \cap Group = {} ELSE "program" \notin alive

\* A caller that is told to stop, or runs out of time, while it waits for the
\* program returns, unless a process that left the group, that completed runs
\* leave behind, or that could not be killed keeps a pipe open.
StopEnds ==
    (at \in {"poll", "check"} /\ (cancelled \/ late)) ~>
        \/ at \in {"returned", "failed"}
        \/ \E p \in alive : /\ holds[p] # {}
                            /\ p = "escaped" \/ reason = "completed" \/ ~killer

\* What the public execute tool runs never has a hidden variable, has every
\* requested variable with the requested value, and nothing else of the
\* caller's environment than the variables the tool names.
ToolEnvironment ==
    \A request \in [program : {"p"}, root : {"r"},
                    environment : UNION {[keys -> {"asked"}] :
                        keys \in SUBSET {"PATH", "LD_PRELOAD", "OTHER"}}] :
        LET policy == PublicPolicy(request)
            callers == [key \in {"PATH", "HOME", "LD_PRELOAD", "SECRET"} |-> "own"]
        IN  Admits(policy, request) =>
              LET given == Environment(policy, request, callers)
              IN  /\ DOMAIN given = DOMAIN request.environment \cup {"PATH", "HOME"}
                  /\ "LD_PRELOAD" \notin DOMAIN given
                  /\ \A key \in DOMAIN given :
                        given[key] = IF key \in DOMAIN request.environment
                                     THEN "asked" ELSE "own"
=============================================================================
