--------------------------- MODULE ManagedProcess ---------------------------
(***************************************************************************)
(* Callers of one optional provider (crates/ts-provider, ManagedProcess):  *)
(* each call asks the shared circuit, spawns the provider's program, polls *)
(* it until it exits or the deadline passes, collects its output from the  *)
(* two reader threads and reports to the circuit.                          *)
(*                                                                         *)
(* A reader thread hands its bytes over when every process that holds the  *)
(* pipe has closed it: the program, and any process it has left behind.    *)
(***************************************************************************)
EXTENDS CircuitBreaker, FiniteSets

CONSTANTS
    Callers,    \* threads that call the provider, one call at a time each
    Lingering   \* those whose program leaves a process that keeps its pipes

ASSUME ManagedProcessAssumption == Lingering \subseteq Callers

VARIABLES
    pc,         \* where each caller is in ManagedProcess::run
    child,      \* its program
    expired,    \* its deadline has passed
    outcome     \* what permit refused or run_process returned, until used

processVars == <<pc, child, expired, outcome>>
vars == <<circuitVars, processVars>>

Outcomes == {"none", "ok", "failed", "timeout", "open"}

TypeOK ==
    /\ CircuitTypeOK
    /\ pc \in [Callers -> {"idle", "spawn", "wait", "collect", "report"}]
    /\ child \in [Callers -> {"none", "running", "succeeded", "failed"}]
    /\ expired \in [Callers -> BOOLEAN]
    /\ outcome \in [Callers -> Outcomes]

Init ==
    /\ CircuitInit
    /\ pc = [c \in Callers |-> "idle"]
    /\ child = [c \in Callers |-> "none"]
    /\ expired = [c \in Callers |-> FALSE]
    /\ outcome = [c \in Callers |-> "none"]

-----------------------------------------------------------------------------
(* ManagedProcess::run.                                                     *)

Goto(c, next) == pc' = [pc EXCEPT ![c] = next]

AskRefused(c) ==
    /\ pc[c] = "idle" /\ Refuse
    /\ outcome' = [outcome EXCEPT ![c] = "open"]
    /\ UNCHANGED <<pc, child, expired>>

AskPermitted(c) ==
    /\ pc[c] = "idle" /\ Permit
    /\ Goto(c, "spawn")
    /\ outcome' = [outcome EXCEPT ![c] = "none"]
    /\ UNCHANGED <<child, expired>>

\* run_process returns; nothing of the program is left to this process.
Return(c, result) ==
    /\ outcome' = [outcome EXCEPT ![c] = result]
    /\ child' = [child EXCEPT ![c] = "none"]
    /\ expired' = [expired EXCEPT ![c] = FALSE]
    /\ Goto(c, "report")

\* The reader and writer threads start with the program.
Spawn(c) ==
    /\ pc[c] = "spawn"
    /\ \/ Return(c, "failed")
       \/ /\ child' = [child EXCEPT ![c] = "running"]
          /\ Goto(c, "wait")
          /\ UNCHANGED <<expired, outcome>>
    /\ UNCHANGED circuitVars

\* Mutant: the deadline is not looked at.
PatientPoll(c) ==
    /\ pc[c] = "wait"
    /\ child[c] \in {"succeeded", "failed"}
    /\ Goto(c, "collect")
    /\ UNCHANGED <<circuitVars, child, expired, outcome>>

\* Mutant: a program past its deadline is left running.
UnkilledPoll(c) ==
    /\ pc[c] = "wait"
    /\ \/ /\ child[c] \in {"succeeded", "failed"}
          /\ Goto(c, "collect")
          /\ UNCHANGED <<child, expired, outcome>>
       \/ /\ child[c] = "running" /\ expired[c]
          /\ outcome' = [outcome EXCEPT ![c] = "timeout"]
          /\ Goto(c, "report")
          /\ UNCHANGED <<child, expired>>
    /\ UNCHANGED circuitVars

\* An exit is noticed before the deadline is looked at; kill and wait end a
\* program that has passed it.  try_wait fails only for a program that the
\* system has already reaped.
Poll(c) ==
    /\ pc[c] = "wait"
    /\ \/ /\ child[c] \in {"succeeded", "failed"}
          /\ Goto(c, "collect")
          /\ UNCHANGED <<child, expired, outcome>>
       \/ /\ child[c] \in {"succeeded", "failed"}
          /\ Return(c, "failed")
       \/ /\ child[c] = "running" /\ expired[c]
          /\ Return(c, "timeout")
    /\ UNCHANGED circuitVars

\* receive_bytes waits for both readers, without a deadline: for ever, when a
\* process left behind keeps a pipe open.  The output of a program that
\* succeeded may still be too large or unreadable.
Collect(c) ==
    /\ pc[c] = "collect"
    /\ \/ Return(c, "failed")
       \/ Return(c, "ok") /\ child[c] = "succeeded"
    /\ UNCHANGED circuitVars

\* Only Ok is a success to the circuit.
Report(c) ==
    /\ pc[c] = "report"
    /\ IF outcome[c] = "ok" THEN Success ELSE Failure
    /\ outcome' = [outcome EXCEPT ![c] = "none"]
    /\ Goto(c, "idle")
    /\ UNCHANGED <<child, expired>>

-----------------------------------------------------------------------------
(* The program and the clock.                                               *)

Exit(c) ==
    /\ child[c] = "running"
    /\ \E status \in {"succeeded", "failed"} : child' = [child EXCEPT ![c] = status]
    /\ UNCHANGED <<circuitVars, pc, expired, outcome>>

Expire(c) ==
    /\ pc[c] = "wait" /\ ~expired[c]
    /\ expired' = [expired EXCEPT ![c] = TRUE]
    /\ UNCHANGED <<circuitVars, pc, child, outcome>>

Tick == TimePasses /\ UNCHANGED processVars

Proceed(c) == Spawn(c) \/ Poll(c) \/ Report(c)

Next == \/ Tick
        \/ \E c \in Callers : \/ AskRefused(c) \/ AskPermitted(c) \/ Proceed(c)
                              \/ Collect(c) \/ Exit(c) \/ Expire(c)

\* Threads are scheduled, reader threads hand over what they have read, and
\* clocks advance.  A program need not exit, and nobody has to call.
Fairness == /\ WF_vars(Tick)
            /\ \A c \in Callers : /\ WF_vars(Proceed(c))
                                  /\ WF_vars(Expire(c))
            /\ \A c \in Callers \ Lingering : WF_vars(Collect(c))

Spec == Init /\ [][Next]_vars /\ Fairness
-----------------------------------------------------------------------------
(* Properties.                                                              *)

\* A call that has returned has left no program of its own running.
NoProgramLeftRunning ==
    \A c \in Callers : pc[c] \in {"idle", "spawn", "report"} => child[c] # "running"

\* A call whose program leaves nobody behind ends, though the program may
\* never exit.
EveryRunEnds == \A c \in Callers \ Lingering : pc[c] = "wait" ~> pc[c] = "idle"

\* While requests keep coming, an open circuit closes again: failures that
\* are still on their way may prolong the cooldown, refusals do not.
Demand == \A c \in Callers \ Lingering : WF_vars(AskPermitted(c))

CircuitRecovers == Demand => (circuit = "open" ~> circuit = "closed")
=============================================================================
