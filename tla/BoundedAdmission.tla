-------------------------- MODULE BoundedAdmission --------------------------
(***************************************************************************)
(* What the daemon's request gate promises to its callers, without the     *)
(* mutex, the condition variable or the cancellation table: a request is   *)
(* pending, then running, then ended; at most Maximum run at once; and     *)
(* once the gate is closed nothing starts any more.                        *)
(***************************************************************************)
EXTENDS Naturals, FiniteSets

CONSTANTS
    Requests,   \* the requests clients may ever send, finitely many
    Maximum     \* RequestGate.maximum, a positive number

VARIABLES
    status,     \* [Requests -> {"pending", "running", "ended"}]
    closed      \* shutdown was requested

vars == <<status, closed>>

Running == {r \in Requests : status[r] = "running"}

TypeOK == /\ status \in [Requests -> {"pending", "running", "ended"}]
          /\ closed \in BOOLEAN

Init == /\ status = [r \in Requests |-> "pending"]
        /\ closed = FALSE

\* A pending request takes one of the Maximum permits.
Start(r) == /\ status[r] = "pending"
            /\ ~closed
            /\ Cardinality(Running) < Maximum
            /\ status' = [status EXCEPT ![r] = "running"]
            /\ UNCHANGED closed

\* A running request gives its permit back.
Stop(r) == /\ status[r] = "running"
           /\ status' = [status EXCEPT ![r] = "ended"]
           /\ UNCHANGED closed

\* A request is answered without ever running.
Refuse(r) == /\ status[r] = "pending"
             /\ status' = [status EXCEPT ![r] = "ended"]
             /\ UNCHANGED closed

Close == /\ closed' = TRUE
         /\ UNCHANGED status

Next == \/ \E r \in Requests : Start(r) \/ Stop(r) \/ Refuse(r)
        \/ Close

Spec == Init /\ [][Next]_vars
=============================================================================
