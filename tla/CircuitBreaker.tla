--------------------------- MODULE CircuitBreaker ---------------------------
(***************************************************************************)
(* The failure circuit that the clones of an optional provider share       *)
(* (crates/ts-provider, CircuitBreaker).  Each method holds the mutex for  *)
(* its whole body, so each is one step; what matters is in which order the *)
(* calls of several threads report to it.                                  *)
(***************************************************************************)
EXTENDS Naturals

CONSTANTS
    Threshold,  \* consecutive failures that open the circuit
    Cooldown    \* how long it stays open, in units of the model's clock

\* CircuitBreaker::new makes the threshold at least one; a cooldown of zero is
\* a circuit that never refuses.
ASSUME CircuitAssumption == Threshold \in Nat \ {0} /\ Cooldown \in Nat

VARIABLES
    failures,   \* consecutive_failures
    circuit,    \* "open" when opened_at is set
    age         \* opened_at.elapsed(), up to Cooldown

circuitVars == <<failures, circuit, age>>

CircuitTypeOK == /\ failures \in Nat
                 /\ circuit \in {"closed", "open"}
                 /\ age \in 0 .. Cooldown

CircuitInit == /\ failures = 0
               /\ circuit = "closed"
               /\ age = 0

Refusing == circuit = "open" /\ age < Cooldown

Reset == /\ failures' = 0
         /\ circuit' = "closed"
         /\ age' = 0

\* Mutant: refused calls count as failures and open the circuit anew.
RefusalReopens == /\ Refusing
                  /\ age' = 0
                  /\ UNCHANGED <<failures, circuit>>

\* permit returns CircuitOpen.
Refuse == Refusing /\ UNCHANGED circuitVars

\* permit lets the call through; after a cooldown it starts counting afresh.
Permit == /\ ~Refusing
          /\ IF circuit = "open" THEN Reset ELSE UNCHANGED circuitVars

Success == Reset

Opens(count) == count >= Threshold

Failure == /\ failures' = failures + 1
           /\ IF Opens(failures + 1) THEN circuit' = "open" /\ age' = 0
                                     ELSE UNCHANGED <<circuit, age>>

TimePasses == /\ Refusing
              /\ age' = age + 1
              /\ UNCHANGED <<failures, circuit>>

-----------------------------------------------------------------------------
(* Properties.                                                              *)

\* However the reports of concurrent calls interleave, a closed circuit has
\* counted fewer failures than open it, and an open one at least as many.
OpenAtThreshold == circuit = "open" <=> failures >= Threshold
=============================================================================
