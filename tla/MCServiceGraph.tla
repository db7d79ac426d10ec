--------------------------- MODULE MCServiceGraph ---------------------------
(* Instances of ServiceGraph for TLC.                                       *)
EXTENDS ServiceGraph

CONSTANTS call1, call2, call3, canceller, stopper, x, y

\* What each connection asks for: two calls share the id x, the third call
\* has an id of its own, the cancellation names x.
MCIds == {x, y}
MCKind == [w \in Workers |->
              CASE w = canceller -> "cancel"
                [] w = stopper   -> "shutdown"
                [] OTHER         -> "call"]
MCIdOf == [w \in Workers |-> IF w \in {call1, call2} THEN x ELSE y]
MCTarget == [w \in Workers |-> x]
=============================================================================
