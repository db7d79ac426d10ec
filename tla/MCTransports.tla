---------------------------- MODULE MCTransports ----------------------------
(***************************************************************************)
(* Calls from end to end under fair scheduling, for TLC: the               *)
(* DaemonTransport of packages/sdk against daemons that come and go, its   *)
(* StdioTransport under the VS Code extension, or the two ends of one      *)
(* connection of daemon_call.  They share nothing, so that a behaviour     *)
(* explores one of them and not their product.                             *)
(*                                                                         *)
(* On a connection messages are of one, two or four bytes, where a header  *)
(* holds lengths up to three: too long for a header, too long for one of   *)
(* the two ends, or right.  Tokens differ in their last byte and in their  *)
(* length, the two ways that constant_time_eq tells apart; versions and    *)
(* tokens are compared only, so that the daemon may always have the same.  *)
(***************************************************************************)
EXTENDS DaemonClients, SdkStdio, Connection, TLC

CONSTANT
    Explorable  \* what this run explores

VARIABLE explored   \* "daemon", "stdio" or "wire"

MCTokens == {<<1, 0>>, <<1, 1>>, <<1>>}

MCInit ==
    /\ explored \in Explorable
    /\ ClientsInit /\ SdkInit /\ WireInit
    /\ expected = [major |-> 1, token |-> <<1, 0>>]
    /\ explored # "wire" =>
          /\ maximum = [caller |-> Widest, daemon |-> Widest]
          /\ request = CHOOSE r \in Requests : TRUE

MCNext == /\ \/ explored = "daemon" /\ Next /\ UNCHANGED <<sdkVars, wireVars>>
             \/ explored = "stdio" /\ SdkNext /\ UNCHANGED <<vars, wireVars>>
             \/ explored = "wire" /\ WireNext /\ UNCHANGED <<vars, sdkVars>>
          /\ UNCHANGED explored

\* What is not explored stays in its first state, where it has no fair step.
MCSpec == /\ MCInit /\ [][MCNext]_<<vars, sdkVars, wireVars, explored>>
          /\ Fairness /\ SdkFairness /\ WireFairness

\* Every call of a transport ends, whatever becomes of the daemon or the server
\* it was sent to; the deactivation that closes a server ends unless a signal
\* had killed the server and its exit had been reported before; a call of
\* daemon_call ends unless the service never returns (DaemonTransport.call,
\* StdioTransport.#request and close, daemon_call).
CallsEnd == EveryCallEnds /\ CommandsEnd /\ DeactivationEnds /\ CallEnds
=============================================================================
