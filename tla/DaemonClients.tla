---------------------------- MODULE DaemonClients ----------------------------
(***************************************************************************)
(* The daemon processes of DaemonInstance together with the programs that  *)
(* find them through daemon.json: the CLI's start and stop commands        *)
(* (crates/ts-cli) and the SDK's DaemonTransport (packages/sdk).           *)
(*                                                                         *)
(* A discovery record is named by the daemon that wrote it; so is the      *)
(* authentication token in it.  All daemons of a directory share one       *)
(* socket path, so a client may reach another daemon than the one whose    *)
(* record it read.                                                         *)
(***************************************************************************)
EXTENDS DaemonInstance

CONSTANTS
    Starters,   \* token-shrinker start
    Stoppers,   \* token-shrinker stop
    Sdks,       \* DaemonTransport instances
    Calls       \* bound on the calls each transport makes

ASSUME DaemonClientsAssumption ==
    /\ Stoppers \cap Sdks = {}
    /\ Calls \in Nat

VARIABLES
    starter,    \* the state of each start command, and finally its answer
    stopper,    \* the same for each stop command
    sdk,        \* the state of each transport's current call
    attempt,    \* its first or second try
    calls,      \* the calls each transport has begun
    record,     \* the record each stop command or transport read (#discovery)
    peer        \* the daemon at the other end of its connection

Callers == Stoppers \cup Sdks
clientVars == <<starter, stopper, sdk, attempt, calls, record, peer>>
vars == <<daemonVars, clientVars>>

ClientTypeOK ==
    /\ starter \in [Starters -> {"idle", "polling", "already", "started", "not-ready"}]
    /\ stopper \in [Stoppers -> {"idle", "loaded", "sent", "stopped", "rejected",
                                 "unreachable", "no-record"}]
    /\ sdk \in [Sdks -> {"idle", "load", "loaded", "sent", "closed",
                         "ok", "rejected", "failed"}]
    /\ attempt \in [Sdks -> 1 .. 2]
    /\ calls \in [Sdks -> 0 .. Calls]
    /\ record \in [Callers -> Daemons \cup {None}]
    /\ peer \in [Callers -> Daemons \cup {None}]

TypesOK == TypeOK /\ ClientTypeOK

ClientsInit ==
    /\ Init
    /\ starter = [s \in Starters |-> "idle"]
    /\ stopper = [t \in Stoppers |-> "idle"]
    /\ sdk = [k \in Sdks |-> "idle"]
    /\ attempt = [k \in Sdks |-> 1]
    /\ calls = [k \in Sdks |-> 0]
    /\ record = [c \in Callers |-> None]
    /\ peer = [c \in Callers |-> None]

-----------------------------------------------------------------------------
(* Connections.                                                             *)

\* A connection reaches whoever has its listener open on the path; it queues
\* until that daemon accepts it.
Reachable(d) == socket = d /\ stage[d] \in ListeningStages
Unreachable == \A d \in Daemons : ~Reachable(d)

\* Once it serves, a daemon answers what it accepted until the process ends.
Answering(d) == stage[d] \in {"serving", "draining", "unlinked", "removed"}

\* A connection not accepted before the listener is dropped is reset, and one
\* whose process ended is reset or closed.
Abandoned(c) == stage[peer[c]] \notin ListeningStages

\* RpcRequest::validate compares the record's token with the daemon's own.
TokenMatches(c) == record[c] = peer[c]

-----------------------------------------------------------------------------
(* token-shrinker start.                                                    *)

\* Any readable record means "alreadyRunning".
StartFindsRecord(s) ==
    /\ starter[s] = "idle" /\ discovery # None
    /\ starter' = [starter EXCEPT ![s] = "already"]
    /\ UNCHANGED <<daemonVars, stopper, sdk, attempt, calls, record, peer>>

\* No record: spawn a daemon and poll for one.
StartSpawns(s) ==
    /\ starter[s] = "idle" /\ discovery = None
    /\ \E d \in Daemons : Spawn(d)
    /\ starter' = [starter EXCEPT ![s] = "polling"]
    /\ UNCHANGED <<stopper, sdk, attempt, calls, record, peer>>

\* A poll finds a record; or fifty polls, one second, did not.
StartPolls(s) ==
    /\ starter[s] = "polling"
    /\ starter' = [starter EXCEPT ![s] = IF discovery # None THEN "started"
                                                             ELSE "not-ready"]
    /\ UNCHANGED <<daemonVars, stopper, sdk, attempt, calls, record, peer>>

-----------------------------------------------------------------------------
(* token-shrinker stop.                                                     *)

StopLoads(t) ==
    /\ stopper[t] = "idle"
    /\ record' = [record EXCEPT ![t] = discovery]
    /\ stopper' = [stopper EXCEPT ![t] = IF discovery = None THEN "no-record"
                                                             ELSE "loaded"]
    /\ UNCHANGED <<daemonVars, starter, sdk, attempt, calls, peer>>

StopConnects(t) ==
    /\ stopper[t] = "loaded"
    /\ \/ /\ Unreachable
          /\ stopper' = [stopper EXCEPT ![t] = "unreachable"]
          /\ UNCHANGED peer
       \/ \E d \in Daemons :
             /\ Reachable(d)
             /\ peer' = [peer EXCEPT ![t] = d]
             /\ stopper' = [stopper EXCEPT ![t] = "sent"]
    /\ UNCHANGED <<daemonVars, starter, sdk, attempt, calls, record>>

\* handle_connection rejects a wrong token, else begins the shutdown (again)
\* and answers.
StopAnswered(t) ==
    /\ stopper[t] = "sent" /\ Answering(peer[t])
    /\ \/ /\ TokenMatches(t)
          /\ \/ BeginShutdown(peer[t])
             \/ stage[peer[t]] # "serving" /\ UNCHANGED daemonVars
          /\ stopper' = [stopper EXCEPT ![t] = "stopped"]
       \/ /\ ~TokenMatches(t)
          /\ stopper' = [stopper EXCEPT ![t] = "rejected"]
          /\ UNCHANGED daemonVars
    /\ UNCHANGED <<starter, sdk, attempt, calls, record, peer>>

StopCutOff(t) ==
    /\ stopper[t] = "sent" /\ Abandoned(t)
    /\ stopper' = [stopper EXCEPT ![t] = "unreachable"]
    /\ UNCHANGED <<daemonVars, starter, sdk, attempt, calls, record, peer>>

-----------------------------------------------------------------------------
(* DaemonTransport, one call at a time.                                     *)

SdkGoes(k, next) == sdk' = [sdk EXCEPT ![k] = next]

\* call, as the first one or after an earlier one ended.
SdkCalls(k) ==
    /\ sdk[k] \in {"idle", "ok", "rejected", "failed"}
    /\ calls[k] < Calls
    /\ calls' = [calls EXCEPT ![k] = @ + 1]
    /\ attempt' = [attempt EXCEPT ![k] = 1]
    /\ SdkGoes(k, "load")
    /\ UNCHANGED <<daemonVars, starter, stopper, record, peer>>

\* The catch clause: an untyped failure of the first try drops the record and
\* tries once more; one of the second reaches the caller.
FailsOrRetries(k) ==
    \/ /\ attempt[k] = 1
       /\ attempt' = [attempt EXCEPT ![k] = 2]
       /\ record' = [record EXCEPT ![k] = None]
       /\ SdkGoes(k, "load")
    \/ /\ attempt[k] = 2
       /\ SdkGoes(k, "failed")
       /\ UNCHANGED <<attempt, record>>

\* #loadDiscovery: the record kept from an earlier call, else the file's.
SdkLoads(k) ==
    /\ sdk[k] = "load"
    /\ \/ /\ record[k] # None
          /\ SdkGoes(k, "loaded")
          /\ UNCHANGED <<attempt, record>>
       \/ /\ record[k] = None /\ discovery # None
          /\ record' = [record EXCEPT ![k] = discovery]
          /\ SdkGoes(k, "loaded")
          /\ UNCHANGED attempt
       \/ /\ record[k] = None /\ discovery = None
          /\ FailsOrRetries(k)
    /\ UNCHANGED <<daemonVars, starter, stopper, calls, peer>>

SdkConnects(k) ==
    /\ sdk[k] = "loaded"
    /\ \/ /\ Unreachable
          /\ FailsOrRetries(k)
          /\ UNCHANGED peer
       \/ \E d \in Daemons :
             /\ Reachable(d)
             /\ peer' = [peer EXCEPT ![k] = d]
             /\ SdkGoes(k, "sent")
             /\ UNCHANGED <<attempt, record>>
    /\ UNCHANGED <<daemonVars, starter, stopper, calls>>

\* A rejection is a TokenShrinkerRemoteError, which is rethrown at once: the
\* record is kept for the next call.
SdkAnswered(k) ==
    /\ sdk[k] = "sent" /\ Answering(peer[k])
    /\ SdkGoes(k, IF TokenMatches(k) THEN "ok" ELSE "rejected")
    /\ UNCHANGED <<daemonVars, starter, stopper, attempt, calls, record, peer>>

\* A reset is a "connection" error; an orderly close raises no event that
\* framedCall listens to.
SdkCutOff(k) ==
    /\ sdk[k] = "sent" /\ Abandoned(k)
    /\ \/ FailsOrRetries(k)
       \/ SdkGoes(k, "closed") /\ UNCHANGED <<attempt, record>>
    /\ UNCHANGED <<daemonVars, starter, stopper, calls, peer>>

\* The timer of the call, or its abort signal: typed errors, no retry.
SdkTimesOut(k) ==
    /\ sdk[k] \in {"sent", "closed"}
    /\ SdkGoes(k, "failed")
    /\ UNCHANGED <<daemonVars, starter, stopper, attempt, calls, record, peer>>

\* close forgets the record.
SdkCloses(k) ==
    /\ sdk[k] \in {"ok", "rejected", "failed"} /\ record[k] # None
    /\ record' = [record EXCEPT ![k] = None]
    /\ SdkGoes(k, "idle")
    /\ UNCHANGED <<daemonVars, starter, stopper, attempt, calls, peer>>

-----------------------------------------------------------------------------
StopProceeds(t) == StopConnects(t) \/ StopAnswered(t) \/ StopCutOff(t)

SdkProceeds(k) == \/ SdkLoads(k) \/ SdkConnects(k) \/ SdkAnswered(k)
                  \/ SdkCutOff(k) \/ SdkTimesOut(k)

\* token-shrinker start --foreground, and a listener whose accept failed.
Environment == \E d \in Daemons : Spawn(d) \/ BeginShutdown(d)

Next == \/ (Environment \/ DaemonNext) /\ UNCHANGED clientVars
        \/ \E s \in Starters : \/ StartFindsRecord(s) \/ StartSpawns(s)
                               \/ StartPolls(s)
        \/ \E t \in Stoppers : StopLoads(t) \/ StopProceeds(t)
        \/ \E k \in Sdks : SdkCalls(k) \/ SdkProceeds(k) \/ SdkCloses(k)

\* Processes and event loops are scheduled; nobody has to start, stop, call,
\* fail or crash.
Fairness == /\ \A d \in Daemons : WF_vars(Step(d) /\ UNCHANGED clientVars)
            /\ \A t \in Stoppers : WF_vars(StopProceeds(t))
            /\ \A k \in Sdks : WF_vars(SdkProceeds(k))

SafeSpec == ClientsInit /\ [][Next]_vars
Spec == SafeSpec /\ Fairness

-----------------------------------------------------------------------------
(* Properties of clients and daemons together.                              *)

\* A client that reaches another daemon than the one whose record it read, to be
\* refused there, does so only when the one it looked up has ended: one that
\* still starts, serves, drains or takes its record down is never hidden behind
\* a successor's listener, however old the record is that a command has read or
\* a transport has kept (DaemonHandle::start, wait and drop; #loadDiscovery).
RefusedOnlyIfReplaced ==
    /\ \A t \in Stoppers :
          stopper[t] \in {"sent", "rejected"} /\ record[t] # peer[t] =>
              stage[record[t]] = "gone"
    /\ \A k \in Sdks :
          sdk[k] \in {"sent", "rejected"} /\ record[k] # peer[k] =>
              stage[record[k]] = "gone"

\* A daemon that told a stop command it was shutting down does end, however
\* many commands asked it and whatever it is doing.
StopTakesEffect ==
    \A t \in Stoppers, d \in Daemons :
        stopper[t] = "stopped" /\ record[t] = d ~> stage[d] = "gone"

\* Every call of a transport ends, whatever becomes of the daemon.
EveryCallEnds ==
    \A k \in Sdks : sdk[k] = "load" ~> sdk[k] \in {"ok", "rejected", "failed"}
=============================================================================
