-------------------------- MODULE TransportsProofs --------------------------
(***************************************************************************)
(* Proofs about the two transports of packages/sdk and what is behind      *)
(* them, for every number of processes, commands and transports.           *)
(*                                                                         *)
(* DaemonClients: everything follows from the instance lock.  The          *)
(* processes past it, of which there is at most one, are exactly its       *)
(* owner, and only the owner ever writes or removes the socket file and    *)
(* the record.                                                             *)
(*                                                                         *)
(* SdkStdio: a server that runs has someone who will close it, the client  *)
(* or the command that connects it, unless it is known to be lost.         *)
(***************************************************************************)
EXTENDS DaemonClients, SdkStdio, TLAPS

\* The lock is held by exactly the process whose stage says so; with the
\* properties of DaemonInstance, strengthened by what a record left behind
\* says of its writer, this is inductive.
LockedByOwner == \A d \in Daemons : lock = d <=> stage[d] \in LockedStages

RecordWrittenByPublisher ==
    \A d \in Daemons :
        discovery = d => stage[d] \in PublishedStages \cup {"gone"}

DaemonInv == /\ TypeOK
             /\ LockedByOwner
             /\ ListenerReachable
             /\ RecordKept
             /\ RecordWrittenByPublisher

USE DEF Stages, LockedStages, ListeningStages, PublishedStages

-----------------------------------------------------------------------------
LEMMA DaemonInit == ClientsInit => DaemonInv
  BY DaemonInstanceAssumption
     DEF ClientsInit, Init, DaemonInv, TypeOK, LockedByOwner,
         ListenerReachable, RecordKept, RecordWrittenByPublisher

LEMMA DaemonStutter ==
    DaemonInv /\ UNCHANGED daemonVars => DaemonInv'
  BY DEF DaemonInv, TypeOK, LockedByOwner, ListenerReachable, RecordKept,
         RecordWrittenByPublisher, daemonVars

\* A process may only do to the files what the lock entitles it to.
LEMMA DaemonStep ==
    ASSUME DaemonInv, NEW d \in Daemons,
           Spawn(d) \/ Step(d) \/ Fail(d) \/ Crash(d) \/ BeginShutdown(d)
    PROVE  DaemonInv'
<1>. USE DaemonInstanceAssumption
     DEF DaemonInv, TypeOK, LockedByOwner, ListenerReachable, RecordKept,
         RecordWrittenByPublisher, Enter, ReleaseLock
<1>1. CASE Spawn(d)
  BY <1>1 DEF Spawn
<1>2. CASE TryLock(d)
  <2>1. CASE LockIsFree /\ lock' = d /\ Enter(d, "locked")
    BY <1>2, <2>1 DEF TryLock, LockIsFree
  <2>2. CASE ~LockIsFree /\ Enter(d, "gone") /\ UNCHANGED lock
    BY <1>2, <2>2 DEF TryLock
  <2>. QED BY <1>2, <2>1, <2>2 DEF TryLock
<1>3. CASE RemoveStale(d)
  BY <1>3 DEF RemoveStale
<1>4. CASE Bind(d)
  BY <1>4 DEF Bind
<1>5. CASE Publish(d)
  BY <1>5 DEF Publish
<1>6. CASE Serve(d)
  BY <1>6 DEF Serve
<1>7. CASE DropListener(d)
  BY <1>7 DEF DropListener
<1>8. CASE RemoveDiscovery(d)
  BY <1>8 DEF RemoveDiscovery
<1>9. CASE Unlock(d)
  BY <1>9 DEF Unlock
<1>10. CASE Fail(d)
  BY <1>10 DEF Fail
<1>11. CASE Crash(d)
  BY <1>11 DEF Crash, Alive
<1>12. CASE BeginShutdown(d)
  BY <1>12 DEF BeginShutdown
<1>. QED BY <1>1, <1>2, <1>3, <1>4, <1>5, <1>6, <1>7, <1>8, <1>9, <1>10,
            <1>11, <1>12 DEF Step

-----------------------------------------------------------------------------
\* A process that has published a record goes on to its end and never back.
Later == PublishedStages \cup {"removed", "gone"}

Onward ==
    \A d \in Daemons :
        /\ stage[d] = "gone" => stage'[d] = "gone"
        /\ stage[d] \in Later => stage'[d] \in Later

LEMMA StagesGoOnward ==
    ASSUME DaemonInv, NEW d \in Daemons,
           Spawn(d) \/ Step(d) \/ Fail(d) \/ Crash(d) \/ BeginShutdown(d)
    PROVE  Onward
<1>1. \A e \in Daemons : e # d => stage'[e] = stage[e]
  BY DEF DaemonInv, TypeOK, Enter, Spawn, Step, TryLock, RemoveStale, Bind,
         Publish, Serve, DropListener, RemoveDiscovery, Unlock, Fail, Crash,
         BeginShutdown
<1>2. /\ stage[d] = "gone" => stage'[d] = "gone"
      /\ stage[d] \in Later => stage'[d] \in Later
  BY DEF DaemonInv, TypeOK, Later, Alive, Enter, Spawn, Step, TryLock,
         RemoveStale, Bind, Publish, Serve, DropListener, RemoveDiscovery,
         Unlock, Fail, Crash, BeginShutdown
<1>. QED BY <1>1, <1>2 DEF Onward, Later

-----------------------------------------------------------------------------
\* A client that has connected has a record, and one that waits for an answer
\* waits for a daemon's.
AwaitsDaemon ==
    /\ \A t \in Stoppers :
          /\ stopper[t] \in {"loaded", "sent", "rejected"} => record[t] \in Daemons
          /\ stopper[t] = "sent" => peer[t] \in Daemons
    /\ \A k \in Sdks :
          /\ sdk[k] \in {"loaded", "sent", "rejected"} => record[k] \in Daemons
          /\ sdk[k] = "sent" => peer[k] \in Daemons

\* Whoever's record was read had published it, so that it has ended when
\* somebody else is past the lock.
RecordsWereWritten ==
    \A c \in Callers : record[c] # None => stage[record[c]] \in Later

ClientInv == /\ ClientTypeOK /\ AwaitsDaemon /\ RecordsWereWritten
             /\ RefusedOnlyIfReplaced

LEMMA ClientInit == ClientsInit => ClientInv
  BY DaemonClientsAssumption
     DEF ClientsInit, ClientInv, ClientTypeOK, AwaitsDaemon, RecordsWereWritten,
         RefusedOnlyIfReplaced, Callers

LEMMA ClientStutter == ClientInv /\ Onward /\ UNCHANGED clientVars => ClientInv'
<1>. SUFFICES ASSUME ClientInv, Onward, UNCHANGED clientVars
              PROVE  ClientInv'
  OBVIOUS
<1>1. ClientTypeOK' /\ AwaitsDaemon'
  BY DEF ClientInv, ClientTypeOK, AwaitsDaemon, clientVars
<1>2. RecordsWereWritten'
  BY DEF ClientInv, ClientTypeOK, RecordsWereWritten, Onward, Later, clientVars
<1>3. RefusedOnlyIfReplaced'
  BY DEF ClientInv, AwaitsDaemon, RefusedOnlyIfReplaced, Onward, clientVars
<1>. QED BY <1>1, <1>2, <1>3 DEF ClientInv

LEMMA StarterStep ==
    ASSUME ClientInv, Onward, NEW s \in Starters,
           StartFindsRecord(s) \/ StartSpawns(s) \/ StartPolls(s)
    PROVE  ClientInv'
<1>1. /\ UNCHANGED <<stopper, sdk, attempt, calls, record, peer>>
      /\ starter' \in [Starters -> {"idle", "polling", "already", "started", "not-ready"}]
  BY DEF ClientInv, ClientTypeOK, StartFindsRecord, StartSpawns, StartPolls
<1>2. ClientTypeOK' /\ AwaitsDaemon'
  BY <1>1 DEF ClientInv, ClientTypeOK, AwaitsDaemon
<1>3. RecordsWereWritten'
  BY <1>1 DEF ClientInv, ClientTypeOK, RecordsWereWritten, Onward, Later
<1>4. RefusedOnlyIfReplaced'
  BY <1>1 DEF ClientInv, AwaitsDaemon, RefusedOnlyIfReplaced, Onward
<1>. QED BY <1>2, <1>3, <1>4 DEF ClientInv

\* Of a record and a listener of different daemons the record's is the older.
LEMMA ReachedAnother ==
    ASSUME DaemonInv, NEW c \in Daemons, NEW d \in Daemons,
           stage[c] \in Later, Reachable(d), c # d
    PROVE  stage[c] = "gone"
<1>1. lock = d
  BY DEF DaemonInv, LockedByOwner, Reachable
<1>2. stage[c] \notin LockedStages
  BY <1>1 DEF DaemonInv, LockedByOwner
<1>. QED BY <1>2 DEF Later

LEMMA RecordFound ==
    DaemonInv /\ discovery # None => discovery \in Daemons /\ stage[discovery] \in Later
  BY DEF DaemonInv, TypeOK, RecordWrittenByPublisher, Later

LEMMA StopperStep ==
    ASSUME ClientInv, DaemonInv, Onward, NEW t \in Stoppers,
           StopLoads(t) \/ StopProceeds(t)
    PROVE  ClientInv'
<1>. USE DaemonClientsAssumption, DaemonInstanceAssumption
     DEF ClientInv, ClientTypeOK, AwaitsDaemon, RecordsWereWritten,
         RefusedOnlyIfReplaced, Callers, Later
<1>1. CASE StopLoads(t)
  <2>1. discovery \in Daemons \cup {None} /\ stage' = stage
    BY <1>1 DEF StopLoads, DaemonInv, TypeOK, daemonVars
  <2>. QED BY <1>1, <2>1, RecordFound DEF StopLoads
<1>2. CASE StopConnects(t)
  <2>1. CASE Unreachable /\ stopper' = [stopper EXCEPT ![t] = "unreachable"] /\ UNCHANGED peer
    BY <1>2, <2>1 DEF StopConnects, daemonVars
  <2>2. ASSUME NEW d \in Daemons, Reachable(d), peer' = [peer EXCEPT ![t] = d],
               stopper' = [stopper EXCEPT ![t] = "sent"]
        PROVE  ClientInv'
    <3>1. record[t] \in Daemons /\ stage[record[t]] \in Later
      BY <1>2 DEF StopConnects
    <3>2. record[t] # d => stage[record[t]] = "gone"
      BY <2>2, <3>1, ReachedAnother
    <3>3. UNCHANGED <<stage, starter, sdk, attempt, calls, record>>
      BY <1>2 DEF StopConnects, daemonVars
    <3>. QED BY <2>2, <3>1, <3>2, <3>3
  <2>. QED BY <1>2, <2>1, <2>2 DEF StopConnects
<1>3. CASE StopAnswered(t)
  <2>1. /\ stopper[t] = "sent"
        /\ \/ stopper' = [stopper EXCEPT ![t] = "stopped"]
           \/ stopper' = [stopper EXCEPT ![t] = "rejected"]
        /\ UNCHANGED <<starter, sdk, attempt, calls, record, peer>>
    BY <1>3 DEF StopAnswered
  <2>2. ClientTypeOK' /\ AwaitsDaemon'
    BY <2>1
  <2>3. RecordsWereWritten'
    BY <2>1 DEF Onward
  <2>4. RefusedOnlyIfReplaced'
    BY <2>1 DEF Onward
  <2>. QED BY <2>2, <2>3, <2>4
<1>4. CASE StopCutOff(t)
  BY <1>4 DEF StopCutOff, daemonVars
<1>. QED BY <1>1, <1>2, <1>3, <1>4 DEF StopProceeds

LEMMA SdkStep ==
    ASSUME ClientInv, DaemonInv, NEW k \in Sdks,
           SdkCalls(k) \/ SdkProceeds(k) \/ SdkCloses(k)
    PROVE  ClientInv'
<1>. USE DaemonClientsAssumption, DaemonInstanceAssumption
     DEF ClientInv, ClientTypeOK, AwaitsDaemon, RecordsWereWritten,
         RefusedOnlyIfReplaced, Callers, SdkGoes, daemonVars, Later
<1>1. CASE SdkCalls(k)
  BY <1>1 DEF SdkCalls
<1>2. CASE SdkLoads(k)
  BY <1>2, RecordFound DEF SdkLoads, FailsOrRetries
<1>3. CASE SdkConnects(k)
  <2>1. CASE Unreachable /\ FailsOrRetries(k) /\ UNCHANGED peer
    BY <1>3, <2>1 DEF SdkConnects, FailsOrRetries
  <2>2. ASSUME NEW d \in Daemons, Reachable(d), peer' = [peer EXCEPT ![k] = d],
               SdkGoes(k, "sent"), UNCHANGED <<attempt, record>>
        PROVE  ClientInv'
    <3>1. record[k] \in Daemons /\ stage[record[k]] \in Later
      BY <1>3 DEF SdkConnects
    <3>2. record[k] # d => stage[record[k]] = "gone"
      BY <2>2, <3>1, ReachedAnother
    <3>3. UNCHANGED <<stage, starter, stopper, calls>>
      BY <1>3 DEF SdkConnects
    <3>. QED BY <2>2, <3>1, <3>2, <3>3
  <2>. QED BY <1>3, <2>1, <2>2 DEF SdkConnects
<1>4. CASE SdkAnswered(k)
  BY <1>4 DEF SdkAnswered, TokenMatches
<1>5. CASE SdkCutOff(k)
  BY <1>5 DEF SdkCutOff, FailsOrRetries
<1>6. CASE SdkTimesOut(k)
  BY <1>6 DEF SdkTimesOut
<1>7. CASE SdkCloses(k)
  BY <1>7 DEF SdkCloses
<1>. QED BY <1>1, <1>2, <1>3, <1>4, <1>5, <1>6, <1>7 DEF SdkProceeds

-----------------------------------------------------------------------------
\* Commands and transports only start daemons and ask them to stop.
LEMMA ClientsSpareFiles ==
    ASSUME ClientInv, [Next]_vars
    PROVE  \/ UNCHANGED daemonVars
           \/ \E d \in Daemons : \/ Spawn(d) \/ Step(d) \/ Fail(d) \/ Crash(d)
                                 \/ BeginShutdown(d)
<1>1. CASE (Environment \/ DaemonNext) /\ UNCHANGED clientVars
  BY <1>1 DEF Environment, DaemonNext
<1>2. ASSUME NEW s \in Starters,
             StartFindsRecord(s) \/ StartSpawns(s) \/ StartPolls(s)
      PROVE  UNCHANGED daemonVars \/ \E d \in Daemons : Spawn(d)
  BY <1>2 DEF StartFindsRecord, StartSpawns, StartPolls
<1>3. ASSUME NEW t \in Stoppers, StopLoads(t) \/ StopConnects(t) \/ StopCutOff(t)
      PROVE  UNCHANGED daemonVars
  BY <1>3 DEF StopLoads, StopConnects, StopCutOff
<1>4. ASSUME NEW t \in Stoppers, StopAnswered(t)
      PROVE  UNCHANGED daemonVars \/ \E d \in Daemons : BeginShutdown(d)
  <2>1. UNCHANGED daemonVars \/ BeginShutdown(peer[t])
    BY <1>4 DEF StopAnswered
  <2>2. peer[t] \in Daemons
    BY <1>4 DEF StopAnswered, ClientInv, AwaitsDaemon
  <2>. QED BY <2>1, <2>2
<1>5. ASSUME NEW k \in Sdks, SdkCalls(k) \/ SdkProceeds(k) \/ SdkCloses(k)
      PROVE  UNCHANGED daemonVars
  BY <1>5 DEF SdkCalls, SdkProceeds, SdkLoads, SdkConnects, SdkAnswered,
              SdkCutOff, SdkTimesOut, SdkCloses
<1>6. CASE UNCHANGED vars
  BY <1>6 DEF vars
<1>. QED BY <1>1, <1>2, <1>3, <1>4, <1>5, <1>6 DEF Next, StopProceeds

LEMMA NextInv == DaemonInv /\ ClientInv /\ [Next]_vars => (DaemonInv /\ ClientInv)'
<1>. SUFFICES ASSUME DaemonInv, ClientInv, [Next]_vars
              PROVE  DaemonInv' /\ ClientInv'
  OBVIOUS
<1>1. DaemonInv'
  BY ClientsSpareFiles, DaemonStutter, DaemonStep
<1>2. Onward
  <2>1. CASE UNCHANGED daemonVars
    BY <2>1 DEF Onward, Later, daemonVars
  <2>. QED BY <2>1, ClientsSpareFiles, StagesGoOnward
<1>3. ClientInv'
  <2>1. CASE UNCHANGED clientVars
    BY <1>2, <2>1, ClientStutter
  <2>2. CASE Next /\ ~UNCHANGED clientVars
    BY <1>2, <2>2, StarterStep, StopperStep, SdkStep DEF Next
  <2>. QED BY <2>1, <2>2 DEF vars
<1>. QED BY <1>1, <1>3

LEMMA Invariance == SafeSpec => [](DaemonInv /\ ClientInv)
<1>1. ClientsInit => DaemonInv /\ ClientInv
  BY DaemonInit, ClientInit
<1>. QED BY <1>1, NextInv, PTL DEF SafeSpec

-----------------------------------------------------------------------------
\* Type correctness of daemons and clients.
THEOREM TypesCorrect == SafeSpec => []TypesOK
<1>1. DaemonInv /\ ClientInv => TypesOK
  BY DEF DaemonInv, ClientInv, TypesOK
<1>. QED BY <1>1, Invariance, PTL

\* DaemonHandle::start: never two processes past the instance lock.
THEOREM InstanceIsSingle == SafeSpec => []SingleInstance
<1>1. DaemonInv => SingleInstance
  BY DEF DaemonInv, LockedByOwner, SingleInstance
<1>. QED BY <1>1, Invariance, PTL

\* server_loop: the open listener is the one behind the path.
THEOREM ListenersAreReachable == SafeSpec => []ListenerReachable
<1>1. DaemonInv => ListenerReachable
  BY DEF DaemonInv
<1>. QED BY <1>1, Invariance, PTL

\* write_discovery and the removals: a live record is never taken away by
\* another process.
THEOREM RecordsAreKept == SafeSpec => []RecordKept
<1>1. DaemonInv => RecordKept
  BY DEF DaemonInv
<1>. QED BY <1>1, Invariance, PTL

\* DaemonHandle::start: discovery is written only after readiness.
THEOREM PublicationFollowsReadiness == SafeSpec => []PublishedAfterReady
<1>1. DaemonInv => PublishedAfterReady
  BY DaemonInstanceAssumption
     DEF DaemonInv, TypeOK, RecordWrittenByPublisher, PublishedAfterReady, Alive
<1>. QED BY <1>1, Invariance, PTL

\* DaemonHandle::start, wait and drop: who is refused by a daemon has looked up
\* one that has ended, however old its record is.
THEOREM StrangersAreSuccessors == SafeSpec => []RefusedOnlyIfReplaced
<1>1. ClientInv => RefusedOnlyIfReplaced
  BY DEF ClientInv
<1>. QED BY <1>1, Invariance, PTL

-----------------------------------------------------------------------------
(* The StdioTransport under the extension.                                  *)

SdkTypes ==
    /\ client \in Transports \cup {NoTransport}
    /\ phase \in [Users -> {"idle", "connect", "ready", "call"}]
    /\ using \in [Users -> Transports \cup {NoTransport}]
    /\ program \in [Transports -> {"unused", "running", "ended", "broken", "killed"}]
    /\ closed \subseteq Transports
    /\ ending \in Transports \cup {NotYet, Over}
    /\ lost \in [Transports -> {"no", "displaced", "late", "failed"}]

Connecting(t) == \E u \in Users : phase[u] = "connect" /\ using[u] = t

\* Who will close a server that runs: the client's close, the deactivation
\* that has closed it and waits, or the command that connects it.
Cared ==
    \A t \in Transports :
        program[t] = "running" /\ lost[t] = "no" =>
            t = client \/ t \in closed \/ Connecting(t)

\* Deactivation closes one transport and waits for it as long as it runs; a
\* client of later is a late one.
ClosedOnce ==
    /\ ending = NotYet => closed = {}
    /\ \A t \in closed : program[t] = "running" => ending = t
    /\ ending # NotYet /\ client # NoTransport => lost[client] # "no"

SdkInv == SdkTypes /\ Cared /\ ClosedOnce

LEMMA EndsDiffer ==
    /\ NotYet \notin Transports /\ Over \notin Transports /\ NotYet # Over
    /\ NoTransport \notin Transports
  BY SdkAssumption DEF SdkAssumption, NotYet, Over, NoTransport, Transports

LEMMA SdkInitInv == SdkInit => SdkInv
  BY EndsDiffer
     DEF SdkInit, SdkInv, SdkTypes, Cared, ClosedOnce, Connecting

\* Events that leave the commands, the client and the servers as they are.
LEMMA SdkSame ==
    ASSUME SdkInv, UNCHANGED <<client, phase, using, program, closed, ending, lost>>
    PROVE  SdkInv'
  BY DEF SdkInv, SdkTypes, Cared, ClosedOnce, Connecting

\* A server that stops needs nobody's care.
LEMMA SdkStops ==
    ASSUME SdkInv, NEW t \in Transports, NEW how \in {"ended", "broken", "killed"},
           program' = [program EXCEPT ![t] = how],
           UNCHANGED <<client, phase, using, closed, ending, lost>>
    PROVE  SdkInv'
  BY DEF SdkInv, SdkTypes, Cared, ClosedOnce, Connecting

\* A command's steps.
LEMMA UserStep ==
    ASSUME SdkInv, NEW u \in Users, GetClient(u) \/ Continues(u) \/ GivenUp(u)
    PROVE  SdkInv'
<1>. USE EndsDiffer DEF SdkInv, SdkTypes
<1>1. CASE GetClient(u)
  <2>1. /\ phase[u] = "idle" /\ ending = NotYet /\ closed = {}
        /\ UNCHANGED <<client, closed, ending, lost>>
    BY <1>1 DEF GetClient, ClosedOnce
  <2>2. CASE /\ client # NoTransport
             /\ using' = [using EXCEPT ![u] = client] /\ Phase(u, "ready")
             /\ UNCHANGED program
    BY <2>1, <2>2 DEF Phase, Cared, ClosedOnce, Connecting
  <2>3. ASSUME NEW t \in Transports, program[t] = "unused",
               program' = [program EXCEPT ![t] = "running"],
               Request(u, t), Phase(u, "connect")
        PROVE  SdkInv'
    <3>1. using' = [using EXCEPT ![u] = t] /\ phase' = [phase EXCEPT ![u] = "connect"]
      BY <2>3 DEF Request, Phase
    <3>2. SdkTypes'
      BY <2>1, <2>3, <3>1
    <3>3. Cared'
      <4>. SUFFICES ASSUME NEW s \in Transports, program'[s] = "running", lost'[s] = "no"
                    PROVE  s = client' \/ s \in closed' \/ Connecting(s)'
        BY DEF Cared
      <4>1. CASE s = t
        BY <3>1, <4>1 DEF Connecting
      <4>2. CASE s # t
        BY <2>1, <2>3, <3>1, <4>2 DEF Cared, Connecting
      <4>. QED BY <4>1, <4>2
    <3>4. ClosedOnce'
      BY <2>1 DEF ClosedOnce
    <3>. QED BY <3>2, <3>3, <3>4
  <2>. QED BY <1>1, <2>2, <2>3 DEF GetClient
<1>2. CASE Connected(u)
  <2>1. /\ phase[u] = "connect" /\ client' = using[u]
        /\ phase' = [phase EXCEPT ![u] = "ready"]
        /\ UNCHANGED <<using, program, closed, ending>>
        /\ lost' = [t \in Transports |->
                      CASE t = client /\ t # using[u] -> "displaced"
                        [] t = using[u] /\ ending # NotYet -> "late"
                        [] OTHER -> lost[t]]
    BY <1>2 DEF Connected, Phase
  <2>2. SdkTypes'
    BY <2>1
  <2>3. Cared'
    <3>. SUFFICES ASSUME NEW t \in Transports, program'[t] = "running", lost'[t] = "no"
                  PROVE  t = client' \/ t \in closed' \/ Connecting(t)'
      BY DEF Cared
    <3>1. lost[t] = "no" /\ (t = client => t = using[u])
      BY <2>1
    <3>2. CASE t = using[u]
      BY <2>1, <3>2
    <3>3. CASE t # using[u]
      BY <2>1, <3>1, <3>3 DEF Cared, Connecting
    <3>. QED BY <3>2, <3>3
  <2>4. ClosedOnce'
    BY <2>1 DEF ClosedOnce
  <2>. QED BY <2>2, <2>3, <2>4
<1>3. CASE NotConnected(u)
  <2>1. /\ phase[u] = "connect" /\ lost' = [lost EXCEPT ![using[u]] = "failed"]
        /\ phase' = [phase EXCEPT ![u] = "idle"]
        /\ using' = [using EXCEPT ![u] = NoTransport]
        /\ UNCHANGED <<client, program, closed, ending>>
    BY <1>3 DEF NotConnected, Return, Phase
  <2>. QED
    BY <2>1 DEF Cared, ClosedOnce, Connecting
<1>4. CASE CallTool(u)
  <2>1. /\ phase[u] = "ready" /\ phase' = [phase EXCEPT ![u] = "call"]
        /\ using' = [using EXCEPT ![u] = using[u]]
        /\ UNCHANGED <<client, program, closed, ending, lost>>
    BY <1>4 DEF CallTool, Request, Phase
  <2>. QED
    BY <2>1 DEF Cared, ClosedOnce, Connecting
<1>5. CASE Shown(u)
  <2>1. /\ phase[u] = "call" /\ phase' = [phase EXCEPT ![u] = "idle"]
        /\ using' = [using EXCEPT ![u] = NoTransport]
        /\ UNCHANGED <<client, program, closed, ending, lost>>
    BY <1>5 DEF Shown, Return, Phase
  <2>. QED
    BY <2>1 DEF Cared, ClosedOnce, Connecting
<1>6. CASE GivenUp(u)
  BY <1>6, SdkSame DEF GivenUp
<1>. QED BY <1>1, <1>2, <1>3, <1>4, <1>5, <1>6 DEF Continues

\* The events of a transport and the steps of its server.
LEMMA TransportStep ==
    ASSUME SdkInv, NEW t \in Transports,
           LineRead(t) \/ ExitEvent(t) \/ Answers(t) \/ Ends(t) \/ Dies(t)
    PROVE  SdkInv'
<1>1. CASE LineRead(t) \/ Answers(t) \/ ExitSeen(t)
  BY <1>1, SdkSame DEF LineRead, Answers, ExitSeen
<1>2. CASE ExitAwaited(t)
  <2>1. /\ ending = t /\ program[t] # "running" /\ ending' = Over
        /\ UNCHANGED <<client, phase, using, program, closed, lost>>
    BY <1>2 DEF ExitAwaited
  <2>. QED
    BY <2>1, EndsDiffer DEF SdkInv, SdkTypes, Cared, ClosedOnce, Connecting
<1>3. CASE Ends(t)
  BY <1>3, SdkStops DEF Ends
<1>4. CASE Dies(t)
  BY <1>4, SdkStops DEF Dies
<1>. QED BY <1>1, <1>2, <1>3, <1>4 DEF ExitEvent

LEMMA DeactivateStep ==
    ASSUME SdkInv, Deactivate
    PROVE  SdkInv'
<1>1. /\ ending = NotYet /\ closed = {} /\ client' = NoTransport
      /\ closed' = (IF client = NoTransport THEN {} ELSE {client})
      /\ ending' = IF client # NoTransport /\ WaitsForExit(client) THEN client ELSE Over
      /\ UNCHANGED <<phase, using, program, lost>>
  BY DEF Deactivate, Closed, SdkInv, ClosedOnce
<1>2. SdkTypes'
  BY <1>1 DEF SdkInv, SdkTypes
<1>3. Cared'
  BY <1>1, EndsDiffer DEF SdkInv, SdkTypes, Cared, Connecting
<1>4. ClosedOnce'
  BY <1>1, EndsDiffer DEF SdkInv, SdkTypes, ClosedOnce, WaitsForExit
<1>. QED BY <1>2, <1>3, <1>4 DEF SdkInv

LEMMA SdkInvariance == SdkSpec => []SdkInv
<1>1. SdkInv /\ [SdkNext]_sdkVars => SdkInv'
  <2>1. ASSUME SdkInv, SdkNext PROVE SdkInv'
    BY <2>1, UserStep, TransportStep, DeactivateStep DEF SdkNext
  <2>2. ASSUME SdkInv, UNCHANGED sdkVars PROVE SdkInv'
    BY <2>2, SdkSame DEF sdkVars
  <2>. QED BY <2>1, <2>2
<1>. QED BY SdkInitInv, <1>1, PTL DEF SdkSpec

\* getClient and deactivate: after the deactivation a server runs on only if
\* its connection failed, came too late, is being made, or was displaced.
THEOREM NoServerIsForgotten == SdkSpec => []NoServerForgotten
<1>1. SdkInv => NoServerForgotten
  BY EndsDiffer
     DEF SdkInv, SdkTypes, Cared, ClosedOnce, NoServerForgotten, Connecting
<1>. QED BY <1>1, SdkInvariance, PTL
=============================================================================
