--------------------------- MODULE DaemonInstance ---------------------------
(***************************************************************************)
(* The lives of token-shrinker daemon processes in one runtime directory   *)
(* (crates/ts-daemon, DaemonHandle, on Unix): the instance lock, the stale *)
(* discovery record, the socket file, publication, serving, shutdown and   *)
(* crashes.  A process is started at most once; a restart is another one.  *)
(*                                                                         *)
(* Files are what the code makes of them: a removal removes whatever the   *)
(* path holds, whoever wrote it.  Only the lock dies with its owner.       *)
(***************************************************************************)
EXTENDS Naturals, FiniteSets

CONSTANTS
    Daemons,    \* the daemon processes that may ever be started
    None        \* no file, no owner

ASSUME DaemonInstanceAssumption == None \notin Daemons

VARIABLES
    stage,      \* how far each process is in DaemonHandle::start ... wait
    lock,       \* who holds daemon-v1.lock
    discovery,  \* whose record daemon.json holds
    socket      \* who bound the file daemon.sock

daemonVars == <<stage, lock, discovery, socket>>

Stages == {"off", "starting", "locked", "cleaned", "bound", "published",
           "serving", "draining", "unlinked", "removed", "gone"}

\* The stages in which the process owns the instance lock, has its listener
\* open, and is meant to be found through the discovery record.
LockedStages == {"locked", "cleaned", "bound", "published", "serving",
                 "draining", "unlinked", "removed"}
ListeningStages == {"bound", "published", "serving", "draining"}
PublishedStages == {"published", "serving", "draining", "unlinked"}

Alive(d) == stage[d] \notin {"off", "gone"}

TypeOK == /\ stage \in [Daemons -> Stages]
          /\ lock \in Daemons \cup {None}
          /\ discovery \in Daemons \cup {None}
          /\ socket \in Daemons \cup {None}

Init == /\ stage = [d \in Daemons |-> "off"]
        /\ lock = None
        /\ discovery = None
        /\ socket = None

Enter(d, next) == stage' = [stage EXCEPT ![d] = next]

\* Closing the lock file gives up this process's lock, and no other's.
ReleaseLock(d) == lock' = IF lock = d THEN None ELSE lock

-----------------------------------------------------------------------------
(* DaemonHandle::start.                                                     *)

\* validate_daemon_config and secure_runtime_directory succeeded.
Spawn(d) == /\ stage[d] = "off"
            /\ Enter(d, "starting")
            /\ UNCHANGED <<lock, discovery, socket>>

\* Mutant: whoever opened the lock file has it.
LockIgnored == TRUE

LockIsFree == lock = None

\* try_lock: AlreadyRunning when somebody else holds it.
TryLock(d) == /\ stage[d] = "starting"
              /\ \/ /\ LockIsFree
                    /\ lock' = d
                    /\ Enter(d, "locked")
                 \/ /\ ~LockIsFree
                    /\ Enter(d, "gone")
                    /\ UNCHANGED lock
              /\ UNCHANGED <<discovery, socket>>

\* A record found under the lock is a dead daemon's: it is removed.
RemoveStale(d) == /\ stage[d] = "locked"
                  /\ discovery' = None
                  /\ Enter(d, "cleaned")
                  /\ UNCHANGED <<lock, socket>>

\* create_listener binds the path.  Over a dead daemon's socket file the
\* library either fails (Fail below) or replaces it.
Bind(d) == /\ stage[d] = "cleaned"
           /\ socket' = d
           /\ Enter(d, "bound")
           /\ UNCHANGED <<lock, discovery>>

\* write_discovery renames a complete temporary file into place.
Publish(d) == /\ stage[d] = "bound"
              /\ discovery' = d
              /\ Enter(d, "published")
              /\ UNCHANGED <<lock, socket>>

\* append_log succeeded, the graph is built and server_loop runs.
Serve(d) == /\ stage[d] = "published"
            /\ Enter(d, "serving")
            /\ UNCHANGED <<lock, discovery, socket>>

\* Any I/O error under the lock, in start or when wait removes the record: the
\* listener, if open, unlinks the socket path and the lock is released; a
\* record already published stays behind.
Fail(d) == /\ stage[d] \in {"locked", "cleaned", "bound", "published", "unlinked"}
           /\ socket' = IF stage[d] \in ListeningStages THEN None ELSE socket
           /\ ReleaseLock(d)
           /\ Enter(d, "gone")
           /\ UNCHANGED discovery

-----------------------------------------------------------------------------
(* server_loop's end, DaemonHandle::shutdown, wait and drop.                *)

\* Mutant: the request is acknowledged and the loop never hears of it.
ShutdownForgotten(d) == /\ stage[d] = "serving"
                        /\ UNCHANGED daemonVars

\* begin_shutdown, by a daemon.shutdown request, the owner of the handle or
\* an accept error: the loop stops accepting and drains.
BeginShutdown(d) == /\ stage[d] = "serving"
                    /\ Enter(d, "draining")
                    /\ UNCHANGED <<lock, discovery, socket>>

\* server_loop returns and drops the listener, which unlinks the path.
DropListener(d) == /\ stage[d] = "draining"
                   /\ socket' = None
                   /\ Enter(d, "unlinked")
                   /\ UNCHANGED <<lock, discovery>>

\* Mutant: the lock is given up before the record is removed.
UnlockFirst(d) ==
    /\ stage[d] = "unlinked"
    /\ \/ /\ lock = d
          /\ lock' = None
          /\ UNCHANGED <<stage, discovery>>
       \/ /\ lock # d
          /\ discovery' = None
          /\ Enter(d, "removed")
          /\ UNCHANGED lock
    /\ UNCHANGED socket

\* After joining the thread the handle removes daemon.json.
RemoveDiscovery(d) == /\ stage[d] = "unlinked"
                      /\ discovery' = None
                      /\ Enter(d, "removed")
                      /\ UNCHANGED <<lock, socket>>

\* The lock file is closed when the handle's fields are dropped.
Unlock(d) == /\ stage[d] = "removed"
             /\ ReleaseLock(d)
             /\ Enter(d, "gone")
             /\ UNCHANGED <<discovery, socket>>

\* The process dies: its lock is released by the system, its files stay.
Crash(d) == /\ Alive(d)
            /\ ReleaseLock(d)
            /\ Enter(d, "gone")
            /\ UNCHANGED <<discovery, socket>>

Step(d) == \/ TryLock(d) \/ RemoveStale(d) \/ Bind(d) \/ Publish(d) \/ Serve(d)
           \/ DropListener(d) \/ RemoveDiscovery(d) \/ Unlock(d)

DaemonNext == \E d \in Daemons : Step(d) \/ Fail(d) \/ Crash(d)

-----------------------------------------------------------------------------
(* Properties.                                                              *)

\* Of all processes at most one is past the instance lock.
SingleInstance ==
    \A d, e \in Daemons :
        stage[d] \in LockedStages /\ stage[e] \in LockedStages => d = e

\* A daemon whose listener is open is the one clients reach by the path: no
\* other process, starting, stopping or failing, unlinked or rebound it.
ListenerReachable ==
    \A d \in Daemons : stage[d] \in ListeningStages => socket = d

\* A daemon that announced itself stays discoverable until it removes its own
\* record: no other process's cleanup or removal takes it away.
RecordKept ==
    \A d \in Daemons : stage[d] \in PublishedStages => discovery = d

\* The record of a living daemon is there only from when the daemon can be
\* reached to when it has stopped listening, and never before or after.
PublishedAfterReady ==
    discovery # None /\ Alive(discovery) => stage[discovery] \in PublishedStages
=============================================================================
