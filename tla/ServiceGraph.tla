---------------------------- MODULE ServiceGraph ----------------------------
(***************************************************************************)
(* The daemon's service graph (crates/ts-daemon): the accept loop, one     *)
(* thread per connection, the request gate (a mutex-protected counter and  *)
(* a condition variable), the table of cancellation tokens, the deadline   *)
(* timers and the graceful shutdown.                                       *)
(*                                                                         *)
(* A worker is a connection thread and carries one request.  A dispatch    *)
(* creates one token, so a token is named by the worker that created it.   *)
(* The gate's mutex is held across more than one step only by a thread     *)
(* that is about to park or about to be admitted: the shutdown flag is     *)
(* read inside the critical section but stored outside of it.              *)
(***************************************************************************)
EXTENDS Naturals, FiniteSets

CONSTANTS
    Workers,    \* the connections clients may make
    Ids,        \* request ids
    Kind,       \* what each connection's request asks for
    IdOf,       \* its request id
    Target,     \* the request id a daemon.cancel names
    Deadlined,  \* the workers whose request carries deadline_unix_ms
    ClockFaults, \* the workers that find the system clock before the epoch
    Panicking,  \* the workers whose handler may panic
    Maximum,    \* max_concurrency
    NoToken     \* no entry in the cancellations map

ASSUME ServiceGraphAssumption ==
    /\ IsFiniteSet(Workers)
    /\ Kind \in [Workers -> {"call", "cancel", "shutdown"}]
    /\ IdOf \in [Workers -> Ids]
    /\ Target \in [Workers -> Ids]
    /\ Deadlined \subseteq Workers
    /\ ClockFaults \subseteq Workers
    /\ Panicking \subseteq Workers
    /\ Maximum \in Nat \ {0}
    /\ NoToken \notin Workers

VARIABLES
    pc,             \* where each connection thread is
    result,         \* how each request was answered
    active,         \* RequestGate.active
    shuttingDown,   \* ServiceGraph.shutting_down
    cancellations,  \* id -> worker whose token is registered
    raised,         \* the tokens that were set
    armed,          \* the workers whose deadline timer thread waits
    clock,          \* where the wall clock is relative to each deadline
    server          \* where server_loop is

vars == <<pc, result, active, shuttingDown, cancellations, raised, armed,
          clock, server>>

Labels == {"idle", "reading", "notifying", "enter", "parking",
           "waiting", "admitting", "admitted", "arming", "handling",
           "unregister", "releasing", "done"}
Results == {"none", "ok", "rejected", "late", "shutting-down",
            "duplicate", "clock", "panicked", "cancelled", "not-found"}
ServerLabels == {"check", "accept", "storing", "notifying", "draining", "done"}

Waiting == {w \in Workers : pc[w] = "waiting"}
GateHeld == \E w \in Workers : pc[w] \in {"parking", "admitting"}

\* Threads that own a RequestPermit.
Holders == {w \in Workers :
              pc[w] \in {"admitted", "arming", "handling", "unregister",
                         "releasing"}}

\* Threads whose id is in the cancellations map on their own account.
Registered == {w \in Workers : pc[w] \in {"arming", "handling", "unregister"}}

TypeOK ==
    /\ pc \in [Workers -> Labels]
    /\ result \in [Workers -> Results]
    /\ active \in Nat
    /\ shuttingDown \in BOOLEAN
    /\ cancellations \in [Ids -> Workers \cup {NoToken}]
    /\ raised \subseteq Workers
    /\ armed \subseteq Workers
    /\ clock \in [Workers -> {"before", "at", "after"}]
    /\ server \in ServerLabels

Init ==
    /\ pc = [w \in Workers |-> "idle"]
    /\ result = [w \in Workers |-> "none"]
    /\ active = 0
    /\ shuttingDown = FALSE
    /\ cancellations = [i \in Ids |-> NoToken]
    /\ raised = {}
    /\ armed = {}
    /\ clock = [w \in Workers |-> "before"]
    /\ server = "check"

Goto(w, label) == pc' = [pc EXCEPT ![w] = label]
Finish(w, answer) == /\ Goto(w, "done")
                     /\ result' = [result EXCEPT ![w] = answer]

-----------------------------------------------------------------------------
(* handle_connection: read the frame, validate, route by method.            *)

\* The client hangs up or sends a malformed frame: the thread returns.
Abandon(w) ==
    /\ pc[w] = "reading"
    /\ Goto(w, "done")
    /\ UNCHANGED <<result, active, shuttingDown, cancellations, raised, armed,
                   clock, server>>

\* Any request may fail validation (version, id, token, method).
Reject(w) ==
    /\ pc[w] = "reading"
    /\ Finish(w, "rejected")
    /\ UNCHANGED <<active, shuttingDown, cancellations, raised, armed, clock,
                   server>>

\* now > deadline: answered -32002 and never dispatched.
TooLate(w) ==
    /\ pc[w] = "reading" /\ Kind[w] = "call"
    /\ w \in Deadlined \ ClockFaults /\ clock[w] = "after"
    /\ Finish(w, "late")
    /\ UNCHANGED <<active, shuttingDown, cancellations, raised, armed, clock,
                   server>>

\* A clock that cannot be read lets a late request through.
Dispatch(w) ==
    /\ pc[w] = "reading" /\ Kind[w] = "call"
    /\ w \in Deadlined \ ClockFaults => clock[w] # "after"
    /\ Goto(w, "enter")
    /\ UNCHANGED <<result, active, shuttingDown, cancellations, raised, armed,
                   clock, server>>

\* daemon.cancel looks the id up and sets the token it finds.
Cancel(w) ==
    /\ pc[w] = "reading" /\ Kind[w] = "cancel"
    /\ LET owner == cancellations[Target[w]] IN
          IF owner = NoToken
          THEN Finish(w, "not-found") /\ UNCHANGED raised
          ELSE Finish(w, "cancelled") /\ raised' = raised \cup {owner}
    /\ UNCHANGED <<active, shuttingDown, cancellations, armed, clock, server>>

\* daemon.shutdown calls begin_shutdown: the store and the notify_all are two
\* steps, neither of which holds the gate's mutex.
ShutdownStore(w) ==
    /\ pc[w] = "reading" /\ Kind[w] = "shutdown"
    /\ shuttingDown' = TRUE
    /\ Goto(w, "notifying")
    /\ UNCHANGED <<result, active, cancellations, raised, armed, clock, server>>

WakeAll(rest) ==
    [v \in Workers |-> IF pc[v] = "waiting" THEN "enter" ELSE rest[v]]

ShutdownNotify(w) ==
    /\ pc[w] = "notifying"
    /\ pc' = WakeAll([pc EXCEPT ![w] = "done"])
    /\ result' = [result EXCEPT ![w] = "ok"]
    /\ UNCHANGED <<active, shuttingDown, cancellations, raised, armed, clock,
                   server>>

-----------------------------------------------------------------------------
(* RequestGate::enter and the drop of a RequestPermit.                      *)

Full == active >= Maximum

\* Mutant: the flag is not part of the gate's conditions.
NeverStopping == FALSE

Stopping == shuttingDown

\* enter holds the mutex and evaluates its loop condition: full and not
\* shutting down means it will park, otherwise the flag decides.  The mutex
\* stays held until Park or Admit.
Enter(w) ==
    /\ pc[w] = "enter" /\ ~GateHeld
    /\ \/ /\ Full /\ ~Stopping
          /\ Goto(w, "parking")
          /\ UNCHANGED result
       \/ /\ ~Full /\ ~Stopping
          /\ Goto(w, "admitting")
          /\ UNCHANGED result
       \/ /\ Stopping
          /\ Finish(w, "shutting-down")
    /\ UNCHANGED <<active, shuttingDown, cancellations, raised, armed, clock,
                   server>>

\* Condvar::wait joins the wait set and releases the mutex in one step.
Park(w) ==
    /\ pc[w] = "parking"
    /\ Goto(w, "waiting")
    /\ UNCHANGED <<result, active, shuttingDown, cancellations, raised, armed,
                   clock, server>>

\* A condition variable may wake a thread that nobody notified.
SpuriousWake(w) ==
    /\ pc[w] = "waiting"
    /\ Goto(w, "enter")
    /\ UNCHANGED <<result, active, shuttingDown, cancellations, raised, armed,
                   clock, server>>

Admit(w) ==
    /\ pc[w] = "admitting"
    /\ active' = active + 1
    /\ Goto(w, "admitted")
    /\ UNCHANGED <<result, shuttingDown, cancellations, raised, armed, clock,
                   server>>

\* Mutant: the permit is returned without a notification.
WakeNobody(rest) == pc' = rest

\* Notify one waiter, whichever the condition variable picks; if none waits
\* the notification is lost.
WakeOne(rest) ==
    IF Waiting = {} THEN pc' = rest
                    ELSE \E v \in Waiting : pc' = [rest EXCEPT ![v] = "enter"]

\* saturating_sub(1)
Returned == IF active = 0 THEN 0 ELSE active - 1

Release(w) ==
    /\ pc[w] = "releasing" /\ ~GateHeld
    /\ active' = Returned
    /\ WakeOne([pc EXCEPT ![w] = "done"])
    /\ UNCHANGED <<result, shuttingDown, cancellations, raised, armed, clock,
                   server>>

-----------------------------------------------------------------------------
(* ServiceGraph::dispatch, with the permit held.                            *)

\* Mutant: the value that insert returns is ignored.
NeverOccupied(w) == FALSE

Occupied(w) == cancellations[IdOf[w]] # NoToken

\* The insert happens before the test: a duplicate id replaces the token of
\* the request that is running and only then fails.
Register(w) ==
    /\ pc[w] = "admitted"
    /\ cancellations' = [cancellations EXCEPT ![IdOf[w]] = w]
    /\ \/ /\ ~Occupied(w)
          /\ Goto(w, "arming")
          /\ UNCHANGED result
       \/ /\ Occupied(w)
          /\ Goto(w, "releasing")
          /\ result' = [result EXCEPT ![w] = "duplicate"]
    /\ UNCHANGED <<active, shuttingDown, raised, armed, clock, server>>

\* Mutant: a deadline in the past arms nothing and sets nothing.
NotRaised(w) == raised

RaisedAtOnce(w) == raised \cup {w}

\* deadline <= now sets the token at once, otherwise a timer thread waits.
\* The clock error returns early and leaves the map entry behind.
ArmDeadline(w) ==
    /\ pc[w] = "arming"
    /\ \/ /\ w \notin Deadlined
          /\ Goto(w, "handling")
          /\ UNCHANGED <<result, raised, armed>>
       \/ /\ w \in Deadlined \cap ClockFaults
          /\ Goto(w, "releasing")
          /\ result' = [result EXCEPT ![w] = "clock"]
          /\ UNCHANGED <<raised, armed>>
       \/ /\ w \in Deadlined \ ClockFaults /\ clock[w] # "before"
          /\ raised' = RaisedAtOnce(w)
          /\ Goto(w, "handling")
          /\ UNCHANGED <<result, armed>>
       \/ /\ w \in Deadlined \ ClockFaults /\ clock[w] = "before"
          /\ armed' = armed \cup {w}
          /\ Goto(w, "handling")
          /\ UNCHANGED <<result, raised>>
    /\ UNCHANGED <<active, shuttingDown, cancellations, clock, server>>

\* The handler returns, seen or unseen token; the dropped sender ends the timer.
HandlerReturns(w) ==
    /\ pc[w] = "handling"
    /\ Goto(w, "unregister")
    /\ result' = [result EXCEPT ![w] = "ok"]
    /\ armed' = armed \ {w}
    /\ UNCHANGED <<active, shuttingDown, cancellations, raised, clock, server>>

\* A panicking handler unwinds through the permit but past the map's remove.
HandlerPanics(w) ==
    /\ pc[w] = "handling" /\ w \in Panicking
    /\ Goto(w, "releasing")
    /\ result' = [result EXCEPT ![w] = "panicked"]
    /\ armed' = armed \ {w}
    /\ UNCHANGED <<active, shuttingDown, cancellations, raised, clock, server>>

\* Mutant: the entry stays in the map.
NotRemoved(w) == cancellations

Removed(w) == [cancellations EXCEPT ![IdOf[w]] = NoToken]

Unregister(w) ==
    /\ pc[w] = "unregister"
    /\ cancellations' = Removed(w)
    /\ Goto(w, "releasing")
    /\ UNCHANGED <<result, active, shuttingDown, raised, armed, clock, server>>

-----------------------------------------------------------------------------
(* Time and the deadline timer threads.                                     *)

\* The wall clock reaches and then passes the deadline of w's request.
PassTime(w) ==
    /\ w \in Deadlined \ ClockFaults /\ clock[w] # "after"
    /\ clock' = [clock EXCEPT ![w] = IF @ = "before" THEN "at" ELSE "after"]
    /\ UNCHANGED <<pc, result, active, shuttingDown, cancellations, raised,
                   armed, server>>

FireDeadline(w) ==
    /\ w \in armed /\ clock[w] # "before"
    /\ raised' = raised \cup {w}
    /\ armed' = armed \ {w}
    /\ UNCHANGED <<pc, result, active, shuttingDown, cancellations, clock,
                   server>>

-----------------------------------------------------------------------------
(* server_loop.                                                             *)

\* The loop condition reads the flag before every accept.
ServerCheck ==
    /\ server = "check"
    /\ server' = IF shuttingDown THEN "storing" ELSE "accept"
    /\ UNCHANGED <<pc, result, active, shuttingDown, cancellations, raised,
                   armed, clock>>

Accept(w) ==
    /\ server = "accept" /\ pc[w] = "idle"
    /\ Goto(w, "reading")
    /\ server' = "check"
    /\ UNCHANGED <<result, active, shuttingDown, cancellations, raised, armed,
                   clock>>

\* WouldBlock sleeps and loops; any other accept error leaves the loop.
AcceptNothing ==
    /\ server = "accept"
    /\ server' \in {"check", "storing"}
    /\ UNCHANGED <<pc, result, active, shuttingDown, cancellations, raised,
                   armed, clock>>

ServerStore ==
    /\ server = "storing"
    /\ shuttingDown' = TRUE
    /\ server' = "notifying"
    /\ UNCHANGED <<pc, result, active, cancellations, raised, armed, clock>>

ServerNotify ==
    /\ server = "notifying"
    /\ pc' = WakeAll(pc)
    /\ server' = "draining"
    /\ UNCHANGED <<result, active, shuttingDown, cancellations, raised, armed,
                   clock>>

\* Mutant: the drain has no timeout.
DrainWithoutTimeout ==
    /\ server = "draining"
    /\ \A w \in Workers : pc[w] \in {"idle", "done"}
    /\ server' = "done"
    /\ UNCHANGED <<pc, result, active, shuttingDown, cancellations, raised,
                   armed, clock>>

\* The drain ends when every connection thread has finished or when the
\* graceful-shutdown timeout has passed, whoever is still running.
Drain ==
    /\ server = "draining"
    /\ server' = "done"
    /\ UNCHANGED <<pc, result, active, shuttingDown, cancellations, raised,
                   armed, clock>>

-----------------------------------------------------------------------------
Route(w) == Abandon(w) \/ Reject(w) \/ TooLate(w) \/ Dispatch(w) \/ Cancel(w)
            \/ ShutdownStore(w)

\* Steps a running thread takes without waiting for anybody.
Proceed(w) == ShutdownNotify(w) \/ Park(w) \/ Admit(w) \/ Register(w)
              \/ ArmDeadline(w) \/ Unregister(w)

ServerStep == \/ ServerCheck \/ AcceptNothing \/ ServerStore \/ ServerNotify
              \/ Drain \/ \E w \in Workers : Accept(w)

\* Only a stopped server with nothing left to run may stay where it is.
Stopped == /\ server = "done"
           /\ \A w \in Workers : pc[w] \in {"idle", "done"}
           /\ UNCHANGED vars

WorkerStep(w) ==
    \/ Route(w) \/ Proceed(w)
    \/ Enter(w) \/ SpuriousWake(w) \/ Release(w)
    \/ HandlerReturns(w) \/ HandlerPanics(w)
    \/ PassTime(w) \/ FireDeadline(w)

Next == \/ \E w \in Workers : WorkerStep(w)
        \/ ServerStep
        \/ Stopped

\* Every runnable thread gets to run, and a thread that keeps asking for the
\* gate's mutex eventually gets it.  Nothing is assumed of clients (they may
\* connect and never send) or of handlers (they may never return).
Fairness ==
    /\ \A w \in Workers : /\ WF_vars(Proceed(w))
                          /\ WF_vars(FireDeadline(w))
                          /\ SF_vars(Enter(w))
                          /\ SF_vars(Release(w))
    /\ WF_vars(ServerStep)

Spec == Init /\ [][Next]_vars /\ Fairness

\* Handlers that cooperate: every handler returns or panics in the end.
HandlersCooperate ==
    \A w \in Workers : WF_vars(HandlerReturns(w) \/ HandlerPanics(w))

-----------------------------------------------------------------------------
(* Properties.                                                              *)

\* The gate's counter is exactly the number of live permits: no path through
\* dispatch (duplicate id, clock error, panic, return) leaks one or returns
\* one twice.
PermitAccounting == active = Cardinality(Holders)

\* At most max_concurrency requests hold or are being given a permit.
Running == {w \in Workers : pc[w] = "admitting"} \cup Holders
GateBound == Cardinality(Running) <= Maximum

\* Two requests with the same id are never past registration together, so a
\* cancellation or a map removal can only concern one of them.
UniqueHandler ==
    \A v, w \in Registered : IdOf[v] = IdOf[w] => v = w

\* A map entry belongs to a request that is still going to remove it; only a
\* handler panic or a clock error leaves an entry behind, and with it an id
\* that every later request finds duplicate.
EntriesOwned ==
    \A i \in Ids : cancellations[i] # NoToken =>
        \E w \in Workers : /\ IdOf[w] = i
                          /\ \/ w \in Registered
                             \/ result[w] \in {"panicked", "clock"}

\* What daemon.cancel finds for a running request is that request's own token
\* unless a duplicate id displaced it.
TokenDisplacedOnlyByDuplicate ==
    \A w \in Registered :
        \/ cancellations[IdOf[w]] = w
        \/ \E v \in Workers : /\ cancellations[IdOf[w]] = v
                             /\ result[v] = "duplicate"

\* While somebody waits at the gate there is a thread that will wake a waiter
\* or that holds the place it waits for, although begin_shutdown notifies
\* without the mutex and enter refuses without notifying.
WaiterHasWaker ==
    Waiting # {} =>
        \/ server = "notifying"
        \/ \E w \in Workers :
              \/ pc[w] \in {"notifying", "enter", "admitting"}
              \/ w \in Holders

\* Every request that reached the gate is answered, if handlers return.
EveryDispatchEnds ==
    HandlersCooperate => \A w \in Workers : pc[w] = "enter" ~> pc[w] = "done"

\* Once shutdown is requested server_loop ends, handlers or no handlers.
ShutdownCompletes == shuttingDown ~> server = "done"

\* A handler that runs past its deadline finds its own token set.
DeadlineRaisesToken ==
    \A w \in Deadlined :
        pc[w] = "handling" /\ clock[w] # "before" ~> w \in raised \/ pc[w] # "handling"

\* The graph implements the bounded, closable admission of its callers' view.
status == [w \in Workers |-> IF w \in Running THEN "running"
                             ELSE IF pc[w] = "done" THEN "ended" ELSE "pending"]

Admission == INSTANCE BoundedAdmission
                WITH Requests <- Workers, closed <- shuttingDown

AdmissionSpec == Admission!Spec
=============================================================================
