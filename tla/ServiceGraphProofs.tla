------------------------- MODULE ServiceGraphProofs -------------------------
(***************************************************************************)
(* Proofs about ServiceGraph, for every finite set of connections, every   *)
(* assignment of ids, kinds and deadlines and every max_concurrency > 0.   *)
(***************************************************************************)
EXTENDS ServiceGraph, FiniteSetTheorems, TLAPS

-----------------------------------------------------------------------------
(* Type correctness.                                                        *)

LEMMA InitTypeOK == Init => TypeOK
<1> SUFFICES ASSUME Init PROVE TypeOK
  OBVIOUS
<1>1. shuttingDown \in BOOLEAN
  BY Zenon DEF Init
<1>2. QED
  BY <1>1, SMT DEF Init, TypeOK, Labels, Results, ServerLabels

LEMMA NextTypeOK == ASSUME TypeOK, [Next]_vars PROVE TypeOK'
<1> USE ServiceGraphAssumption DEF TypeOK, Labels, Results, ServerLabels, Goto, Finish
<1>1. ASSUME NEW w \in Workers, Route(w) PROVE TypeOK'
  <2>1. CASE Abandon(w) \/ Reject(w) \/ TooLate(w) \/ Dispatch(w)
    BY <2>1 DEF Abandon, Reject, TooLate, Dispatch
  <2>2. CASE Cancel(w)
    BY <2>2 DEF Cancel
  <2>3. CASE ShutdownStore(w)
    BY <2>3 DEF ShutdownStore
  <2>4. QED BY <1>1, <2>1, <2>2, <2>3 DEF Route
<1>2. ASSUME NEW w \in Workers, Proceed(w) PROVE TypeOK'
  <2>1. CASE ShutdownNotify(w)
    BY <2>1 DEF ShutdownNotify, WakeAll
  <2>2. CASE Park(w) \/ Admit(w)
    BY <2>2 DEF Park, Admit
  <2>3. CASE Register(w)
    BY <2>3 DEF Register
  <2>4. CASE ArmDeadline(w)
    BY <2>4 DEF ArmDeadline, RaisedAtOnce
  <2>5. CASE Unregister(w)
    BY <2>5 DEF Unregister, Removed
  <2>6. QED BY <1>2, <2>1, <2>2, <2>3, <2>4, <2>5 DEF Proceed
<1>3. ASSUME NEW w \in Workers, Enter(w) PROVE TypeOK'
  BY <1>3 DEF Enter
<1>4. ASSUME NEW w \in Workers, SpuriousWake(w) PROVE TypeOK'
  BY <1>4 DEF SpuriousWake
<1>5. ASSUME NEW w \in Workers, Release(w) PROVE TypeOK'
  BY <1>5 DEF Release, WakeOne, Returned, Waiting
<1>6. ASSUME NEW w \in Workers, HandlerReturns(w) \/ HandlerPanics(w) PROVE TypeOK'
  BY <1>6 DEF HandlerReturns, HandlerPanics
<1>7. ASSUME NEW w \in Workers, PassTime(w) \/ FireDeadline(w) PROVE TypeOK'
  BY <1>7 DEF PassTime, FireDeadline
<1>8. ASSUME ServerStep PROVE TypeOK'
  <2>1. CASE ServerCheck \/ AcceptNothing \/ Drain
    BY <2>1 DEF ServerCheck, AcceptNothing, Drain
  <2>2. CASE ServerStore
    BY <2>2 DEF ServerStore
  <2>3. CASE ServerNotify
    BY <2>3 DEF ServerNotify, WakeAll
  <2>4. ASSUME NEW w \in Workers, Accept(w) PROVE TypeOK'
    BY <2>4 DEF Accept
  <2>5. QED BY <1>8, <2>1, <2>2, <2>3, <2>4 DEF ServerStep
<1>9. CASE UNCHANGED vars \/ Stopped
  BY <1>9 DEF vars, Stopped
<1>10. QED
  BY <1>1, <1>2, <1>3, <1>4, <1>5, <1>6, <1>7, <1>8, <1>9 DEF Next, WorkerStep

\* Every variable keeps its type, whatever the threads, clients, handlers and
\* the clock do.
THEOREM TypeCorrect == Spec => []TypeOK
<1>1. Init => TypeOK BY InitTypeOK
<1>2. TypeOK /\ [Next]_vars => TypeOK' BY NextTypeOK
<1>3. QED BY <1>1, <1>2, PTL DEF Spec

-----------------------------------------------------------------------------
(* The gate: permits are accounted for and bounded.                         *)

HoldingLabels == {"admitted", "arming", "handling", "unregister", "releasing"}
GateLabels == {"parking", "admitting"}

\* The inductive invariant.  The mutex is what makes it inductive: at most one
\* thread is between its reading of the counter and what it does about it, so
\* what it read still holds.
GateInv ==
    /\ PermitAccounting
    /\ active <= Maximum
    /\ \A w \in Workers : pc[w] = "admitting" => active < Maximum
    /\ \A w \in Workers : pc[w] = "parking" => active = Maximum
    /\ \A v, w \in Workers :
          pc[v] \in GateLabels /\ pc[w] \in GateLabels => v = w

LEMMA HoldersFinite == /\ IsFiniteSet(Holders)
                       /\ Cardinality(Holders) \in Nat
BY FS_Subset, FS_CardinalityType, ServiceGraphAssumption DEF Holders

\* Which steps touch the gate, and how: a step of any other kind neither moves
\* the counter nor the set of permit holders, nor brings a thread into the
\* gate's critical section.
LEMMA GateFrame ==
    ASSUME TypeOK, [Next]_vars
    PROVE  \/ \E w \in Workers : Enter(w) \/ Park(w) \/ Admit(w) \/ Release(w)
           \/ /\ active' = active
              /\ Holders' = Holders
              /\ \A w \in Workers : pc'[w] \in GateLabels => pc'[w] = pc[w]
<1> DEFINE Frame == /\ active' = active
                    /\ Holders' = Holders
                    /\ \A w \in Workers : pc'[w] \in GateLabels => pc'[w] = pc[w]
<1> USE DEF TypeOK, Labels, Holders, GateLabels, Goto, Finish
<1>1. ASSUME NEW w \in Workers, Route(w) PROVE Frame
  BY <1>1 DEF Route, Abandon, Reject, TooLate, Dispatch, Cancel, ShutdownStore
<1>2. ASSUME NEW w \in Workers, ShutdownNotify(w) PROVE Frame
  BY <1>2 DEF ShutdownNotify, WakeAll
<1>3. ASSUME NEW w \in Workers, Register(w) \/ ArmDeadline(w) \/ Unregister(w)
      PROVE Frame
  BY <1>3 DEF Register, ArmDeadline, Unregister
<1>4. ASSUME NEW w \in Workers, SpuriousWake(w) PROVE Frame
  BY <1>4 DEF SpuriousWake
<1>5. ASSUME NEW w \in Workers, HandlerReturns(w) \/ HandlerPanics(w) PROVE Frame
  BY <1>5 DEF HandlerReturns, HandlerPanics
<1>6. ASSUME NEW w \in Workers, PassTime(w) \/ FireDeadline(w) PROVE Frame
  BY <1>6 DEF PassTime, FireDeadline
<1>7. ASSUME ServerStep PROVE Frame
  BY <1>7 DEF ServerStep, ServerCheck, Accept, AcceptNothing, ServerStore,
              ServerNotify, WakeAll, Drain
<1>8. CASE UNCHANGED vars \/ Stopped
  BY <1>8 DEF vars, Stopped
<1>9. QED
  BY <1>1, <1>2, <1>3, <1>4, <1>5, <1>6, <1>7, <1>8 DEF Next, WorkerStep, Proceed

LEMMA InitGateInv == Init => GateInv
<1> SUFFICES ASSUME Init PROVE GateInv
  OBVIOUS
<1>1. Holders = {}
  BY DEF Init, Holders
<1>2. PermitAccounting
  BY <1>1, FS_EmptySet DEF Init, PermitAccounting
<1>3. QED
  BY <1>2, ServiceGraphAssumption DEF Init, GateInv, GateLabels

LEMMA NextGateInv == ASSUME TypeOK, GateInv, [Next]_vars PROVE GateInv'
<1> USE ServiceGraphAssumption DEF GateInv, PermitAccounting, GateLabels
<1>1. ASSUME NEW w \in Workers, Enter(w) PROVE GateInv'
  <2>1. Holders' = Holders /\ active' = active
    BY <1>1 DEF Enter, Goto, Finish, Holders, TypeOK
  <2>2. \A v \in Workers : v # w => pc[v] \notin GateLabels /\ pc'[v] = pc[v]
    BY <1>1 DEF Enter, Goto, Finish, GateHeld, TypeOK
  <2>3. pc'[w] = "admitting" => active < Maximum
    BY <1>1 DEF Enter, Goto, Finish, Full, TypeOK
  <2>4. pc'[w] = "parking" => active = Maximum
    BY <1>1 DEF Enter, Goto, Finish, Full, TypeOK
  <2>5. QED BY <2>1, <2>2, <2>3, <2>4
<1>2. ASSUME NEW w \in Workers, Park(w) PROVE GateInv'
  <2>1. Holders' = Holders /\ active' = active
    BY <1>2 DEF Park, Goto, Holders, TypeOK
  <2>2. \A v \in Workers : pc'[v] \in GateLabels => pc'[v] = pc[v]
    BY <1>2 DEF Park, Goto, TypeOK
  <2>3. QED BY <2>1, <2>2
<1>3. ASSUME NEW w \in Workers, Admit(w) PROVE GateInv'
  <2>1. Holders' = Holders \cup {w} /\ w \notin Holders
    BY <1>3 DEF Admit, Goto, Holders, TypeOK
  <2>2. Cardinality(Holders') = Cardinality(Holders) + 1
    BY <2>1, HoldersFinite, FS_AddElement
  <2>3. active' = active + 1 /\ active < Maximum
    BY <1>3 DEF Admit
  <2>4. \A v \in Workers : pc'[v] \notin GateLabels
    BY <1>3 DEF Admit, Goto, TypeOK
  <2>5. QED BY <2>2, <2>3, <2>4 DEF TypeOK
<1>4. ASSUME NEW w \in Workers, Release(w) PROVE GateInv'
  <2>1. Holders' = Holders \ {w} /\ w \in Holders
    BY <1>4 DEF Release, WakeOne, Waiting, Holders, TypeOK
  <2>2. Cardinality(Holders') = Cardinality(Holders) - 1
    BY <2>1, HoldersFinite, FS_RemoveElement
  <2>3. Cardinality(Holders) # 0
    BY <2>1, HoldersFinite, FS_EmptySet
  <2>4. active' = active - 1
    BY <1>4, <2>3 DEF Release, Returned
  <2>5. \A v \in Workers : pc'[v] \notin GateLabels
    BY <1>4 DEF Release, WakeOne, Waiting, GateHeld, TypeOK
  <2>6. QED BY <2>2, <2>4, <2>5 DEF TypeOK
<1>5. CASE /\ active' = active
           /\ Holders' = Holders
           /\ \A w \in Workers : pc'[w] \in GateLabels => pc'[w] = pc[w]
  BY <1>5
<1>6. QED
  BY <1>1, <1>2, <1>3, <1>4, <1>5, GateFrame

LEMMA GateInvariant == Spec => [](TypeOK /\ GateInv)
<1>1. Init => TypeOK /\ GateInv
  BY InitTypeOK, InitGateInv
<1>2. TypeOK /\ GateInv /\ [Next]_vars => (TypeOK /\ GateInv)'
  BY NextTypeOK, NextGateInv
<1>3. QED BY <1>1, <1>2, PTL DEF Spec

\* No path through dispatch leaks a permit or returns one twice: the counter
\* is the number of threads that own a permit.
THEOREM PermitsAccountedFor == Spec => []PermitAccounting
<1>1. GateInv => PermitAccounting BY DEF GateInv
<1>2. QED BY <1>1, GateInvariant, PTL

LEMMA RunningBounded == ASSUME TypeOK, GateInv PROVE GateBound
<1> DEFINE Admitting == {w \in Workers : pc[w] = "admitting"}
<1>1. CASE Admitting = {}
  <2>1. Running = Holders
    BY <1>1 DEF Running
  <2>2. QED BY <2>1 DEF GateInv, PermitAccounting, GateBound
<1>2. CASE Admitting # {}
  <2>1. PICK w \in Workers : pc[w] = "admitting"
    BY <1>2
  <2>2. Running = Holders \cup {w}
    BY <2>1 DEF Running, GateInv, GateLabels
  <2>3. w \notin Holders
    BY <2>1 DEF Holders
  <2>4. Cardinality(Holders \cup {w}) = Cardinality(Holders) + 1
    BY <2>3, HoldersFinite, FS_AddElement
  <2>5. active < Maximum /\ active = Cardinality(Holders)
    BY <2>1 DEF GateInv, PermitAccounting
  <2>6. QED
    BY <2>2, <2>4, <2>5, ServiceGraphAssumption, HoldersFinite DEF GateBound
<1>3. QED BY <1>1, <1>2

\* At most max_concurrency requests are inside the gate, counting the one that
\* is being admitted.
THEOREM ConcurrencyBounded == Spec => []GateBound
<1>1. TypeOK /\ GateInv => GateBound BY RunningBounded
<1>2. QED BY <1>1, GateInvariant, PTL

-----------------------------------------------------------------------------
(* The cancellations map.                                                   *)

\* A result is written when a request leaves the handler or fails, so a thread
\* that has not got there has none.
ResultInv ==
    \A w \in Workers :
        /\ pc[w] \notin {"unregister", "releasing", "done"} => result[w] = "none"
        /\ pc[w] = "unregister" => result[w] = "ok"

\* The inductive invariant: every registered request finds its id occupied,
\* which is what makes an unoccupied id proof that nobody runs under it.
TableInv ==
    /\ ResultInv
    /\ \A w \in Registered : cancellations[IdOf[w]] # NoToken
    /\ UniqueHandler
    /\ EntriesOwned
    /\ TokenDisplacedOnlyByDuplicate

\* Which steps touch the map, the registered requests or an answer that was
\* already given.
LEMMA TableFrame ==
    ASSUME TypeOK, ResultInv, [Next]_vars
    PROVE  \/ \E w \in Workers : Register(w) \/ ArmDeadline(w) \/ Unregister(w)
                                  \/ HandlerReturns(w) \/ HandlerPanics(w)
           \/ /\ cancellations' = cancellations
              /\ Registered' = Registered
              /\ ResultInv'
              /\ \A w \in Workers :
                    result[w] \in {"panicked", "clock", "duplicate"} =>
                        result'[w] = result[w]
<1> DEFINE Frame == /\ cancellations' = cancellations
                    /\ Registered' = Registered
                    /\ ResultInv'
                    /\ \A w \in Workers :
                          result[w] \in {"panicked", "clock", "duplicate"} =>
                              result'[w] = result[w]
<1> USE DEF TypeOK, Labels, Results, Registered, ResultInv, Goto, Finish
<1>1. ASSUME NEW w \in Workers, Route(w) PROVE Frame
  <2>1. CASE Abandon(w) \/ Reject(w) \/ TooLate(w) \/ Dispatch(w)
    BY <2>1 DEF Abandon, Reject, TooLate, Dispatch
  <2>2. CASE Cancel(w) \/ ShutdownStore(w)
    BY <2>2 DEF Cancel, ShutdownStore
  <2>3. QED BY <1>1, <2>1, <2>2 DEF Route
<1>2. ASSUME NEW w \in Workers, ShutdownNotify(w) PROVE Frame
  BY <1>2 DEF ShutdownNotify, WakeAll
<1>3. ASSUME NEW w \in Workers, Enter(w) PROVE Frame
  BY <1>3 DEF Enter
<1>4. ASSUME NEW w \in Workers, Park(w) \/ SpuriousWake(w) \/ Admit(w) PROVE Frame
  BY <1>4 DEF Park, SpuriousWake, Admit
<1>5. ASSUME NEW w \in Workers, Release(w) PROVE Frame
  BY <1>5 DEF Release, WakeOne, Waiting
<1>6. ASSUME NEW w \in Workers, PassTime(w) \/ FireDeadline(w) PROVE Frame
  BY <1>6 DEF PassTime, FireDeadline
<1>7. ASSUME ServerStep PROVE Frame
  BY <1>7 DEF ServerStep, ServerCheck, Accept, AcceptNothing, ServerStore,
              ServerNotify, WakeAll, Drain
<1>8. CASE UNCHANGED vars \/ Stopped
  BY <1>8 DEF vars, Stopped
<1>9. QED
  BY <1>1, <1>2, <1>3, <1>4, <1>5, <1>6, <1>7, <1>8 DEF Next, WorkerStep, Proceed

LEMMA InitTableInv == Init => TableInv
BY DEF Init, TableInv, ResultInv, Registered, UniqueHandler, EntriesOwned,
       TokenDisplacedOnlyByDuplicate

LEMMA NextTableInv == ASSUME TypeOK, TableInv, [Next]_vars PROVE TableInv'
<1> USE ServiceGraphAssumption
    DEF TypeOK, TableInv, UniqueHandler, EntriesOwned, TokenDisplacedOnlyByDuplicate
<1>1. ASSUME NEW w \in Workers, Register(w) PROVE TableInv'
  <2>1. /\ pc[w] = "admitted" /\ result[w] = "none" /\ w \notin Registered
        /\ cancellations' = [cancellations EXCEPT ![IdOf[w]] = w]
    BY <1>1 DEF Register, ResultInv, Registered
  <2>2. ResultInv'
    BY <1>1 DEF Register, Goto, ResultInv
  <2>3. CASE ~Occupied(w)
    <3>1. Registered' = Registered \cup {w} /\ result' = result
      BY <1>1, <2>3 DEF Register, Goto, Registered
    <3>2. \A v \in Registered : IdOf[v] # IdOf[w]
      BY <2>3 DEF Occupied
    <3>3. QED BY <2>1, <2>2, <3>1, <3>2 DEF Registered
  <2>4. CASE Occupied(w)
    <3>1. /\ Registered' = Registered
          /\ result' = [result EXCEPT ![w] = "duplicate"]
      BY <1>1, <2>4 DEF Register, Goto, Registered
    <3>2. cancellations[IdOf[w]] # NoToken
      BY <2>4 DEF Occupied
    <3>3. /\ \A v \in Registered : cancellations'[IdOf[v]] # NoToken
          /\ UniqueHandler'
      BY <2>1, <3>1 DEF Registered
    <3>4. EntriesOwned'
      BY <2>1, <3>1, <3>2
    <3>5. TokenDisplacedOnlyByDuplicate'
      BY <2>1, <3>1 DEF Registered
    <3>6. QED BY <2>2, <3>1, <3>3, <3>4, <3>5
  <2>5. QED BY <2>3, <2>4
<1>2. ASSUME NEW w \in Workers, ArmDeadline(w) PROVE TableInv'
  <2>1. CASE w \in Deadlined \cap ClockFaults
    <3>1. /\ Registered' = Registered \ {w} /\ w \in Registered
          /\ cancellations' = cancellations
          /\ result' = [result EXCEPT ![w] = "clock"]
          /\ result[w] = "none"
      BY <1>2, <2>1 DEF ArmDeadline, Goto, Registered, ResultInv
    <3>2. ResultInv'
      BY <1>2, <2>1 DEF ArmDeadline, Goto, ResultInv
    <3>3. QED BY <3>1, <3>2 DEF Registered
  <2>2. CASE w \notin Deadlined \cap ClockFaults
    <3>1. /\ Registered' = Registered /\ cancellations' = cancellations
          /\ result' = result
      BY <1>2, <2>2 DEF ArmDeadline, Goto, Registered
    <3>2. ResultInv'
      BY <1>2, <2>2 DEF ArmDeadline, Goto, ResultInv
    <3>3. QED BY <3>1, <3>2
  <2>3. QED BY <2>1, <2>2
<1>3. ASSUME NEW w \in Workers, Unregister(w) PROVE TableInv'
  <2>1. /\ Registered' = Registered \ {w} /\ w \in Registered
        /\ cancellations' = [cancellations EXCEPT ![IdOf[w]] = NoToken]
        /\ result' = result
    BY <1>3 DEF Unregister, Removed, Goto, Registered
  <2>2. ResultInv'
    BY <1>3 DEF Unregister, Goto, ResultInv
  <2>3. \A v \in Registered' : IdOf[v] # IdOf[w]
    BY <2>1
  <2>4. QED BY <2>1, <2>2, <2>3 DEF Registered
<1>4. ASSUME NEW w \in Workers, HandlerReturns(w) PROVE TableInv'
  <2>1. /\ Registered' = Registered /\ cancellations' = cancellations
        /\ result' = [result EXCEPT ![w] = "ok"] /\ result[w] = "none"
    BY <1>4 DEF HandlerReturns, Goto, Registered, ResultInv
  <2>2. ResultInv'
    BY <1>4 DEF HandlerReturns, Goto, ResultInv
  <2>3. EntriesOwned'
    BY <2>1
  <2>4. TokenDisplacedOnlyByDuplicate'
    BY <2>1 DEF Registered
  <2>5. QED BY <2>1, <2>2, <2>3, <2>4
<1>5. ASSUME NEW w \in Workers, HandlerPanics(w) PROVE TableInv'
  <2>1. /\ Registered' = Registered \ {w} /\ w \in Registered
        /\ cancellations' = cancellations
        /\ result' = [result EXCEPT ![w] = "panicked"] /\ result[w] = "none"
    BY <1>5 DEF HandlerPanics, Goto, Registered, ResultInv
  <2>2. ResultInv'
    BY <1>5 DEF HandlerPanics, Goto, ResultInv
  <2>3. EntriesOwned'
    BY <2>1
  <2>4. TokenDisplacedOnlyByDuplicate'
    BY <2>1 DEF Registered
  <2>5. QED BY <2>1, <2>2, <2>3, <2>4 DEF Registered
<1>6. CASE /\ cancellations' = cancellations
           /\ Registered' = Registered
           /\ ResultInv'
           /\ \A w \in Workers :
                 result[w] \in {"panicked", "clock", "duplicate"} =>
                     result'[w] = result[w]
  BY <1>6
<1>7. QED
  BY <1>1, <1>2, <1>3, <1>4, <1>5, <1>6, TableFrame

LEMMA TableInvariant == Spec => [](TypeOK /\ TableInv)
<1>1. Init => TypeOK /\ TableInv
  BY InitTypeOK, InitTableInv
<1>2. TypeOK /\ TableInv /\ [Next]_vars => (TypeOK /\ TableInv)'
  BY NextTypeOK, NextTableInv
<1>3. QED BY <1>1, <1>2, PTL DEF Spec

\* Two live requests never share an id, although the map forgets the first
\* one's token when the second one arrives.
THEOREM HandlersUnique == Spec => []UniqueHandler
<1>1. TableInv => UniqueHandler BY DEF TableInv
<1>2. QED BY <1>1, TableInvariant, PTL

\* An id whose request is gone is free again, unless its handler panicked or
\* the clock could not be read.
THEOREM EntriesAreOwned == Spec => []EntriesOwned
<1>1. TableInv => EntriesOwned BY DEF TableInv
<1>2. QED BY <1>1, TableInvariant, PTL

\* Only a duplicate id can take a running request's token out of the map.
THEOREM DisplacementNeedsDuplicate == Spec => []TokenDisplacedOnlyByDuplicate
<1>1. TableInv => TokenDisplacedOnlyByDuplicate BY DEF TableInv
<1>2. QED BY <1>1, TableInvariant, PTL

-----------------------------------------------------------------------------
(* No stranded waiter.                                                      *)

Notifying == server = "notifying" \/ \E w \in Workers : pc[w] = "notifying"
Queued == {w \in Workers : pc[w] \in {"parking", "waiting"}}

\* The inductive invariant.  When the flag is set and every notify_all is over,
\* at most one thread can still be queued, the one that was between reading
\* the flag and waiting; and the permits it found taken are still out, so a
\* release will notify it.
WakerInv ==
    /\ WaiterHasWaker
    /\ shuttingDown /\ ~Notifying =>
          /\ \A v, w \in Queued : v = w
          /\ Queued # {} => Holders # {}
    /\ Notifying => shuttingDown
    /\ server \in {"notifying", "draining", "done"} => shuttingDown

LEMMA ParkedFindsHolder ==
    ASSUME TypeOK, GateInv, active >= Maximum PROVE Holders # {}
<1>1. Cardinality(Holders) # 0
  BY ServiceGraphAssumption DEF GateInv, PermitAccounting, TypeOK
<1>2. QED BY <1>1, FS_EmptySet

LEMMA InitWakerInv == Init => WakerInv
BY DEF Init, WakerInv, WaiterHasWaker, Waiting, Notifying

\* Steps that leave the gate's queue, its holders and the notifiers alone.
LEMMA WakerFrame ==
    ASSUME TypeOK, WakerInv,
           shuttingDown' = shuttingDown,
           Waiting' = Waiting,
           Queued' = Queued,
           Holders' = Holders,
           Notifying' = Notifying,
           server \in {"notifying"} <=> server' \in {"notifying"},
           server' \in {"notifying", "draining", "done"} => shuttingDown,
           \A w \in Workers : pc[w] \in {"notifying", "enter", "admitting"}
                                  => pc'[w] = pc[w]
    PROVE  WakerInv'
BY DEF WakerInv, WaiterHasWaker

\* After a notify_all, whoever makes it, only the thread inside the gate's
\* critical section can still be on its way to the wait set.
LEMMA NotifyAllKeepsWakerInv ==
    ASSUME TypeOK, GateInv, WakerInv,
           shuttingDown, shuttingDown' = shuttingDown,
           Waiting' = {},
           Queued' = {w \in Workers : pc[w] = "parking"},
           Holders' = Holders
    PROVE  WakerInv'
<1>1. \A v, w \in Queued' : v = w
  BY DEF GateInv, GateLabels
<1>2. Queued' # {} => Holders # {}
  BY ParkedFindsHolder, ServiceGraphAssumption DEF GateInv
<1>3. QED
  BY <1>1, <1>2 DEF WakerInv, WaiterHasWaker

LEMMA NextWakerInv ==
    ASSUME TypeOK, GateInv, WakerInv, [Next]_vars PROVE WakerInv'
<1> USE DEF TypeOK, Goto, Finish
<1>1. ASSUME NEW w \in Workers, Abandon(w) \/ Reject(w) \/ TooLate(w) \/ Dispatch(w)
      PROVE WakerInv'
  BY <1>1, WakerFrame DEF Abandon, Reject, TooLate, Dispatch, Waiting, Queued,
                          Holders, Notifying, WakerInv
<1>2. ASSUME NEW w \in Workers, Cancel(w) PROVE WakerInv'
  BY <1>2, WakerFrame DEF Cancel, Waiting, Queued, Holders, Notifying, WakerInv
<1>3. ASSUME NEW w \in Workers, ShutdownStore(w) PROVE WakerInv'
  BY <1>3 DEF ShutdownStore, WakerInv, WaiterHasWaker, Notifying
<1>4. ASSUME NEW w \in Workers, ShutdownNotify(w) PROVE WakerInv'
  <2>1. shuttingDown
    BY <1>4 DEF ShutdownNotify, WakerInv, Notifying
  <2>2. Waiting' = {}
    BY <1>4 DEF ShutdownNotify, WakeAll, Waiting
  <2>3. Queued' = {v \in Workers : pc[v] = "parking"}
    BY <1>4 DEF ShutdownNotify, WakeAll, Queued
  <2>4. Holders' = Holders /\ shuttingDown' = shuttingDown
    BY <1>4 DEF ShutdownNotify, WakeAll, Holders
  <2>5. QED BY <2>1, <2>2, <2>3, <2>4, NotifyAllKeepsWakerInv
<1>5. ASSUME NEW w \in Workers, Enter(w) PROVE WakerInv'
  <2>1. Waiting' = Waiting /\ Holders' = Holders /\ shuttingDown' = shuttingDown
        /\ server' = server /\ Notifying' = Notifying
    BY <1>5 DEF Enter, Waiting, Holders, Notifying
  <2>2. CASE Stopping
    <3>1. Queued' = Queued
      BY <1>5, <2>2 DEF Enter, Queued
    <3>2. Waiting # {} /\ ~Notifying => Holders # {}
      BY <2>2 DEF Stopping, WakerInv, Waiting, Queued
    <3>3. Notifying' => server' = "notifying" \/ \E v \in Workers : pc'[v] = "notifying"
      BY DEF Notifying
    <3>4. WaiterHasWaker'
      BY <2>1, <3>2, <3>3 DEF WaiterHasWaker, Holders
    <3>5. QED BY <2>1, <3>1, <3>4 DEF WakerInv
  <2>3. CASE Full /\ ~Stopping
    <3>1. Holders # {}
      BY <2>3, ParkedFindsHolder DEF Full
    <3>2. WaiterHasWaker'
      BY <2>1, <3>1 DEF WaiterHasWaker, Holders
    <3>3. QED BY <2>1, <2>3, <3>2 DEF WakerInv, Stopping
  <2>4. CASE ~Full /\ ~Stopping
    <3>1. pc'[w] = "admitting"
      BY <1>5, <2>4 DEF Enter
    <3>2. QED BY <2>1, <2>4, <3>1 DEF WakerInv, WaiterHasWaker, Stopping
  <2>5. QED BY <2>2, <2>3, <2>4
<1>6. ASSUME NEW w \in Workers, Park(w) PROVE WakerInv'
  <2>1. Holders # {}
    BY <1>6, ParkedFindsHolder, ServiceGraphAssumption DEF Park, GateInv
  <2>2. /\ Queued' = Queued /\ Holders' = Holders /\ server' = server
        /\ shuttingDown' = shuttingDown /\ Notifying' = Notifying
    BY <1>6 DEF Park, Queued, Holders, Notifying
  <2>3. QED BY <2>1, <2>2 DEF WakerInv, WaiterHasWaker, Holders
<1>7. ASSUME NEW w \in Workers, SpuriousWake(w) PROVE WakerInv'
  <2>1. /\ Queued' \subseteq Queued /\ Holders' = Holders /\ server' = server
        /\ shuttingDown' = shuttingDown /\ Notifying' = Notifying
        /\ pc'[w] = "enter"
    BY <1>7 DEF SpuriousWake, Queued, Holders, Notifying
  <2>2. QED BY <2>1 DEF WakerInv, WaiterHasWaker
<1>8. ASSUME NEW w \in Workers, Admit(w) PROVE WakerInv'
  <2>1. /\ Queued' = Queued /\ w \in Holders' /\ server' = server
        /\ shuttingDown' = shuttingDown /\ Notifying' = Notifying
    BY <1>8 DEF Admit, Queued, Holders, Notifying
  <2>2. QED BY <2>1 DEF WakerInv, WaiterHasWaker
<1>9. ASSUME NEW w \in Workers, Release(w) PROVE WakerInv'
  <2>1. server' = server /\ shuttingDown' = shuttingDown /\ Notifying' = Notifying
    BY <1>9 DEF Release, WakeOne, Waiting, Notifying
  <2>2. Queued = Waiting
    BY <1>9 DEF Release, GateHeld, Queued, Waiting
  <2>3. CASE Waiting = {}
    <3>1. Waiting' = {} /\ Queued' = {}
      BY <1>9, <2>2, <2>3 DEF Release, WakeOne, Queued, Waiting
    <3>2. QED BY <2>1, <3>1 DEF WakerInv, WaiterHasWaker
  <2>4. CASE Waiting # {}
    <3>1. PICK v \in Waiting : pc' = [[pc EXCEPT ![w] = "done"] EXCEPT ![v] = "enter"]
      BY <1>9, <2>4 DEF Release, WakeOne
    <3>2. v \in Workers /\ pc'[v] = "enter" /\ Queued' = Queued \ {v} /\ v \in Queued
      BY <1>9, <2>2, <3>1 DEF Release, Waiting, Queued
    <3>3. QED BY <2>1, <3>2 DEF WakerInv, WaiterHasWaker
  <2>5. QED BY <2>3, <2>4
<1>10. ASSUME NEW w \in Workers, \/ Register(w) \/ ArmDeadline(w) \/ Unregister(w)
                                 \/ HandlerReturns(w) \/ HandlerPanics(w)
       PROVE WakerInv'
  <2>1. PICK label \in {"arming", "handling", "unregister", "releasing"} :
           /\ pc' = [pc EXCEPT ![w] = label]
           /\ w \in Holders /\ pc[w] # "admitting"
           /\ UNCHANGED <<shuttingDown, server>>
    BY <1>10 DEF Register, ArmDeadline, Unregister, HandlerReturns, HandlerPanics,
                 Holders
  <2>2. Waiting' = Waiting /\ Queued' = Queued /\ Holders' = Holders
        /\ Notifying' = Notifying
    BY <2>1 DEF Waiting, Queued, Holders, Notifying
  <2>3. QED BY <2>1, <2>2, WakerFrame DEF Holders, WakerInv
<1>11. ASSUME NEW w \in Workers, PassTime(w) \/ FireDeadline(w) PROVE WakerInv'
  BY <1>11, WakerFrame DEF PassTime, FireDeadline, Waiting, Queued, Holders,
                           Notifying, WakerInv
<1>12. ASSUME ServerStep PROVE WakerInv'
  <2>1. CASE ServerCheck \/ AcceptNothing \/ Drain
    BY <2>1 DEF ServerCheck, AcceptNothing, Drain, WakerInv, WaiterHasWaker,
                Waiting, Queued, Holders, Notifying
  <2>2. CASE ServerStore
    BY <2>2 DEF ServerStore, WakerInv, WaiterHasWaker, Notifying
  <2>3. CASE ServerNotify
    <3>1. shuttingDown /\ shuttingDown' = shuttingDown
      BY <2>3 DEF ServerNotify, WakerInv
    <3>2. Waiting' = {} /\ Queued' = {v \in Workers : pc[v] = "parking"}
      BY <2>3 DEF ServerNotify, WakeAll, Waiting, Queued
    <3>3. Holders' = Holders
      BY <2>3 DEF ServerNotify, WakeAll, Holders
    <3>4. QED BY <3>1, <3>2, <3>3, NotifyAllKeepsWakerInv
  <2>4. ASSUME NEW w \in Workers, Accept(w) PROVE WakerInv'
    BY <2>4, WakerFrame DEF Accept, Waiting, Queued, Holders, Notifying, WakerInv
  <2>5. QED BY <1>12, <2>1, <2>2, <2>3, <2>4 DEF ServerStep
<1>13. CASE UNCHANGED vars \/ Stopped
  BY <1>13, WakerFrame DEF vars, Stopped, Waiting, Queued, Holders, Notifying, WakerInv
<1>14. QED
  BY <1>1, <1>2, <1>3, <1>4, <1>5, <1>6, <1>7, <1>8, <1>9, <1>10, <1>11, <1>12,
     <1>13 DEF Next, WorkerStep, Route, Proceed

\* Nobody waits at the gate without a thread that will wake a waiter, although
\* begin_shutdown notifies without the mutex and refusals do not notify.
THEOREM NoStrandedWaiter == Spec => []WaiterHasWaker
<1>1. Init => TypeOK /\ GateInv /\ WakerInv
  BY InitTypeOK, InitGateInv, InitWakerInv
<1>2. TypeOK /\ GateInv /\ WakerInv /\ [Next]_vars => (TypeOK /\ GateInv /\ WakerInv)'
  BY NextTypeOK, NextGateInv, NextWakerInv
<1>3. WakerInv => WaiterHasWaker
  BY DEF WakerInv
<1>4. QED BY <1>1, <1>2, <1>3, PTL DEF Spec

-----------------------------------------------------------------------------
(* Refinement of BoundedAdmission.                                          *)

LEMMA RunningIsHolders ==
    ASSUME ~GateHeld PROVE Running = Holders
BY DEF GateHeld, Running

LEMMA StatusTypes ==
    ASSUME TypeOK PROVE /\ status \in [Workers -> {"pending", "running", "ended"}]
                        /\ Admission!Running = Running
BY DEF status, Admission!Running, Running, Holders

\* A step that moves no thread into or out of the gate, and ends none, is a
\* stutter of the abstract admission, or its Close.
LEMMA QuietStep ==
    ASSUME status' = status, shuttingDown' = shuttingDown \/ shuttingDown' = TRUE
    PROVE  [Admission!Next]_(Admission!vars)
BY DEF Admission!Next, Admission!Close, Admission!vars

LEMMA StepRefines ==
    ASSUME TypeOK, GateInv, [Next]_vars
    PROVE  [Admission!Next]_(Admission!vars)
<1> USE DEF TypeOK, Goto, Finish
<1>1. ASSUME NEW w \in Workers,
             status[w] = "pending", status' = [status EXCEPT ![w] = "ended"],
             shuttingDown' = shuttingDown
      PROVE  [Admission!Next]_(Admission!vars)
  BY <1>1 DEF Admission!Next, Admission!Refuse
<1>2. ASSUME NEW w \in Workers, \/ Abandon(w) \/ Reject(w) \/ TooLate(w) \/ Cancel(w)
                                \/ ShutdownNotify(w) \/ (Enter(w) /\ Stopping)
      PROVE  [Admission!Next]_(Admission!vars)
  <2>1. pc[w] \in {"reading", "notifying", "enter"} /\ pc'[w] = "done"
    BY <1>2 DEF Abandon, Reject, TooLate, Cancel, ShutdownNotify, WakeAll, Enter
  <2>2. ASSUME NEW v \in Workers, v # w
        PROVE  pc'[v] = pc[v] \/ (pc[v] = "waiting" /\ pc'[v] = "enter")
    <3>1. CASE ShutdownNotify(w)
      BY <2>2, <3>1 DEF ShutdownNotify, WakeAll
    <3>2. CASE ~ShutdownNotify(w)
      BY <1>2, <2>2, <3>2 DEF Abandon, Reject, TooLate, Cancel, Enter
    <3>3. QED BY <3>1, <3>2
  <2>3. status[w] = "pending" /\ status' = [status EXCEPT ![w] = "ended"]
    BY <2>1, <2>2 DEF status, Running, Holders
  <2>4. shuttingDown' = shuttingDown
    BY <1>2 DEF Abandon, Reject, TooLate, Cancel, ShutdownNotify, Enter
  <2>5. QED BY <1>1, <2>3, <2>4
<1>3. ASSUME NEW w \in Workers, Enter(w), ~Stopping
      PROVE  [Admission!Next]_(Admission!vars)
  <2>1. CASE Full
    <3>1. pc' = [pc EXCEPT ![w] = "parking"] /\ pc[w] = "enter"
      BY <1>3, <2>1 DEF Enter
    <3>2. status' = status
      BY <3>1 DEF status, Running, Holders
    <3>3. QED BY <1>3, <3>2, QuietStep DEF Enter
  <2>2. CASE ~Full
    <3>1. pc' = [pc EXCEPT ![w] = "admitting"] /\ pc[w] = "enter"
      BY <1>3, <2>2 DEF Enter
    <3>2. status[w] = "pending" /\ status' = [status EXCEPT ![w] = "running"]
      BY <3>1 DEF status, Running, Holders
    <3>3. Admission!Running = Holders
      BY <1>3, RunningIsHolders, StatusTypes DEF Enter
    <3>4. Cardinality(Admission!Running) < Maximum
      BY <2>2, <3>3, ServiceGraphAssumption DEF Full, GateInv, PermitAccounting
    <3>5. ~shuttingDown /\ shuttingDown' = shuttingDown
      BY <1>3 DEF Enter, Stopping
    <3>6. Admission!Start(w)
      BY <3>2, <3>4, <3>5 DEF Admission!Start, Admission!Cardinality, Cardinality
    <3>7. QED BY <3>6 DEF Admission!Next
  <2>3. QED BY <2>1, <2>2
<1>4. ASSUME NEW w \in Workers, Release(w) PROVE [Admission!Next]_(Admission!vars)
  <2>1. pc[w] = "releasing" /\ pc'[w] = "done"
    BY <1>4 DEF Release, WakeOne, Waiting
  <2>2. ASSUME NEW v \in Workers, v # w
        PROVE  pc'[v] = pc[v] \/ (pc[v] = "waiting" /\ pc'[v] = "enter")
    <3>1. CASE Waiting = {}
      BY <1>4, <2>2, <3>1 DEF Release, WakeOne
    <3>2. CASE Waiting # {}
      <4>1. PICK u \in Waiting : pc' = [[pc EXCEPT ![w] = "done"] EXCEPT ![u] = "enter"]
        BY <1>4, <3>2 DEF Release, WakeOne
      <4>2. QED BY <2>2, <4>1 DEF Waiting
    <3>3. QED BY <3>1, <3>2
  <2>3. status[w] = "running" /\ status' = [status EXCEPT ![w] = "ended"]
    BY <2>1, <2>2 DEF status, Running, Holders
  <2>4. Admission!Stop(w)
    BY <1>4, <2>3 DEF Admission!Stop, Release
  <2>5. QED BY <2>4 DEF Admission!Next
<1>5. ASSUME NEW w \in Workers, \/ Dispatch(w) \/ ShutdownStore(w) \/ Park(w)
                                \/ SpuriousWake(w)
      PROVE  [Admission!Next]_(Admission!vars)
  <2>1. PICK label \in {"enter", "notifying", "waiting"} :
           pc' = [pc EXCEPT ![w] = label]
           /\ pc[w] \in {"reading", "parking", "waiting"}
    BY <1>5 DEF Dispatch, ShutdownStore, Park, SpuriousWake
  <2>2. status' = status
    BY <2>1 DEF status, Running, Holders
  <2>3. shuttingDown' = shuttingDown \/ shuttingDown' = TRUE
    BY <1>5 DEF Dispatch, ShutdownStore, Park, SpuriousWake
  <2>4. QED BY <2>2, <2>3, QuietStep
<1>6. ASSUME NEW w \in Workers, \/ Admit(w) \/ Register(w) \/ ArmDeadline(w)
                                \/ Unregister(w) \/ HandlerReturns(w) \/ HandlerPanics(w)
      PROVE  [Admission!Next]_(Admission!vars)
  <2>1. PICK label \in {"admitted", "arming", "handling", "unregister", "releasing"} :
           pc' = [pc EXCEPT ![w] = label] /\ w \in Running
    BY <1>6 DEF Admit, Register, ArmDeadline, Unregister, HandlerReturns,
                HandlerPanics, Running, Holders
  <2>2. status' = status
    BY <2>1 DEF status, Running, Holders
  <2>3. shuttingDown' = shuttingDown
    BY <1>6 DEF Admit, Register, ArmDeadline, Unregister, HandlerReturns, HandlerPanics
  <2>4. QED BY <2>2, <2>3, QuietStep
<1>7. ASSUME NEW w \in Workers, PassTime(w) \/ FireDeadline(w)
      PROVE  [Admission!Next]_(Admission!vars)
  <2>1. pc' = pc /\ shuttingDown' = shuttingDown
    BY <1>7 DEF PassTime, FireDeadline
  <2>2. status' = status
    BY <2>1 DEF status, Running, Holders
  <2>3. QED BY <2>1, <2>2, QuietStep
<1>8. ASSUME ServerStep PROVE [Admission!Next]_(Admission!vars)
  <2>1. \A w \in Workers : \/ pc'[w] = pc[w]
                           \/ pc[w] = "idle" /\ pc'[w] = "reading"
                           \/ pc[w] = "waiting" /\ pc'[w] = "enter"
    BY <1>8 DEF ServerStep, ServerCheck, Accept, AcceptNothing, ServerStore,
                ServerNotify, WakeAll, Drain
  <2>2. status' = status
    BY <2>1 DEF status, Running, Holders
  <2>3. shuttingDown' = shuttingDown \/ shuttingDown' = TRUE
    BY <1>8 DEF ServerStep, ServerCheck, Accept, AcceptNothing, ServerStore,
                ServerNotify, Drain
  <2>4. QED BY <2>2, <2>3, QuietStep
<1>9. CASE UNCHANGED vars \/ Stopped
  BY <1>9, QuietStep DEF vars, Stopped, status, Running, Holders
<1>10. QED
  BY <1>2, <1>3, <1>4, <1>5, <1>6, <1>7, <1>8, <1>9
  DEF Next, WorkerStep, Route, Proceed

\* The mutex, the condition variable, the token table and the accept loop
\* together implement the bounded admission that closes on shutdown.
THEOREM ImplementsAdmission == Spec => AdmissionSpec
<1>1. Init => Admission!Init
  BY DEF Init, Admission!Init, status, Running, Holders
<1>2. TypeOK /\ GateInv /\ [Next]_vars => [Admission!Next]_(Admission!vars)
  BY StepRefines
<1>3. QED
  BY <1>1, <1>2, GateInvariant, PTL DEF Spec, AdmissionSpec, Admission!Spec
=============================================================================
