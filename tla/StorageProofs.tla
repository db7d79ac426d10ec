--------------------------- MODULE StorageProofs ---------------------------
(***************************************************************************)
(* Proofs about what a data directory holds, for any number of processes.  *)
(*                                                                         *)
(* MemoryStore, with and without FTS5, and any ids, scopes and words: a    *)
(* process past a statement of create_fts5 leaves its object behind for    *)
(* good, so that one that has rebuilt the index has all triggers; from     *)
(* then on every write keeps the index equal to the table, also a write by *)
(* a process that was still opening when it was rebuilt.                   *)
(*                                                                         *)
(* PublicHandler and TelemetryStore: a server knows by its stage whether   *)
(* the call's event is committed; a new event takes a number that no other *)
(* row has, so that its row stays its own; and an event is there only with *)
(* its request.                                                            *)
(*                                                                         *)
(* Artifacts: who lists last sees the files of all that have listed        *)
(* before, so that its removals count for theirs.                          *)
(***************************************************************************)
EXTENDS MemoryStore, PublicHandler, Artifacts, FiniteSetTheorems, WellFoundedInduction, TLAPS

-----------------------------------------------------------------------------
(* The memory database.                                                     *)


Stages == {"closed", "migrate", "ready"} \cup Statements

MemoryTypeOK ==
    /\ parts \subseteq Statements
    /\ rows \in [Ids -> Rows \cup {Absent}]
    /\ stage \in [Openers -> Stages]

\* The stages of a process that has created the trigger of a name.
Past(trigger) ==
    IF trigger = "insert" THEN {"delete", "update", "rebuild", "ready"}
    ELSE IF trigger = "delete" THEN {"update", "rebuild", "ready"}
    ELSE {"rebuild", "ready"}

\* What a process with FTS5 has done, and what the index is after it.
IndexInv ==
    \A p \in Indexers :
        /\ \A trigger \in Triggers : stage[p] \in Past(trigger) => trigger \in parts
        /\ stage[p] = "ready" => index = Rebuilt

\* Only a process with FTS5 runs create_fts5.
OnlyIndexers == \A p \in Openers : stage[p] \in Statements => p \in Indexers

MemoryInv == MemoryTypeOK /\ OnlyIndexers /\ IndexInv

LEMMA InitialInvariant == MemoryInit => MemoryInv
  BY MemoryAssumption
     DEF MemoryInit, MemoryInv, MemoryTypeOK, OnlyIndexers, IndexInv, Past, Stages, Statements, Triggers

\* An opener's own steps: stages and parts move, rows do not.
LEMMA OpeningKeepsInvariant ==
  ASSUME MemoryInv, NEW p \in Openers,
         OpenMemory(p) \/ MigrateMemory(p) \/ CreateIndex(p) \/ CloseMemory(p)
  PROVE  MemoryInv'
<1> USE MemoryAssumption
<1>1. CASE OpenMemory(p)
  BY <1>1 DEF OpenMemory, Reach, AfterMigration, MemoryInv, MemoryTypeOK, OnlyIndexers, IndexInv,
              Past, Stages, Statements, Triggers, Rebuilt, Held
<1>2. CASE MigrateMemory(p)
  BY <1>2 DEF MigrateMemory, Reach, AfterMigration, MemoryInv, MemoryTypeOK, OnlyIndexers, IndexInv,
              Past, Stages, Statements, Triggers, Rebuilt, Held
<1>3. CASE CreateIndex(p)
  <2> DEFINE s == stage[p]
  <2>1. /\ p \in Indexers /\ s \in Statements
        /\ stage' = [stage EXCEPT ![p] = Following[s]]
        /\ rows' = rows
    BY <1>3 DEF CreateIndex, Reach, MemoryInv, OnlyIndexers
  <2>2. Rebuilt' = Rebuilt
    BY <2>1 DEF Rebuilt, Held
  <2>3. /\ s = "rebuild" => index' = Rebuilt /\ parts' = parts
        /\ s # "rebuild" => parts' = parts \cup {s} /\ index' = index
    BY <1>3 DEF CreateIndex
  <2>4. /\ s = "fts" => Following[s] = "insert"
        /\ s = "insert" => Following[s] = "delete"
        /\ s = "delete" => Following[s] = "update"
        /\ s = "update" => Following[s] = "rebuild"
        /\ s = "rebuild" => Following[s] = "ready"
    BY DEF Following
  <2>5. MemoryTypeOK' /\ OnlyIndexers'
    BY <2>1, <2>3, <2>4 DEF MemoryInv, MemoryTypeOK, OnlyIndexers, Stages, Statements, Triggers
  <2>6. ASSUME NEW q \in Indexers
        PROVE  /\ \A trigger \in Triggers : stage'[q] \in Past(trigger) => trigger \in parts'
               /\ stage'[q] = "ready" => index' = Rebuilt'
    <3>1. CASE q = p
      BY <3>1, <2>1, <2>2, <2>3, <2>4
         DEF MemoryInv, MemoryTypeOK, IndexInv, Past, Stages, Statements, Triggers
    <3>2. CASE q # p
      BY <3>2, <2>1, <2>2, <2>3
         DEF MemoryInv, MemoryTypeOK, IndexInv, Past, Stages, Statements, Triggers
    <3> QED BY <3>1, <3>2
  <2> QED BY <2>5, <2>6 DEF MemoryInv, IndexInv
<1>4. CASE CloseMemory(p)
  BY <1>4 DEF CloseMemory, Reach, MemoryInv, MemoryTypeOK, OnlyIndexers, IndexInv,
              Past, Stages, Statements, Triggers, Rebuilt, Held
<1> QED BY <1>1, <1>2, <1>3, <1>4

\* While some process with FTS5 is ready, a write keeps the index the table's.
LEMMA WritesKeepInvariant ==
  ASSUME MemoryInv, NEW p \in Openers, Remember(p) \/ Forget(p) \/ PruneExpired(p)
  PROVE  MemoryInv'
<1> USE MemoryAssumption DEF MemoryInv
<1>1. parts' = parts /\ stage' = stage
  BY DEF Remember, Forget, PruneExpired
<1>2. rows' \in [Ids -> Rows \cup {Absent}]
  BY DEF Remember, Forget, PruneExpired, Deleted, MemoryTypeOK
<1>3. ASSUME Triggers \subseteq parts, index = Rebuilt
      PROVE  index' = Rebuilt'
  <2>1. CASE Remember(p)
    <3>1. PICK id \in Ids, row \in Rows :
             rows' = [rows EXCEPT ![id] = row] /\ index' = Upserted(id, row)
      BY <2>1 DEF Remember
    <3>2. index' = (index \ {<<id, rows[id].word>>}) \cup {<<id, row.word>>}
      BY <3>1, <1>3 DEF Upserted, Triggers, Rebuilt, Held
    <3>3. Rebuilt' = (Rebuilt \ {<<id, rows[id].word>>}) \cup {<<id, row.word>>}
      BY <3>1 DEF Rebuilt, Held, MemoryTypeOK
    <3> QED BY <3>2, <3>3, <1>3
  <2>2. ASSUME NEW ids \in SUBSET Held, Deleted(ids)
        PROVE  index' = Rebuilt'
    <3>1. index' = index \ {<<id, rows[id].word>> : id \in ids}
      BY <2>2, <1>3 DEF Deleted, Triggers
    <3>2. Rebuilt' = Rebuilt \ {<<id, rows[id].word>> : id \in ids}
      BY <2>2 DEF Deleted, Rebuilt, Held
    <3> QED BY <3>1, <3>2, <1>3
  <2>3. CASE Forget(p)
    <3>1. PICK id \in Held : Deleted({id})
      BY <2>3 DEF Forget
    <3> QED BY <3>1, <2>2
  <2>4. CASE PruneExpired(p)
    <3> DEFINE expired == {id \in Held : rows[id].expires <= clock}
    <3>1. expired \in SUBSET Held /\ Deleted(expired)
      BY <2>4 DEF PruneExpired
    <3> HIDE DEF expired
    <3> QED BY <3>1, <2>2
  <2> QED BY <2>1, <2>3, <2>4
<1>4. IndexInv'
  <2> SUFFICES ASSUME NEW q \in Indexers
               PROVE  /\ \A trigger \in Triggers : stage'[q] \in Past(trigger) => trigger \in parts'
                      /\ stage'[q] = "ready" => index' = Rebuilt'
    BY DEF IndexInv
  <2>1. stage[q] = "ready" => Triggers \subseteq parts
    BY DEF IndexInv, Past, Triggers
  <2> QED BY <2>1, <1>1, <1>3 DEF IndexInv
<1> QED BY <1>1, <1>2, <1>4 DEF MemoryTypeOK, OnlyIndexers

LEMMA StepKeepsInvariant == MemoryInv /\ [MemoryNext]_memoryVars => MemoryInv'
<1> SUFFICES ASSUME MemoryInv, [MemoryNext]_memoryVars
             PROVE  MemoryInv'
  OBVIOUS
<1>1. ASSUME NEW p \in Openers,
             \/ OpenMemory(p) \/ MigrateMemory(p) \/ CreateIndex(p) \/ CloseMemory(p)
      PROVE  MemoryInv'
  BY <1>1, OpeningKeepsInvariant
<1>2. ASSUME NEW p \in Openers, Remember(p) \/ Forget(p) \/ PruneExpired(p)
      PROVE  MemoryInv'
  BY <1>2, WritesKeepInvariant
<1>3. CASE Tick \/ UNCHANGED memoryVars
  BY <1>3 DEF Tick, memoryVars, MemoryInv, MemoryTypeOK, OnlyIndexers, IndexInv, Rebuilt, Held
<1> QED BY <1>1, <1>2, <1>3 DEF MemoryNext

\* An index that is the table's answers what a scan of the table would.
LEMMA InvariantImpliesExact == MemoryInv => SearchExact
<1> SUFFICES ASSUME MemoryInv, NEW p \in Openers, NEW scope \in Scopes, NEW word \in Words,
                    stage[p] = "ready"
             PROVE  Found(p, scope, word) =
                      {id \in Held : /\ rows[id].scope = scope /\ rows[id].word = word
                                     /\ rows[id].expires > clock}
  BY DEF SearchExact
<1>1. CASE p \in Indexers
  <2>1. \A id \in Held : <<id, word>> \in index <=> rows[id].word = word
    BY <1>1 DEF MemoryInv, IndexInv, Rebuilt
  <2> QED BY <1>1, <2>1 DEF Found
<1>2. CASE p \notin Indexers
  BY <1>2 DEF Found
<1> QED BY <1>1, <1>2

\* Whatever openers did, died in or raced for, a process that has opened the
\* database finds by index exactly the live rows of a scope that have a word
\* (create_fts5, remember, search, forget, prune_expired).
THEOREM SearchesAreExact == MemorySpec => []SearchExact
<1>1. MemorySpec => []MemoryInv
  BY InitialInvariant, StepKeepsInvariant, PTL DEF MemorySpec
<1> QED BY <1>1, InvariantImpliesExact, PTL

\* The memory database has its table exactly when it has a version.
THEOREM MemoryIsWhole == MemorySpec => []MemoryWhole
<1>1. MemoryInit => MemoryWhole
  BY DEF MemoryInit, MemoryWhole
<1>2. ASSUME MemoryWhole, [MemoryNext]_memoryVars PROVE MemoryWhole'
  <2>1. UNCHANGED <<schema, table>> \/ (schema' = 1 /\ table' = TRUE)
    BY <1>2 DEF MemoryNext, OpenMemory, MigrateMemory, CreateIndex, CloseMemory,
                Remember, Forget, PruneExpired, Tick, memoryVars
  <2> QED BY <1>2, <2>1 DEF MemoryWhole
<1> QED BY <1>1, <1>2, PTL DEF MemorySpec

-----------------------------------------------------------------------------
(* The telemetry database and its servers.                                  *)

Calls == [id : RequestIds \cup {""}, started : Nat, raw : Nat, optimized : Nat]

HandlerTypeOK ==
    /\ version \in 0 .. 2
    /\ requests \in [RequestIds -> Nat \cup {Gone}]
    /\ at \in [Servers -> {"closed", "migrate", "ready", "request", "tokens", "answer"}]
    /\ call \in [Servers -> Calls]
    /\ counted \in [Servers -> 0 .. MaxEvents + 1]
    /\ outcome \in [Servers -> {"none", "error", "result", "counted"}]
    /\ milli \in Nat

\* What the stage of a server says of its call.
CountedByStage ==
    \A s \in Servers :
        /\ at[s] \in {"closed", "migrate"} => outcome[s] = "none"
        /\ at[s] \in {"request", "tokens"} =>
              counted[s] = NotCounted /\ call[s].id \in RequestIds
        /\ at[s] = "answer" => counted[s] # NotCounted
        /\ at[s] = "ready" => /\ outcome[s] = "counted" => counted[s] # NotCounted
                              /\ outcome[s] = "error" => counted[s] = NotCounted

EventsPresent ==
    \A n \in DOMAIN events : events[n].request \in RequestIds /\ Present(events[n].request)

\* The row of a server's call is there, and no other server's.
RowsKept ==
    /\ DOMAIN events \subseteq 1 .. MaxEvents
    /\ \A s \in Servers :
          counted[s] \notin {NotCounted, EventDeleted} =>
              /\ counted[s] \in DOMAIN events /\ events[counted[s]].kind = "token"
              /\ \A t \in Servers : counted[t] = counted[s] => t = s

HandlerInv == HandlerTypeOK /\ CountedByStage /\ EventsPresent /\ RowsKept

\* No row is a value of counted.
LEMMA NoRow == NotCounted \in 0 .. MaxEvents + 1
  BY TelemetryAssumption DEF TelemetryAssumption, NotCounted

LEMMA HandlerInitInv == HandlerInit => HandlerInv
<1> SUFFICES ASSUME HandlerInit PROVE HandlerInv
  OBVIOUS
<1>1. events = <<>> /\ DOMAIN events = {}
  BY DEF HandlerInit, TelemetryInit
<1>2. HandlerTypeOK
  BY NoRow DEF HandlerInit, TelemetryInit, HandlerTypeOK, Idle, Calls
<1>3. CountedByStage
  BY DEF HandlerInit, CountedByStage
<1>4. RowsKept
  BY <1>1 DEF HandlerInit, RowsKept
<1> QED BY <1>1, <1>2, <1>3, <1>4 DEF HandlerInv, EventsPresent

\* A row that is written stays until it is deleted with its events.
LEMMA EventsKept ==
  ASSUME HandlerInv,
         \/ UNCHANGED <<requests, events>>
         \/ \E id \in RequestIds, started \in Nat : RecordRequest(id, started)
         \/ \E event : event.request \in RequestIds /\ Insert(event)
         \/ \E ids, kept : kept \subseteq DOMAIN events /\ Cascaded(ids, kept)
  PROVE  EventsPresent'
<1>1. CASE UNCHANGED <<requests, events>>
  BY <1>1 DEF HandlerInv, EventsPresent, Present
<1>2. ASSUME NEW id \in RequestIds, NEW started \in Nat, RecordRequest(id, started)
      PROVE  EventsPresent'
  BY <1>2, TelemetryAssumption
     DEF TelemetryAssumption, RecordRequest, HandlerInv, HandlerTypeOK, EventsPresent, Present
<1>3. ASSUME NEW event, event.request \in RequestIds, Insert(event) PROVE EventsPresent'
  BY <1>3 DEF Insert, HandlerInv, EventsPresent, Present
<1>4. ASSUME NEW ids, NEW kept, kept \subseteq DOMAIN events, Cascaded(ids, kept)
      PROVE  EventsPresent'
  <2>1. /\ requests' = [id \in RequestIds |-> IF id \in ids THEN Gone ELSE requests[id]]
        /\ events' = [n \in {n \in kept : events[n].request \notin ids} |-> events[n]]
    BY <1>4 DEF Cascaded
  <2>2. ASSUME NEW n \in DOMAIN events' 
        PROVE  events'[n].request \in RequestIds /\ requests'[events'[n].request] # Gone
    <3>1. n \in DOMAIN events /\ events'[n] = events[n] /\ events[n].request \notin ids
      BY <1>4, <2>1
    <3>2. events[n].request \in RequestIds /\ requests[events[n].request] # Gone
      BY <3>1 DEF HandlerInv, EventsPresent, Present
    <3> QED BY <2>1, <3>1, <3>2
  <2> QED BY <2>2 DEF EventsPresent, Present
<1> QED BY <1>1, <1>2, <1>3, <1>4

\* A nonempty set of numbers has a least one.
LEMMA LeastNumber ==
  ASSUME NEW T, T \subseteq Nat, T # {}
  PROVE  \E x \in T : \A y \in T : x <= y
<1>1. PICK x \in T : \A y \in T : ~ (<<y, x>> \in OpToRel(<, Nat))
  BY NatLessThanWellFounded, WFMin
<1>2. ASSUME NEW y \in T PROVE x <= y
  <2>1. ~ (y < x)
    BY <1>1 DEF OpToRel
  <2> QED BY <2>1
<1> QED BY <1>2

\* The number of a row is none of the two marks.
LEMMA RowNumbers ==
  ASSUME NEW row \in 1 .. MaxEvents
  PROVE  row \in 0 .. MaxEvents + 1 /\ row # NotCounted /\ row # EventDeleted
  BY TelemetryAssumption DEF TelemetryAssumption, NotCounted, EventDeleted

\* The number of a new row is a number, and no other row's.
LEMMA NewRow ==
  ASSUME Free # {}
  PROVE  Min(Free) \in 1 .. MaxEvents /\ Min(Free) \notin DOMAIN events
<1>1. Free \subseteq Nat
  BY TelemetryAssumption DEF Free, TelemetryAssumption
<1>2. \E x \in Free : \A y \in Free : x <= y
  BY <1>1, LeastNumber
<1>3. Min(Free) \in Free
  BY <1>2 DEF Min
<1> QED BY <1>3 DEF Free

\* A row stays a server's as long as no event is deleted.
LEMMA RowsStay ==
  ASSUME HandlerInv,
         \/ UNCHANGED <<events, counted>>
         \/ \E s \in Servers : UNCHANGED events /\ counted' = [counted EXCEPT ![s] = NotCounted]
         \/ \E event : Insert(event) /\ UNCHANGED counted
  PROVE  RowsKept'
<1> USE DEF HandlerInv
<1>1. CASE UNCHANGED <<events, counted>>
  BY <1>1 DEF RowsKept
<1>2. ASSUME NEW s \in Servers, UNCHANGED events, counted' = [counted EXCEPT ![s] = NotCounted]
      PROVE  RowsKept'
  BY <1>2 DEF RowsKept, HandlerTypeOK
<1>3. ASSUME NEW event, Insert(event), UNCHANGED counted PROVE RowsKept'
  <2>1. /\ Min(Free) \in 1 .. MaxEvents /\ DOMAIN events' = DOMAIN events \cup {Min(Free)}
        /\ \A n \in DOMAIN events : events'[n] = events[n]
    BY <1>3, NewRow DEF Insert
  <2> QED BY <1>3, <2>1 DEF RowsKept
<1> QED BY <1>1, <1>2, <1>3

\* A server's step leaves the rows of the other servers alone.
LEMMA ServerRows ==
  ASSUME HandlerInv, NEW s \in Servers,
         \/ OpenTelemetry(s) \/ MigrateTelemetry(s) \/ AnswerMessage(s)
         \/ Stats(s) \/ BuildContext(s) \/ MeasureTokens(s)
         \/ WriteRequest(s) \/ WriteTokens(s) \/ FailWrite(s)
         \/ Acknowledge(s) \/ CloseTelemetry(s)
  PROVE  RowsKept'
<1>1. CASE OpenTelemetry(s) \/ MigrateTelemetry(s) \/ WriteRequest(s) \/ FailWrite(s)
           \/ Acknowledge(s)
  <2>1. UNCHANGED <<events, counted>>
    BY <1>1 DEF OpenTelemetry, MigrateTelemetry, WriteRequest, RecordRequest, FailWrite,
                Acknowledge, telemetryVars
  <2> QED BY <2>1, RowsStay
<1>2. CASE AnswerMessage(s) \/ Stats(s) \/ BuildContext(s) \/ MeasureTokens(s)
           \/ CloseTelemetry(s)
  <2>1. UNCHANGED events /\ counted' = [counted EXCEPT ![s] = NotCounted]
    BY <1>2 DEF AnswerMessage, Stats, BuildContext, MeasureTokens, Begin, CloseTelemetry,
                telemetryVars
  <2> QED BY <2>1, RowsStay
<1>3. CASE WriteTokens(s)
  <2> DEFINE event == Event("token", call[s].id, call[s].raw, call[s].optimized, 0)
             row == Min(Free)
  <2>1. Insert(event) /\ counted' = [counted EXCEPT ![s] = row]
    BY <1>3 DEF WriteTokens, RecordTokens
  <2>2. event.kind = "token"
    BY DEF Event
  <2>3. row \in 1 .. MaxEvents /\ row \notin DOMAIN events
    BY <2>1, NewRow DEF Insert
  <2>4. events' = [n \in DOMAIN events \cup {row} |->
                       IF n \in DOMAIN events THEN events[n] ELSE event]
    BY <2>1 DEF Insert
  <2>5. counted \in [Servers -> 0 .. MaxEvents + 1] /\ RowsKept
    BY DEF HandlerInv, HandlerTypeOK
  <2> HIDE DEF event, row
  <2>6. /\ DOMAIN events' \subseteq 1 .. MaxEvents /\ events'[row] = event
        /\ \A n \in DOMAIN events : n \in DOMAIN events' /\ events'[n] = events[n] /\ n # row
    BY <2>3, <2>4, <2>5 DEF RowsKept
  <2>7. counted'[s] = row /\ \A t \in Servers \ {s} : counted'[t] = counted[t]
    BY <2>1, <2>5
  <2>8. ASSUME NEW t \in Servers, counted'[t] \notin {NotCounted, EventDeleted}
        PROVE  /\ counted'[t] \in DOMAIN events' /\ events'[counted'[t]].kind = "token"
               /\ \A u \in Servers : counted'[u] = counted'[t] => u = t
    <3>1. ASSUME NEW u \in Servers \ {s} PROVE counted[u] # row
      BY <2>3, <2>5, RowNumbers DEF RowsKept
    <3>2. CASE t = s
      BY <2>2, <2>4, <2>6, <2>7, <3>1, <3>2
    <3>3. CASE t # s
      BY <2>5, <2>6, <2>7, <2>8, <3>1, <3>3 DEF RowsKept
    <3> QED BY <3>2, <3>3
  <2> QED BY <2>6, <2>8 DEF RowsKept
<1> QED BY <1>1, <1>2, <1>3

\* Every server's step keeps the types, and leaves the other servers alone.
LEMMA ServerStep ==
  ASSUME HandlerInv, NEW s \in Servers,
         \/ OpenTelemetry(s) \/ MigrateTelemetry(s) \/ AnswerMessage(s)
         \/ Stats(s) \/ BuildContext(s) \/ MeasureTokens(s)
         \/ WriteRequest(s) \/ WriteTokens(s) \/ FailWrite(s)
         \/ Acknowledge(s) \/ CloseTelemetry(s)
  PROVE  HandlerTypeOK' /\ CountedByStage' /\ EventsPresent'
<1> USE NoRow DEF HandlerInv, HandlerTypeOK, CountedByStage, Goto, Calls
<1>1. CASE OpenTelemetry(s)
  <2>1. UNCHANGED <<version, requests, events>>
    BY <1>1 DEF OpenTelemetry, telemetryVars
  <2>2. EventsPresent'
    BY <2>1, EventsKept
  <2> QED BY <1>1, <2>1, <2>2 DEF OpenTelemetry
<1>2. CASE MigrateTelemetry(s)
  <2>1. UNCHANGED <<requests, events>>
    BY <1>2 DEF MigrateTelemetry
  <2>2. EventsPresent'
    BY <2>1, EventsKept
  <2>3. version' \in {version, 1} /\ UNCHANGED <<call, counted, outcome, milli>>
    BY <1>2 DEF MigrateTelemetry, Created
  <2>4. /\ at[s] = "migrate"
        /\ at' = [at EXCEPT ![s] = "closed"] \/ at' = [at EXCEPT ![s] = "ready"]
    BY <1>2 DEF MigrateTelemetry
  <2>5. version' \in 0 .. 2
    <3>1. version \in 0 .. 2
      OBVIOUS
    <3>2. CASE version' = version
      BY <3>1, <3>2
    <3>3. CASE version' = 1
      <4> HIDE DEF HandlerInv, HandlerTypeOK
      <4> QED BY <3>3
    <3> QED BY <2>3, <3>2, <3>3
  <2>6. HandlerTypeOK'
    BY <2>1, <2>3, <2>4, <2>5
  <2>7. CountedByStage'
    BY <2>3, <2>4
  <2> QED BY <2>2, <2>6, <2>7
<1>3. CASE AnswerMessage(s)
  <2>1. UNCHANGED <<version, requests, events>>
    BY <1>3 DEF AnswerMessage, telemetryVars
  <2>2. EventsPresent'
    BY <2>1, EventsKept
  <2>3. PICK answer \in {"none", "error", "result"} :
          /\ at' = [at EXCEPT ![s] = "ready"] /\ outcome' = [outcome EXCEPT ![s] = answer]
          /\ counted' = [counted EXCEPT ![s] = NotCounted] /\ UNCHANGED <<call, milli>>
    BY <1>3 DEF AnswerMessage, Answer
  <2>4. HandlerTypeOK'
    BY <2>1, <2>3
  <2>5. CountedByStage'
    BY <2>3
  <2> QED BY <2>2, <2>4, <2>5
<1>4. CASE Stats(s)
  <2>1. UNCHANGED <<version, requests, events>>
    BY <1>4 DEF Stats, telemetryVars
  <2>2. EventsPresent'
    BY <2>1, EventsKept
  <2> QED BY <1>4, <2>1, <2>2 DEF Stats, Answer
<1>5. CASE BuildContext(s) \/ MeasureTokens(s)
  <2>1. PICK id \in RequestIds, raw \in Nat, optimized \in Nat : Begin(s, id, raw, optimized)
    BY <1>5, HandlerAssumption DEF HandlerAssumption, BuildContext, MeasureTokens
  <2>2. UNCHANGED <<version, requests, events>>
    BY <2>1 DEF Begin, telemetryVars
  <2>3. EventsPresent'
    BY <2>2, EventsKept
  <2> QED BY <2>1, <2>2, <2>3 DEF Begin
<1>6. CASE WriteRequest(s)
  <2>1. /\ at[s] = "request" /\ RecordRequest(call[s].id, call[s].started)
        /\ at' = [at EXCEPT ![s] = "tokens"] /\ call' = [call EXCEPT ![s].started = 0]
        /\ UNCHANGED <<counted, outcome, milli>>
    BY <1>6 DEF WriteRequest
  <2>2. call[s].id \in RequestIds /\ call[s].started \in Nat
    BY <2>1
  <2>3. EventsPresent'
    BY <2>1, <2>2, EventsKept
  <2>4. /\ version' = version
        /\ requests' = [requests EXCEPT ![call[s].id] = call[s].started]
    BY <2>1 DEF RecordRequest
  <2>5. HandlerTypeOK'
    <3>1. requests' \in [RequestIds -> Nat \cup {Gone}]
      BY <2>2, <2>4
    <3>2. call' \in [Servers -> Calls]
      <4>1. call[s] \in Calls
        OBVIOUS
      <4>2. [call[s] EXCEPT !.started = 0] \in Calls
        BY <4>1 DEF Calls
      <4>3. call' = [call EXCEPT ![s] = [call[s] EXCEPT !.started = 0]]
        BY <2>1
      <4> QED BY <4>2, <4>3
    <3> QED BY <2>1, <2>4, <3>1, <3>2
  <2>6. \A t \in Servers : call'[t].id = call[t].id
    BY <2>1
  <2>7. CountedByStage'
    BY <2>1, <2>6
  <2> QED BY <2>3, <2>5, <2>7
<1>7. CASE WriteTokens(s)
  <2> DEFINE event == Event("token", call[s].id, call[s].raw, call[s].optimized, 0)
  <2>1. /\ at[s] = "tokens" /\ Insert(event)
        /\ at' = [at EXCEPT ![s] = "answer"] /\ counted' = [counted EXCEPT ![s] = Min(Free)]
        /\ Free # {} /\ UNCHANGED <<call, outcome, milli>>
    BY <1>7 DEF WriteTokens, RecordTokens, Insert
  <2>2. event.request \in RequestIds
    BY <2>1 DEF Event
  <2>3. EventsPresent'
    <3> HIDE DEF event
    <3> QED BY <2>1, <2>2, EventsKept
  <2>4. Min(Free) \in 0 .. MaxEvents + 1 /\ Min(Free) # NotCounted
    <3>1. Min(Free) \in 1 .. MaxEvents
      BY <2>1, NewRow
    <3> QED BY <3>1, RowNumbers
  <2> QED BY <2>1, <2>3, <2>4 DEF Insert
<1>8. CASE FailWrite(s)
  <2>1. UNCHANGED <<version, requests, events>>
    BY <1>8 DEF FailWrite, telemetryVars
  <2>2. EventsPresent'
    BY <2>1, EventsKept
  <2> QED BY <1>8, <2>1, <2>2 DEF FailWrite, Answer, Idle
<1>9. CASE Acknowledge(s)
  <2>1. UNCHANGED <<version, requests, events>>
    BY <1>9 DEF Acknowledge, telemetryVars
  <2>2. EventsPresent'
    BY <2>1, EventsKept
  <2> QED BY <1>9, <2>1, <2>2 DEF Acknowledge, Answer, Idle
<1>10. CASE CloseTelemetry(s)
  <2>1. UNCHANGED <<version, requests, events>>
    BY <1>10 DEF CloseTelemetry, telemetryVars
  <2>2. EventsPresent'
    BY <2>1, EventsKept
  <2> QED BY <1>10, <2>1, <2>2 DEF CloseTelemetry, Idle
<1> QED BY <1>1, <1>2, <1>3, <1>4, <1>5, <1>6, <1>7, <1>8, <1>9, <1>10

\* A program that embeds the store deletes requests with their events.
LEMMA EmbedStep ==
  ASSUME HandlerInv, Embed
  PROVE  HandlerInv'
<1> USE TelemetryAssumption DEF TelemetryAssumption, NotCounted, EventDeleted
<1>1. /\ UNCHANGED <<at, call, outcome, milli>>
      /\ counted' = [s \in Servers |-> IF counted[s] \in DOMAIN events \ DOMAIN events'
                                       THEN EventDeleted ELSE counted[s]]
  BY DEF Embed
<1>2. /\ UNCHANGED version
      /\ \/ \E ids, kept : kept \subseteq DOMAIN events /\ Cascaded(ids, kept)
         \/ \E event : event.request \in RequestIds /\ Insert(event)
  <2>1. ASSUME NEW cutoff \in 1 .. milli, Prune(cutoff, milli)
        PROVE  UNCHANGED version /\ \E ids, kept : kept \subseteq DOMAIN events /\ Cascaded(ids, kept)
    BY <2>1 DEF Prune
  <2>2. ASSUME NEW id \in RequestIds, ForgetRequest(id)
        PROVE  UNCHANGED version /\ \E ids, kept : kept \subseteq DOMAIN events /\ Cascaded(ids, kept)
    BY <2>2 DEF ForgetRequest
  <2>3. ASSUME NEW id \in RequestIds, NEW event, event.request = id, Insert(event)
        PROVE  UNCHANGED version /\ \E e : e.request \in RequestIds /\ Insert(e)
    BY <2>3 DEF Insert
  <2>4. ASSUME NEW id \in RequestIds
        PROVE  /\ Event("provider", id, 0, 0, 0).request = id
               /\ Event("artifact", id, 0, 0, LastMilli).request = id
    BY DEF Event
  <2> QED BY <2>1, <2>2, <2>3, <2>4 DEF Embed, RecordProvider, RecordArtifact
<1>3. EventsPresent'
  BY <1>2, EventsKept
<1>4. RowsKept /\ HandlerTypeOK /\ CountedByStage
  BY DEF HandlerInv
\* Events are new, or deleted; the others stay as they are.
<1>5. /\ DOMAIN events' \subseteq 1 .. MaxEvents
      /\ \A n \in DOMAIN events \cap DOMAIN events' : events'[n] = events[n]
      /\ requests' \in [RequestIds -> Nat \cup {Gone}]
  <2>1. ASSUME NEW ids, NEW kept, kept \subseteq DOMAIN events, Cascaded(ids, kept)
        PROVE  /\ DOMAIN events' \subseteq 1 .. MaxEvents
               /\ \A n \in DOMAIN events \cap DOMAIN events' : events'[n] = events[n]
               /\ requests' \in [RequestIds -> Nat \cup {Gone}]
    BY <1>4, <2>1 DEF Cascaded, RowsKept, HandlerTypeOK
  <2>2. ASSUME NEW event, Insert(event)
        PROVE  /\ DOMAIN events' \subseteq 1 .. MaxEvents
               /\ \A n \in DOMAIN events \cap DOMAIN events' : events'[n] = events[n]
               /\ requests' \in [RequestIds -> Nat \cup {Gone}]
    BY <1>4, <2>2, NewRow DEF Insert, RowsKept, HandlerTypeOK
  <2> QED BY <1>2, <2>1, <2>2
<1>6. \A s \in Servers :
         /\ counted'[s] = NotCounted <=> counted[s] = NotCounted
         /\ counted'[s] \in {counted[s], EventDeleted}
         /\ counted'[s] # EventDeleted => counted[s] \notin DOMAIN events \ DOMAIN events'
  BY <1>1, <1>4 DEF RowsKept, HandlerTypeOK
<1>7. HandlerTypeOK'
  <2>1. counted' \in [Servers -> 0 .. MaxEvents + 1]
    BY <1>1, <1>4 DEF HandlerTypeOK
  <2> QED BY <1>1, <1>2, <1>4, <1>5, <2>1 DEF HandlerTypeOK
<1>8. CountedByStage'
  BY <1>1, <1>4, <1>6 DEF CountedByStage
<1>9. RowsKept'
  BY <1>4, <1>5, <1>6 DEF RowsKept
<1> QED BY <1>3, <1>7, <1>8, <1>9 DEF HandlerInv

\* Whichever servers share a request id, and whatever is pruned between the
\* two transactions of a call, what a client is told is what was counted, its
\* event stays until it is deleted for its request's sake or its age, and none
\* outlives its request (handle_mcp_message, record_request, prune, forget_request).
THEOREM AnswersAreCounted == HandlerSpec => []AnswersMatchCounts
<1>1. HandlerInv /\ [HandlerNext]_handlerVars => HandlerInv'
  <2>1. ASSUME HandlerInv, TickMilli \/ UNCHANGED handlerVars PROVE HandlerInv'
    <3>1. UNCHANGED <<version, requests, events, at, call, counted, outcome>>
      BY <2>1 DEF TickMilli, handlerVars, telemetryVars
    <3>2. milli' \in Nat
      <4>1. milli \in Nat
        BY <2>1 DEF HandlerInv, HandlerTypeOK
      <4>2. CASE TickMilli
        BY <4>1, <4>2 DEF TickMilli
      <4>3. CASE UNCHANGED handlerVars
        BY <4>1, <4>3 DEF handlerVars
      <4> QED BY <2>1, <4>2, <4>3
    <3>3. EventsPresent'
      BY <2>1, <3>1, EventsKept
    <3>4. HandlerTypeOK'
      <4>1. HandlerTypeOK
        BY <2>1 DEF HandlerInv
      <4> QED BY <3>1, <3>2, <4>1 DEF HandlerTypeOK
    <3>5. CountedByStage'
      BY <2>1, <3>1 DEF HandlerInv, CountedByStage
    <3>6. RowsKept'
      BY <2>1, <3>1, RowsStay
    <3> QED BY <3>3, <3>4, <3>5, <3>6 DEF HandlerInv
  <2>2. ASSUME HandlerInv, HandlerTypeOK' /\ CountedByStage' /\ EventsPresent', RowsKept'
        PROVE  HandlerInv'
    BY <2>2 DEF HandlerInv
  <2> QED BY <2>1, <2>2, ServerStep, ServerRows, EmbedStep DEF HandlerNext
<1>2. HandlerInv => AnswersMatchCounts
  BY DEF HandlerInv, CountedByStage, EventsPresent, RowsKept, AnswersMatchCounts
<1> QED BY HandlerInitInv, <1>1, <1>2, PTL DEF HandlerSpec

\* The telemetry database has its tables exactly when it has a version.
THEOREM TelemetryIsWhole == HandlerSpec => []TelemetryWhole
<1>1. HandlerInit => TelemetryWhole
  BY DEF HandlerInit, TelemetryInit, TelemetryWhole
<1>2. ASSUME TelemetryWhole, [HandlerNext]_handlerVars PROVE TelemetryWhole'
  <2>1. ASSUME NEW s \in Servers, MigrateTelemetry(s)
        PROVE  UNCHANGED <<version, tables>> \/ (version' = 1 /\ tables' = TRUE)
    BY <2>1 DEF MigrateTelemetry, Created
  <2>2. ASSUME NEW s \in Servers,
               \/ OpenTelemetry(s) \/ AnswerMessage(s) \/ Stats(s) \/ BuildContext(s)
               \/ MeasureTokens(s) \/ WriteRequest(s) \/ WriteTokens(s) \/ FailWrite(s)
               \/ Acknowledge(s) \/ CloseTelemetry(s)
        PROVE  UNCHANGED <<version, tables>>
    BY <2>2 DEF OpenTelemetry, AnswerMessage, Stats, BuildContext, MeasureTokens, Begin,
                WriteRequest, WriteTokens, FailWrite, Acknowledge, CloseTelemetry,
                telemetryVars, RecordRequest, RecordTokens, Insert
  <2>3. ASSUME Embed \/ TickMilli \/ UNCHANGED handlerVars PROVE UNCHANGED <<version, tables>>
    BY <2>3 DEF Embed, Prune, ForgetRequest, RecordProvider, RecordArtifact, Insert,
                TickMilli, handlerVars, telemetryVars
  <2>4. UNCHANGED <<version, tables>> \/ (version' = 1 /\ tables' = TRUE)
    BY <1>2, <2>1, <2>2, <2>3 DEF HandlerNext
  <2> QED BY <1>2, <2>4 DEF TelemetryWhole
<1> QED BY <1>1, <1>2, PTL DEF HandlerSpec

-----------------------------------------------------------------------------
(* The raw artifacts.                                                       *)

\* The newest names after those that are Excess are no more than keep.
LEMMA NewestAreFew ==
  ASSUME IsFiniteSet(files), files \subseteq Names, Contents \subseteq Nat,
         LastSecond \in Nat, NEW keep \in Nat
  PROVE  /\ IsFiniteSet(files \ Excess(keep))
         /\ Cardinality(files \ Excess(keep)) <= keep
<1> DEFINE B == files \ Excess(keep)
<1>1. IsFiniteSet(B)
  BY FS_Subset
<1>2. CASE B = {}
  BY <1>2, <1>1, FS_EmptySet
<1>3. CASE B # {}
  <2>1. ASSUME NEW n \in B PROVE n[1] \in Nat /\ n[2] \in Nat /\ n = <<n[1], n[2]>>
    <3>1. n \in (0 .. LastSecond) \X Contents
      BY DEF Names
    <3>2. n[1] \in 0 .. LastSecond /\ n[2] \in Contents /\ n = <<n[1], n[2]>>
      BY <3>1
    <3> HIDE DEF B
    <3> QED BY <3>2
  <2>2. PICK first \in {n[1] : n \in B} : \A y \in {n[1] : n \in B} : first <= y
    <3>1. {n[1] : n \in B} # {}
      BY <1>3
    <3>2. {n[1] : n \in B} \subseteq Nat
      BY <2>1
    <3> HIDE DEF B
    <3> QED BY <3>1, <3>2, LeastNumber
  <2>3. PICK second \in {n[2] : n \in {n \in B : n[1] = first}} :
            \A y \in {n[2] : n \in {n \in B : n[1] = first}} : second <= y
    <3>1. {n[2] : n \in {n \in B : n[1] = first}} # {}
      BY <2>2
    <3>2. {n[2] : n \in {n \in B : n[1] = first}} \subseteq Nat
      BY <2>1
    <3> HIDE DEF B
    <3> QED BY <3>1, <3>2, LeastNumber
  <2>4. PICK b \in B : b[1] = first /\ b[2] = second
    BY <2>3
  <2>5. ASSUME NEW n \in B, n # b PROVE Older(b, n)
    <3>1. first <= n[1]
      BY <2>2
    <3>2. CASE n[1] = first
      <4>1. second <= n[2]
        BY <2>3, <3>2
      <4>2. n[2] # second
        BY <2>1, <2>4, <2>5, <3>2
      <4>3. second \in Nat /\ n[2] \in Nat
        BY <2>1, <2>4
      <4> QED BY <2>4, <3>2, <4>1, <4>2, <4>3 DEF Older
    <3>3. first \in Nat /\ n[1] \in Nat
      BY <2>1, <2>4
    <3> HIDE DEF B
    <3> QED BY <2>4, <3>1, <3>2, <3>3 DEF Older
  <2> DEFINE later == {m \in files : Older(b, m)}
  <2>6. IsFiniteSet(later) /\ Cardinality(later) \in Nat /\ Cardinality(later) < keep
    <3>1. b \in files /\ b \notin Excess(keep)
      BY <2>4
    <3>2. IsFiniteSet(later)
      BY FS_Subset
    <3>3. Cardinality(later) \in Nat
      BY <3>2, FS_CardinalityType
    <3>4. ~ (Cardinality(later) >= keep)
      BY <3>1 DEF Excess
    <3> HIDE DEF later
    <3> QED BY <3>2, <3>3, <3>4
  <2>7. B \ {b} \subseteq later
    BY <2>5
  <2>8. Cardinality(B \ {b}) <= Cardinality(later)
    <3> HIDE DEF later, B
    <3> QED BY <2>6, <2>7, FS_Subset
  <2>9. Cardinality(B \ {b}) = Cardinality(B) - 1 /\ Cardinality(B) \in Nat
    <3> HIDE DEF B
    <3> QED BY <1>1, <2>4, FS_RemoveElement, FS_CardinalityType
  <2> HIDE DEF later, B
  <2>10. Cardinality(B) <= keep
    BY <2>6, <2>8, <2>9
  <2> QED BY <1>1, <2>10 DEF B
<1> QED BY <1>2, <1>3

\* Where a store writes a file of its own.
Written == {"fill", "written", "enforce"}

ArtTypeOK ==
    /\ created \subseteq Names /\ IsFiniteSet(created)
    /\ files \subseteq created /\ acked \subseteq created /\ whole \subseteq files
    /\ modified \in [Names -> Nat]
    /\ now \in 0 .. LastSecond /\ cutShort \in Nat
    /\ pc \in [Stores -> {"idle", "prune", "room"} \cup Written]
    /\ left \in [Stores -> SUBSET created]
    /\ mine \in [Stores -> created \cup {<<>>}]
    /\ \A s \in Stores : mine[s] # <<>> <=> pc[s] \in Written

\* Enough newer names were written to fill the store.
Superseded(n) == Cardinality({m \in created : Older(n, m)}) >= MaxArtifacts - 1

\* What is missing or about to be removed has expired or is superseded.
HeldInv ==
    /\ \A n \in created : n[1] <= now
    /\ \A n \in files : modified[n] >= n[1]
    /\ \A n \in created \ files : now >= n[1] + Ttl \/ Superseded(n)
    /\ \A s \in Stores : pc[s] \in {"room", "enforce"} => \A n \in left[s] : Superseded(n)
    /\ \A n \in files \ whole : cutShort > 0 \/ \E s \in Stores : pc[s] = "fill" /\ mine[s] = n

LEMMA ArtInitType == ArtifactsInit => ArtTypeOK
  BY FS_EmptySet, ArtifactsAssumption DEF ArtifactsAssumption, ArtifactsInit, ArtTypeOK, Written

\* No file is called <<>>.
LEMMA NamesArePairs == <<>> \notin Names
  BY DEF Names

\* A store that ends its retain: it leaves its name behind, if it wrote one.
LEMMA AbortType ==
  ASSUME ArtTypeOK, NEW s \in Stores, Abort(s)
  PROVE  /\ cutShort' \in Nat
         /\ pc' \in [Stores -> {"idle", "prune", "room"} \cup Written]
         /\ left' \in [Stores -> SUBSET created]
         /\ mine' \in [Stores -> created \cup {<<>>}]
         /\ \A q \in Stores : mine'[q] # <<>> <=> pc'[q] \in Written
<1>1. /\ pc' = [pc EXCEPT ![s] = "idle"] /\ left' = [left EXCEPT ![s] = {}]
      /\ mine' = [mine EXCEPT ![s] = <<>>]
      /\ cutShort' \in {cutShort, cutShort + 1}
  BY DEF Abort, Move, ArtTypeOK
<1> QED BY <1>1 DEF ArtTypeOK, Written

\* Create(s) for one name.
CreateAs(s, n) ==
    /\ pc[s] = "room" /\ left[s] = {} /\ n[1] = now
    /\ files' = files \cup {n} /\ whole' = whole \ {n}
    /\ modified' = [modified EXCEPT ![n] = now]
    /\ mine' = [mine EXCEPT ![s] = n]
    /\ created' = created \cup {n}
    /\ Move(s, "fill", {})
    /\ UNCHANGED <<now, acked, cutShort>>

LEMMA Creation ==
  ASSUME ArtTypeOK, NEW s \in Stores, Create(s)
  PROVE  \E n \in Names : CreateAs(s, n)
<1>1. PICK content \in Contents : LET n == <<now, content>>
                                  IN  /\ files' = files \cup {n} /\ whole' = whole \ {n}
                                      /\ modified' = [modified EXCEPT ![n] = now]
                                      /\ mine' = [mine EXCEPT ![s] = n]
                                      /\ created' = created \cup {n}
  BY DEF Create
<1>2. <<now, content>> \in Names /\ <<now, content>>[1] = now
  BY DEF ArtTypeOK, Names
<1> QED BY <1>1, <1>2 DEF Create, CreateAs

LEMMA ArtTypeStep ==
  ASSUME ArtTypeOK, ArtifactsNext \/ UNCHANGED artifactVars
  PROVE  ArtTypeOK'
<1>1. ASSUME NEW s \in Stores, BeginRetain(s) \/ MakeRoom(s) \/ Enforce(s) PROVE ArtTypeOK'
  <2>1. UNCHANGED <<files, whole, modified, now, mine, created, acked, cutShort>>
    BY <1>1 DEF BeginRetain, MakeRoom, Enforce
  <2>2. PICK names \in SUBSET created :
            \/ pc[s] \in {"idle", "prune"} /\ Move(s, "prune", names)
            \/ pc[s] \in {"idle", "prune"} /\ Move(s, "room", names)
            \/ pc[s] = "written" /\ Move(s, "enforce", names)
    BY <1>1 DEF BeginRetain, MakeRoom, Enforce, RoomNeeded, Over, Excess, ArtTypeOK
  <2> QED BY <2>1, <2>2 DEF ArtTypeOK, Move, Written
<1>2. ASSUME NEW s \in Stores, PruneOne(s) \/ RemoveOne(s) PROVE ArtTypeOK'
  <2>1. UNCHANGED <<now, created, acked>>
    BY <1>2 DEF PruneOne, RemoveOne
  <2>2. CASE Abort(s) /\ UNCHANGED <<files, whole, modified>>
    BY <2>1, <2>2, AbortType DEF ArtTypeOK
  <2>3. ASSUME NEW n \in left[s], Removed(n) \/ UNCHANGED <<files, whole, modified>>,
               Move(s, pc[s], left[s] \ {n}), UNCHANGED <<mine, cutShort>>
        PROVE  ArtTypeOK'
    <3>1. /\ files' \subseteq files /\ whole' \subseteq files'
          /\ modified' \in [Names -> Nat]
      BY <2>3 DEF Removed, ArtTypeOK
    <3> QED BY <2>1, <2>3, <3>1 DEF ArtTypeOK, Move
  <2> QED BY <1>2, <2>2, <2>3 DEF PruneOne, RemoveOne
<1>3. ASSUME NEW s \in Stores, Create(s) PROVE ArtTypeOK'
  <2>1. PICK n \in Names : CreateAs(s, n)
    BY <1>3, Creation
  <2>2. created' \subseteq Names /\ IsFiniteSet(created')
    BY <2>1, FS_AddElement DEF CreateAs, ArtTypeOK
  <2>3. /\ files' \subseteq created' /\ acked' \subseteq created' /\ whole' \subseteq files'
        /\ modified' \in [Names -> Nat]
    BY <2>1 DEF CreateAs, ArtTypeOK
  <2>4. /\ pc' \in [Stores -> {"idle", "prune", "room"} \cup Written]
        /\ left' \in [Stores -> SUBSET created']
        /\ mine' \in [Stores -> created' \cup {<<>>}]
    BY <2>1 DEF CreateAs, Move, ArtTypeOK, Written
  <2>5. \A q \in Stores : mine'[q] # <<>> <=> pc'[q] \in Written
    BY <2>1, NamesArePairs DEF CreateAs, Move, ArtTypeOK, Written
  <2> QED BY <2>1, <2>2, <2>3, <2>4, <2>5 DEF CreateAs, ArtTypeOK
<1>4. ASSUME NEW s \in Stores, Fill(s) PROVE ArtTypeOK'
  BY <1>4 DEF Fill, Move, ArtTypeOK, Written
<1>5. ASSUME NEW s \in Stores, Return(s) PROVE ArtTypeOK'
  <2>1. mine[s] \in created
    BY <1>5 DEF Return, ArtTypeOK, Written
  <2> QED BY <1>5, <2>1 DEF Return, Move, ArtTypeOK, Written
<1>6. ASSUME NEW s \in Stores, Die(s) PROVE ArtTypeOK'
  BY <1>6, AbortType DEF Die, ArtTypeOK
<1>7. CASE TimePasses \/ UNCHANGED artifactVars
  <2>1. UNCHANGED <<files, whole, modified, pc, left, mine, created, acked, cutShort>>
    BY <1>7 DEF TimePasses, artifactVars
  <2>2. now' \in 0 .. LastSecond
    BY <1>7, ArtifactsAssumption DEF ArtifactsAssumption, TimePasses, artifactVars, ArtTypeOK
  <2> QED BY <2>1, <2>2 DEF ArtTypeOK
<1> QED BY <1>1, <1>2, <1>3, <1>4, <1>5, <1>6, <1>7 DEF ArtifactsNext

\* What is listed as excess is superseded.
LEMMA ExcessIsSuperseded ==
  ASSUME ArtTypeOK, NEW keep \in Nat, keep >= MaxArtifacts - 1, NEW n \in Excess(keep)
  PROVE  Superseded(n)
<1> DEFINE newer == {m \in files : Older(n, m)}
           all == {m \in created : Older(n, m)}
<1>1. IsFiniteSet(all) /\ newer \subseteq all
  BY FS_Subset DEF ArtTypeOK
<1>2. Cardinality(newer) >= keep
  BY DEF Excess
<1> HIDE DEF newer, all
<1>3. Cardinality(newer) <= Cardinality(all)
  BY <1>1, FS_Subset
<1>4. Cardinality(newer) \in Nat /\ Cardinality(all) \in Nat
  BY <1>1, FS_Subset, FS_CardinalityType
<1>5. Cardinality(all) >= MaxArtifacts - 1
  BY <1>2, <1>3, <1>4, ArtifactsAssumption DEF ArtifactsAssumption
<1> QED BY <1>5 DEF Superseded, all

\* What is superseded stays superseded.
LEMMA SupersededForGood ==
  ASSUME ArtTypeOK', created \subseteq created', NEW n, Superseded(n)
  PROVE  Superseded(n)'
<1> DEFINE before == {m \in created : Older(n, m)}
           after == {m \in created' : Older(n, m)}
<1>1. IsFiniteSet(after) /\ before \subseteq after
  BY FS_Subset DEF ArtTypeOK
<1>2. Cardinality(before) >= MaxArtifacts - 1
  BY DEF Superseded
<1> HIDE DEF before, after
<1>3. Cardinality(before) <= Cardinality(after)
  BY <1>1, FS_Subset
<1>4. Cardinality(before) \in Nat /\ Cardinality(after) \in Nat
  BY <1>1, FS_Subset, FS_CardinalityType
<1>5. Cardinality(after) >= MaxArtifacts - 1
  BY <1>2, <1>3, <1>4, ArtifactsAssumption DEF ArtifactsAssumption
<1> QED BY <1>5 DEF Superseded, after

LEMMA HeldStep ==
  ASSUME ArtTypeOK, ArtTypeOK', HeldInv, ArtifactsNext \/ UNCHANGED artifactVars
  PROVE  HeldInv'
<1> USE ArtifactsAssumption DEF ArtifactsAssumption
<1>1. ASSUME NEW s \in Stores, BeginRetain(s) \/ MakeRoom(s) \/ Enforce(s) PROVE HeldInv'
  <2>1. UNCHANGED <<files, whole, modified, now, mine, created, acked, cutShort>>
    BY <1>1 DEF BeginRetain, MakeRoom, Enforce
  <2>2. \A n : Superseded(n)' <=> Superseded(n)
    BY <2>1 DEF Superseded
  <2>3. PICK next \in {"prune", "room", "enforce"}, names \in SUBSET created :
            /\ Move(s, next, names) /\ pc[s] # "fill"
            /\ next = "prune" \/ \A n \in names : Superseded(n)
    <3>1. CASE BeginRetain(s)
      BY <3>1 DEF BeginRetain, ArtTypeOK
    <3>2. CASE MakeRoom(s)
      <4>1. \A n \in RoomNeeded : Superseded(n)
        BY ExcessIsSuperseded DEF RoomNeeded
      <4>2. RoomNeeded \subseteq created
        BY DEF RoomNeeded, Excess, ArtTypeOK
      <4> QED BY <3>2, <4>1, <4>2 DEF MakeRoom
    <3>3. CASE Enforce(s)
      <4>1. \A n \in Over : Superseded(n)
        BY ExcessIsSuperseded DEF Over
      <4>2. Over \subseteq created
        BY DEF Over, Excess, ArtTypeOK
      <4> QED BY <3>3, <4>1, <4>2 DEF Enforce
    <3> QED BY <1>1, <3>1, <3>2, <3>3
  <2>4. \A q \in Stores : pc'[q] \in {"room", "enforce"} => \A n \in left'[q] : Superseded(n)
    BY <2>3 DEF HeldInv, Move, ArtTypeOK
  <2>5. \A n \in files \ whole : cutShort > 0 \/ \E q \in Stores : pc'[q] = "fill" /\ mine[q] = n
    BY <2>3 DEF HeldInv, Move, ArtTypeOK
  <2> QED BY <2>1, <2>2, <2>4, <2>5 DEF HeldInv
<1>2. ASSUME NEW s \in Stores, Abort(s), UNCHANGED <<files, whole, modified, now, created>>
      PROVE  HeldInv'
  <2>1. \A n : Superseded(n)' <=> Superseded(n)
    BY <1>2 DEF Superseded
  <2>2. \A q \in Stores : pc'[q] \in {"room", "enforce"} => \A n \in left'[q] : Superseded(n)
    BY <1>2 DEF HeldInv, Abort, Move, ArtTypeOK
  <2>3. ASSUME NEW n \in files \ whole
        PROVE  cutShort' > 0 \/ \E q \in Stores : pc'[q] = "fill" /\ mine'[q] = n
    <3>1. CASE cutShort > 0
      BY <1>2, <3>1 DEF Abort, ArtTypeOK
    <3>2. CASE mine[s] = n
      BY <1>2, <3>2 DEF Abort, ArtTypeOK
    <3>3. ASSUME NEW q \in Stores, pc[q] = "fill", mine[q] = n, q # s
          PROVE  pc'[q] = "fill" /\ mine'[q] = n
      BY <1>2, <3>3 DEF Abort, Move, ArtTypeOK
    <3> QED BY <3>1, <3>2, <3>3 DEF HeldInv
  <2> QED BY <1>2, <2>1, <2>2, <2>3 DEF HeldInv
<1>3. ASSUME NEW s \in Stores, PruneOne(s) \/ RemoveOne(s) PROVE HeldInv'
  <2>1. UNCHANGED <<now, created, acked>>
    BY <1>3 DEF PruneOne, RemoveOne
  <2>2. \A n : Superseded(n)' <=> Superseded(n)
    BY <2>1 DEF Superseded
  <2>3. CASE Abort(s) /\ UNCHANGED <<files, whole, modified>>
    BY <1>2, <2>1, <2>3
  <2>4. ASSUME NEW n \in left[s], Move(s, pc[s], left[s] \ {n}), UNCHANGED <<mine, cutShort>>,
               \/ UNCHANGED <<files, whole, modified>>
               \/ Removed(n) /\ n \in files /\ (Expired(n) \/ pc[s] \in {"room", "enforce"})
        PROVE  HeldInv'
    <3>1. \A q \in Stores : pc'[q] \in {"room", "enforce"} => \A m \in left'[q] : Superseded(m)
      BY <2>4 DEF HeldInv, Move, ArtTypeOK
    <3>2. files' \ whole' \subseteq files \ whole /\ pc' = pc
      BY <2>4 DEF Removed, Move, ArtTypeOK
    <3>3. \A m \in files' : modified'[m] >= m[1]
      BY <2>4 DEF Removed, HeldInv, ArtTypeOK
    <3>4. \A m \in created \ files' : now >= m[1] + Ttl \/ Superseded(m)
      <4>1. CASE UNCHANGED <<files, whole, modified>>
        BY <4>1 DEF HeldInv
      <4>2. CASE Removed(n) /\ n \in files /\ Expired(n)
        <5>1. now >= modified[n] + Ttl /\ modified[n] >= n[1]
          BY <4>2 DEF Expired, HeldInv
        <5>2. n \in Names
          BY <4>2 DEF ArtTypeOK
        <5>3. now \in Nat /\ modified[n] \in Nat /\ n[1] \in Nat
          BY <5>2 DEF ArtTypeOK, Names
        <5>4. now >= n[1] + Ttl
          BY <5>1, <5>3
        <5> QED BY <4>2, <5>4 DEF Removed, HeldInv
      <4>3. CASE Removed(n) /\ pc[s] \in {"room", "enforce"}
        BY <4>3 DEF Removed, HeldInv
      <4> QED BY <2>4, <4>1, <4>2, <4>3
    <3> QED BY <2>1, <2>2, <2>4, <3>1, <3>2, <3>3, <3>4 DEF HeldInv
  <2> QED BY <1>3, <2>3, <2>4 DEF PruneOne, RemoveOne
<1>4. ASSUME NEW s \in Stores, Create(s) PROVE HeldInv'
  <2>1. PICK n \in Names : CreateAs(s, n)
    BY <1>4, Creation
  <2>2. \A m : Superseded(m) => Superseded(m)'
    BY <2>1, SupersededForGood DEF CreateAs
  <2>3. \A m \in created' : m[1] <= now'
    BY <2>1 DEF CreateAs, HeldInv, ArtTypeOK
  <2>4. \A m \in files' : modified'[m] >= m[1]
    BY <2>1 DEF CreateAs, HeldInv, ArtTypeOK
  <2>5. \A m \in created' \ files' : now' >= m[1] + Ttl \/ Superseded(m)'
    BY <2>1, <2>2 DEF CreateAs, HeldInv
  <2>6. \A q \in Stores : pc'[q] \in {"room", "enforce"} => \A m \in left'[q] : Superseded(m)'
    BY <2>1, <2>2 DEF CreateAs, Move, HeldInv, ArtTypeOK
  <2>7. \A m \in files' \ whole' : cutShort' > 0 \/ \E q \in Stores : pc'[q] = "fill" /\ mine'[q] = m
    BY <2>1 DEF CreateAs, Move, HeldInv, ArtTypeOK
  <2> QED BY <2>3, <2>4, <2>5, <2>6, <2>7 DEF HeldInv
<1>5. ASSUME NEW s \in Stores, Fill(s) PROVE HeldInv'
  <2>1. /\ UNCHANGED <<files, now, mine, created, acked, cutShort>>
        /\ pc' = [pc EXCEPT ![s] = "written"] /\ left' = [left EXCEPT ![s] = {}]
    BY <1>5 DEF Fill, Move
  <2>2. \A n : Superseded(n)' <=> Superseded(n)
    BY <2>1 DEF Superseded
  <2>3. \A n \in files : modified'[n] >= n[1]
    BY <1>5 DEF Fill, HeldInv, ArtTypeOK
  <2>4. \A q \in Stores : pc'[q] \in {"room", "enforce"} => \A n \in left'[q] : Superseded(n)
    BY <2>1 DEF HeldInv, ArtTypeOK
  <2>5. ASSUME NEW n \in files \ whole'
        PROVE  cutShort > 0 \/ \E q \in Stores : pc'[q] = "fill" /\ mine[q] = n
    <3>1. n \in files \ whole /\ n # mine[s]
      BY <1>5 DEF Fill
    <3> QED BY <2>1, <3>1 DEF HeldInv, ArtTypeOK
  <2> QED BY <2>1, <2>2, <2>3, <2>4, <2>5 DEF HeldInv
<1>6. ASSUME NEW s \in Stores, Return(s) PROVE HeldInv'
  <2>1. /\ UNCHANGED <<files, whole, modified, now, created, cutShort>>
        /\ pc' = [pc EXCEPT ![s] = "idle"] /\ left' = [left EXCEPT ![s] = {}]
        /\ mine' = [mine EXCEPT ![s] = <<>>] /\ pc[s] = "enforce"
    BY <1>6 DEF Return, Move
  <2>2. \A n : Superseded(n)' <=> Superseded(n)
    BY <2>1 DEF Superseded
  <2>3. \A q \in Stores : pc'[q] \in {"room", "enforce"} => \A n \in left'[q] : Superseded(n)
    BY <2>1 DEF HeldInv, ArtTypeOK
  <2>4. \A n \in files \ whole : cutShort > 0 \/ \E q \in Stores : pc'[q] = "fill" /\ mine'[q] = n
    BY <2>1 DEF HeldInv, ArtTypeOK
  <2> QED BY <2>1, <2>2, <2>3, <2>4 DEF HeldInv
<1>7. ASSUME NEW s \in Stores, Die(s) PROVE HeldInv'
  BY <1>2, <1>7 DEF Die
<1>8. CASE TimePasses \/ UNCHANGED artifactVars
  <2>1. UNCHANGED <<files, whole, modified, pc, left, mine, created, acked, cutShort>>
    BY <1>8 DEF TimePasses, artifactVars
  <2>2. now \in Nat /\ now' \in Nat /\ now' >= now
    BY <1>8 DEF TimePasses, artifactVars, ArtTypeOK
  <2>3. \A n : Superseded(n)' <=> Superseded(n)
    BY <2>1 DEF Superseded
  <2>4. ASSUME NEW n \in created
        PROVE  n[1] <= now' /\ (now >= n[1] + Ttl => now' >= n[1] + Ttl)
    <3>1. n[1] \in Nat /\ n[1] <= now
      BY DEF HeldInv, ArtTypeOK, Names
    <3> QED BY <2>2, <3>1
  <2> QED BY <2>1, <2>3, <2>4 DEF HeldInv
<1> QED BY <1>1, <1>3, <1>4, <1>5, <1>6, <1>7, <1>8 DEF ArtifactsNext

\* What is fetched by a returned handle, at any time and whichever stores
\* prune, make room, race for one file or die (retain and fetch of
\* crates/ts-compress).
THEOREM HandlesCanBeFetched == ArtifactsSpec => []HandlesFetchable
<1>1. ArtifactsInit => ArtTypeOK /\ HeldInv
  BY ArtInitType DEF ArtifactsInit, HeldInv
<1>2. ArtTypeOK /\ HeldInv /\ [ArtifactsNext]_artifactVars => (ArtTypeOK /\ HeldInv)'
  BY ArtTypeStep, HeldStep
<1>3. ASSUME ArtTypeOK, HeldInv PROVE HandlesFetchable
  <2>1. SUFFICES ASSUME NEW n \in acked, now < n[1] + Ttl, ~ Superseded(n)
                 PROVE  \/ Fetch(n) = "content"
                        \/ /\ Fetch(n) = "cut short"
                           /\ cutShort > 0 \/ \E s \in Stores : mine[s] = n
    BY DEF HandlesFetchable, Superseded
  <2>2. n \in created /\ n \in Names /\ n[1] \in Nat /\ now \in Nat
    BY <1>3, ArtifactsAssumption DEF ArtifactsAssumption, ArtTypeOK, Names
  <2>3. n \in files
    BY <1>3, <2>1, <2>2, ArtifactsAssumption DEF HeldInv, ArtifactsAssumption
  <2>4. ~ Expired(n)
    <3>1. modified[n] >= n[1] /\ modified[n] \in Nat
      BY <1>3, <2>2, <2>3 DEF HeldInv, ArtTypeOK
    <3> QED BY <2>1, <2>2, <3>1, ArtifactsAssumption DEF Expired, ArtifactsAssumption
  <2>5. CASE n \in whole
    BY <2>3, <2>4, <2>5 DEF Fetch
  <2>6. CASE n \notin whole
    BY <1>3, <2>3, <2>4, <2>6 DEF Fetch, HeldInv
  <2> QED BY <2>5, <2>6
<1> QED BY <1>1, <1>2, <1>3, PTL DEF ArtifactsSpec

\* The retains that have a file of their own, and those of them whose file the
\* listing of s may have missed: they have not listed the directory for
\* enforce_count yet, or did so later than s, in the order f.
Writers == {s \in Stores : mine[s] # <<>>}

Unseen(s, f) == {q \in Writers : pc[q] # "enforce" \/ f[q] > f[s]}

\* After its removals each leaves no more than the maximum and what it missed.
Enforced(f, last) ==
    /\ \A s \in Stores : f[s] < last
    /\ \A s \in Stores : pc[s] = "enforce" =>
          Cardinality(files \ left[s]) <=
              MaxArtifacts + cutShort + Cardinality(Unseen(s, f))

CountInv == CountBounded /\ \E f \in [Stores -> Nat], last \in Nat : Enforced(f, last)

\* Fewer files, and no fewer writers, keep a bound...
LEMMA FewerFiles ==
  ASSUME NEW A, NEW B, NEW U, NEW V, IsFiniteSet(A), IsFiniteSet(V), NEW k \in Nat,
         B \subseteq A, U \subseteq V, Cardinality(A) <= k + Cardinality(U)
  PROVE  Cardinality(B) <= k + Cardinality(V)
<1>1. IsFiniteSet(B) /\ Cardinality(B) <= Cardinality(A)
  BY FS_Subset
<1>2. IsFiniteSet(U) /\ Cardinality(U) <= Cardinality(V)
  BY FS_Subset
<1>3. /\ Cardinality(A) \in Nat /\ Cardinality(B) \in Nat
      /\ Cardinality(U) \in Nat /\ Cardinality(V) \in Nat
  BY <1>1, <1>2, FS_CardinalityType
<1> QED BY <1>1, <1>2, <1>3

LEMMA OneMore ==
  ASSUME NEW S, NEW x, IsFiniteSet(S)
  PROVE  IsFiniteSet(S \cup {x}) /\ Cardinality(S \cup {x}) <= Cardinality(S) + 1
<1>1. Cardinality(S) \in Nat
  BY FS_CardinalityType
<1>2. IsFiniteSet(S \cup {x})
      /\ (Cardinality(S \cup {x}) = Cardinality(S) \/ Cardinality(S \cup {x}) = Cardinality(S) + 1)
  BY FS_AddElement, Zenon
<1> QED BY <1>1, <1>2

\* ... as does a file with its writer...
LEMMA FileAndWriter ==
  ASSUME NEW A, NEW U, NEW n, NEW s, IsFiniteSet(A), IsFiniteSet(U), s \notin U, NEW k \in Nat,
         Cardinality(A) <= k + Cardinality(U)
  PROVE  /\ IsFiniteSet(A \cup {n})
         /\ Cardinality(A \cup {n}) <= k + Cardinality(U \cup {s})
<1>1. /\ IsFiniteSet(A \cup {n}) /\ Cardinality(A \cup {n}) <= Cardinality(A) + 1
  BY OneMore
<1>2. Cardinality(U \cup {s}) = Cardinality(U) + 1
  BY FS_AddElement
<1>3. Cardinality(A) \in Nat /\ Cardinality(U) \in Nat /\ Cardinality(A \cup {n}) \in Nat
  BY <1>1, FS_CardinalityType
<1> QED BY <1>1, <1>2, <1>3

\* ... and a writer that leaves its file behind and is counted as cut short.
LEMMA WriterCutShort ==
  ASSUME NEW A, NEW U, NEW V, NEW s, IsFiniteSet(A), IsFiniteSet(V), NEW k \in Nat,
         U \ {s} \subseteq V, Cardinality(A) <= k + Cardinality(U)
  PROVE  Cardinality(A) <= (k + 1) + Cardinality(V)
<1>1. IsFiniteSet(V \cup {s}) /\ Cardinality(V \cup {s}) <= Cardinality(V) + 1
  BY OneMore
<1>2. Cardinality(A) <= k + Cardinality(V \cup {s})
  BY <1>1, FewerFiles
<1>3. Cardinality(A) \in Nat /\ Cardinality(V) \in Nat /\ Cardinality(V \cup {s}) \in Nat
  BY <1>1, FS_CardinalityType
<1> QED BY <1>1, <1>2, <1>3

LEMMA FiniteCounts ==
  ASSUME ArtTypeOK
  PROVE  /\ IsFiniteSet(files) /\ IsFiniteSet(Writers)
         /\ \A s \in Stores : IsFiniteSet(files \ left[s])
         /\ \A s \in Stores : \A f : IsFiniteSet(Unseen(s, f))
         /\ MaxArtifacts + cutShort \in Nat
<1>1. IsFiniteSet(files) /\ IsFiniteSet(Writers)
  BY FS_Subset, ArtifactsAssumption DEF ArtifactsAssumption, ArtTypeOK, Writers
<1>2. \A s \in Stores : IsFiniteSet(files \ left[s])
  BY <1>1, FS_Subset
<1>3. \A s \in Stores : \A f : IsFiniteSet(Unseen(s, f))
  BY <1>1, FS_Subset DEF Unseen
<1> QED BY <1>1, <1>2, <1>3, ArtifactsAssumption DEF ArtifactsAssumption, ArtTypeOK

\* A step of nobody who writes: no more files, and the same writers at the same
\* places.
LEMMA QuietCount ==
  ASSUME ArtTypeOK, ArtTypeOK', CountInv, UNCHANGED <<mine, cutShort>>, files' \subseteq files,
         \A s \in Stores : /\ pc'[s] = "enforce" <=> pc[s] = "enforce"
                           /\ pc[s] = "enforce" => files' \ left'[s] \subseteq files \ left[s]
  PROVE  CountInv'
<1>1. PICK f \in [Stores -> Nat], last \in Nat : Enforced(f, last)
  BY DEF CountInv
<1>2. Writers' = Writers /\ \A s \in Stores : Unseen(s, f) \subseteq Unseen(s, f)'
  BY DEF Writers, Unseen
<1>3. CountBounded'
  <2>1. Cardinality(files) <= MaxArtifacts + cutShort + Cardinality(Writers)
    BY DEF CountInv, CountBounded, Writers
  <2>2. Cardinality(files') <= MaxArtifacts + cutShort + Cardinality(Writers')
    BY <1>2, <2>1, FewerFiles, FiniteCounts
  <2> QED BY <2>2 DEF CountBounded, Writers
<1>4. ASSUME NEW s \in Stores, pc'[s] = "enforce"
      PROVE  Cardinality(files' \ left'[s]) <=
                 MaxArtifacts + cutShort + Cardinality(Unseen(s, f)')
  <2>1. Cardinality(files \ left[s]) <= MaxArtifacts + cutShort + Cardinality(Unseen(s, f))
    BY <1>1, <1>4 DEF Enforced
  <2>2. IsFiniteSet(Unseen(s, f)')
    <3>1. IsFiniteSet(Writers')
      BY FiniteCounts, <1>2
    <3> QED BY <3>1, FS_Subset DEF Unseen
  <2> QED BY <1>2, <1>4, <2>1, <2>2, FewerFiles, FiniteCounts
<1>5. Enforced(f, last)'
  BY <1>1, <1>4 DEF Enforced
<1> QED BY <1>1, <1>3, <1>5 DEF CountInv

\* A store that ends its retain: it leaves its file behind, if it wrote one.
LEMMA AbortCount ==
  ASSUME ArtTypeOK, CountInv, NEW s \in Stores, Abort(s), UNCHANGED files
  PROVE  CountInv'
<1>1. PICK f \in [Stores -> Nat], last \in Nat : Enforced(f, last)
  BY DEF CountInv
<1>2. /\ pc' = [pc EXCEPT ![s] = "idle"] /\ left' = [left EXCEPT ![s] = {}]
      /\ mine' = [mine EXCEPT ![s] = <<>>]
  BY DEF Abort, Move
<1>3. /\ Writers \ {s} \subseteq Writers' /\ Writers' \subseteq Stores
      /\ \A q \in Stores : /\ Unseen(q, f) \ {s} \subseteq Unseen(q, f)'
                           /\ Unseen(q, f)' \subseteq Stores
      /\ \A q \in Stores : pc'[q] = "enforce" => pc[q] = "enforce" /\ left'[q] = left[q]
  BY <1>2 DEF ArtTypeOK, Writers, Unseen
<1>4. \A S : S \subseteq Stores => IsFiniteSet(S)
  BY FS_Subset, ArtifactsAssumption DEF ArtifactsAssumption
<1>5. Cardinality(files) <= (MaxArtifacts + cutShort) + Cardinality(Writers)
  BY DEF CountInv, CountBounded, Writers
<1>6. ASSUME NEW q \in Stores, pc'[q] = "enforce"
      PROVE  Cardinality(files \ left[q]) <= (MaxArtifacts + cutShort) + Cardinality(Unseen(q, f))
  BY <1>1, <1>3, <1>6 DEF Enforced
<1>7. CASE mine[s] = <<>>
  <2>1. cutShort' = cutShort
    BY <1>7, NamesArePairs DEF Abort, ArtTypeOK
  <2>2. s \notin Writers
    BY <1>7 DEF Writers
  <2>3. Cardinality(files') <= (MaxArtifacts + cutShort) + Cardinality(Writers')
    <3>1. Writers \subseteq Writers' /\ IsFiniteSet(Writers')
      BY <1>3, <1>4, <2>2
    <3> QED BY <1>5, <3>1, FewerFiles, FiniteCounts
  <2>4. ASSUME NEW q \in Stores, pc'[q] = "enforce"
        PROVE  Cardinality(files' \ left'[q]) <= (MaxArtifacts + cutShort) + Cardinality(Unseen(q, f)')
    <3>1. Unseen(q, f) \subseteq Unseen(q, f)' /\ IsFiniteSet(Unseen(q, f)')
      BY <1>3, <1>4, <2>2 DEF Unseen
    <3>2. IsFiniteSet(files \ left[q])
      BY FiniteCounts
    <3>3. Cardinality(files \ left[q]) <= (MaxArtifacts + cutShort) + Cardinality(Unseen(q, f)')
      BY <1>6, <2>4, <3>1, <3>2, FewerFiles, FiniteCounts
    <3> QED BY <1>3, <2>4, <3>3
  <2>5. Enforced(f, last)'
    BY <1>1, <2>1, <2>4 DEF Enforced
  <2> QED BY <1>1, <2>1, <2>3, <2>5 DEF CountInv, CountBounded, Writers
<1>8. CASE mine[s] # <<>>
  <2>1. cutShort' = cutShort + 1 /\ cutShort \in Nat /\ MaxArtifacts \in Nat
    BY <1>8, ArtifactsAssumption DEF ArtifactsAssumption, Abort, ArtTypeOK
  <2>2. MaxArtifacts + cutShort' = (MaxArtifacts + cutShort) + 1
    BY <2>1
  <2>3. Cardinality(files') <= (MaxArtifacts + cutShort') + Cardinality(Writers')
    <3>1. IsFiniteSet(files) /\ IsFiniteSet(Writers') /\ MaxArtifacts + cutShort \in Nat
      BY <1>3, <1>4, FiniteCounts
    <3>2. Cardinality(files) <= ((MaxArtifacts + cutShort) + 1) + Cardinality(Writers')
      BY <1>3, <1>5, <3>1, WriterCutShort
    <3> QED BY <2>2, <3>2
  <2>4. ASSUME NEW q \in Stores, pc'[q] = "enforce"
        PROVE  Cardinality(files' \ left'[q]) <= (MaxArtifacts + cutShort') + Cardinality(Unseen(q, f)')
    <3>1. Unseen(q, f) \ {s} \subseteq Unseen(q, f)' /\ IsFiniteSet(Unseen(q, f)')
      BY <1>3, <1>4
    <3>2. IsFiniteSet(files \ left[q])
      BY FiniteCounts
    <3>3. Cardinality(files \ left[q])
              <= ((MaxArtifacts + cutShort) + 1) + Cardinality(Unseen(q, f)')
      BY <1>6, <2>4, <3>1, <3>2, WriterCutShort, FiniteCounts
    <3> QED BY <1>3, <2>2, <2>4, <3>3
  <2>5. Enforced(f, last)'
    BY <1>1, <2>4 DEF Enforced
  <2> QED BY <1>1, <2>3, <2>5 DEF CountInv, CountBounded, Writers
<1> QED BY <1>7, <1>8

\* A file more, and its writer, whom no listing has seen.
LEMMA CreateCount ==
  ASSUME ArtTypeOK, CountInv, NEW s \in Stores, NEW n \in Names, CreateAs(s, n)
  PROVE  CountInv'
<1>1. PICK f \in [Stores -> Nat], last \in Nat : Enforced(f, last)
  BY DEF CountInv
<1>2. mine[s] = <<>> /\ n # <<>>
  BY NamesArePairs DEF CreateAs, ArtTypeOK, Written
<1>3. /\ files' = files \cup {n} /\ mine' = [mine EXCEPT ![s] = n]
      /\ pc' = [pc EXCEPT ![s] = "fill"] /\ left' = [left EXCEPT ![s] = {}]
      /\ cutShort' = cutShort
  BY DEF CreateAs, Move
<1>4. /\ Writers \cup {s} \subseteq Writers' /\ s \notin Writers /\ Writers' \subseteq Stores
      /\ \A q \in Stores : /\ Unseen(q, f) \cup {s} \subseteq Unseen(q, f)' /\ s \notin Unseen(q, f)
                           /\ Unseen(q, f)' \subseteq Stores
      /\ \A q \in Stores : pc'[q] = "enforce" => pc[q] = "enforce" /\ left'[q] = left[q]
  BY <1>2, <1>3 DEF ArtTypeOK, Writers, Unseen
<1>5. \A S : S \subseteq Stores => IsFiniteSet(S)
  BY FS_Subset, ArtifactsAssumption DEF ArtifactsAssumption
<1>6. Cardinality(files') <= (MaxArtifacts + cutShort) + Cardinality(Writers')
  <2>1. Cardinality(files) <= (MaxArtifacts + cutShort) + Cardinality(Writers)
    BY DEF CountInv, CountBounded, Writers
  <2>2. IsFiniteSet(files) /\ IsFiniteSet(Writers') /\ MaxArtifacts + cutShort \in Nat
    BY <1>4, <1>5, FiniteCounts
  <2>3. files' \subseteq files \cup {n}
    BY <1>3
  <2>4. /\ IsFiniteSet(files \cup {n})
        /\ Cardinality(files \cup {n}) <= (MaxArtifacts + cutShort) + Cardinality(Writers \cup {s})
    BY <1>4, <2>1, <2>2, FileAndWriter, FiniteCounts
  <2> QED BY <1>4, <2>2, <2>3, <2>4, FewerFiles
<1>7. ASSUME NEW q \in Stores, pc'[q] = "enforce"
      PROVE  Cardinality(files' \ left'[q]) <= (MaxArtifacts + cutShort) + Cardinality(Unseen(q, f)')
  <2>1. Cardinality(files \ left[q]) <= (MaxArtifacts + cutShort) + Cardinality(Unseen(q, f))
    BY <1>1, <1>4, <1>7 DEF Enforced
  <2>2. files' \ left'[q] \subseteq (files \ left[q]) \cup {n}
    BY <1>3, <1>4, <1>7
  <2>3. /\ IsFiniteSet(files \ left[q]) /\ IsFiniteSet(Unseen(q, f)')
        /\ MaxArtifacts + cutShort \in Nat
    BY <1>4, <1>5, FiniteCounts
  <2>4. Unseen(q, f) \cup {s} \subseteq Unseen(q, f)' /\ s \notin Unseen(q, f)
    BY <1>4
  <2>5. /\ IsFiniteSet((files \ left[q]) \cup {n})
        /\ Cardinality((files \ left[q]) \cup {n})
               <= (MaxArtifacts + cutShort) + Cardinality(Unseen(q, f) \cup {s})
    BY <2>1, <2>3, <2>4, FileAndWriter, FiniteCounts
  <2> QED BY <2>2, <2>3, <2>4, <2>5, FewerFiles
<1>8. Enforced(f, last)'
  BY <1>1, <1>3, <1>7 DEF Enforced
<1> QED BY <1>1, <1>3, <1>6, <1>8 DEF CountInv, CountBounded, Writers

\* The latest listing of all sees every file that the others have left.
LEMMA EnforceCount ==
  ASSUME ArtTypeOK, CountInv, NEW s \in Stores, Enforce(s)
  PROVE  CountInv'
<1>1. PICK f \in [Stores -> Nat], last \in Nat : Enforced(f, last)
  BY DEF CountInv
<1> DEFINE g == [f EXCEPT ![s] = last]
<1>2. /\ UNCHANGED <<files, mine, cutShort>> /\ pc[s] = "written"
      /\ pc' = [pc EXCEPT ![s] = "enforce"] /\ left' = [left EXCEPT ![s] = Over]
  BY DEF Enforce, Move
<1>3. CountBounded'
  BY <1>2 DEF CountInv, CountBounded
<1>4. Cardinality(files' \ left'[s]) <= MaxArtifacts + cutShort + Cardinality(Unseen(s, g)')
  <2>1. Cardinality(files \ Over) <= MaxArtifacts /\ IsFiniteSet(files \ Over)
    BY NewestAreFew, FiniteCounts, ArtifactsAssumption DEF ArtifactsAssumption, ArtTypeOK, Over
  <2>2. Unseen(s, g)' \subseteq Stores
    BY DEF Unseen, Writers
  <2>3. Cardinality(Unseen(s, g)') \in Nat /\ Cardinality(files \ Over) \in Nat
    BY <2>1, <2>2, FS_Subset, FS_CardinalityType, ArtifactsAssumption DEF ArtifactsAssumption
  <2>4. MaxArtifacts \in Nat /\ cutShort \in Nat
    BY ArtifactsAssumption DEF ArtifactsAssumption, ArtTypeOK
  <2>5. files' \ left'[s] = files \ Over
    BY <1>2 DEF ArtTypeOK
  <2> HIDE DEF g
  <2> QED BY <2>1, <2>3, <2>4, <2>5
<1>5. ASSUME NEW q \in Stores, q # s, pc'[q] = "enforce"
      PROVE  Cardinality(files' \ left'[q]) <= MaxArtifacts + cutShort + Cardinality(Unseen(q, g)')
  <2>1. Cardinality(files \ left[q]) <= (MaxArtifacts + cutShort) + Cardinality(Unseen(q, f))
    BY <1>1, <1>2, <1>5 DEF Enforced, ArtTypeOK
  <2>2. files' \ left'[q] \subseteq files \ left[q]
    BY <1>2, <1>5 DEF ArtTypeOK
  <2>3. Unseen(q, f) \subseteq Unseen(q, g)'
    <3>1. f[q] < last /\ g[s] = last /\ g[q] = f[q]
      BY <1>1, <1>5 DEF Enforced
    <3>2. ASSUME NEW w \in Unseen(q, f) PROVE w \in Unseen(q, g)'
      <4>1. w \in Stores /\ mine'[w] # <<>>
        BY <1>2, <3>2 DEF Unseen, Writers
      <4>2. CASE w = s
        <5>1. g[w] > g[q]
          BY <3>1, <4>2
        <5> QED BY <4>1, <5>1 DEF Unseen, Writers
      <4>3. CASE w # s
        <5>1. pc'[w] = pc[w] /\ g[w] = f[w]
          BY <1>2, <4>1, <4>3 DEF ArtTypeOK
        <5> QED BY <3>1, <3>2, <4>1, <5>1 DEF Unseen, Writers
      <4> QED BY <4>2, <4>3
    <3> QED BY <3>2
  <2>4. IsFiniteSet(Unseen(q, g)')
    <3>1. Unseen(q, g)' \subseteq Stores
      BY DEF Unseen, Writers
    <3> QED BY <3>1, FS_Subset, ArtifactsAssumption DEF ArtifactsAssumption
  <2>5. IsFiniteSet(files \ left[q])
    BY FiniteCounts
  <2> HIDE DEF g
  <2> QED BY <2>1, <2>2, <2>3, <2>4, <2>5, FewerFiles, FiniteCounts
<1>6. g \in [Stores -> Nat] /\ last + 1 \in Nat /\ \A q \in Stores : g[q] < last + 1
  <2>1. \A q \in Stores : f[q] < last /\ f[q] \in Nat
    BY <1>1 DEF Enforced
  <2>2. \A q \in Stores : g[q] = f[q] \/ g[q] = last
    OBVIOUS
  <2> QED BY <2>1, <2>2
<1> HIDE DEF g
<1>7. Enforced(g, last + 1)'
  <2>1. \A q \in Stores : pc'[q] = "enforce" =>
            Cardinality(files' \ left'[q]) <= MaxArtifacts + cutShort + Cardinality(Unseen(q, g)')
    BY <1>4, <1>5
  <2> QED BY <1>2, <1>6, <2>1 DEF Enforced
<1> QED BY <1>3, <1>6, <1>7 DEF CountInv

\* What s leaves bounds what those leave who count on it.
LEMMA ReturnCount ==
  ASSUME ArtTypeOK, CountInv, NEW s \in Stores, Return(s)
  PROVE  CountInv'
<1>1. PICK f \in [Stores -> Nat], last \in Nat : Enforced(f, last)
  BY DEF CountInv
<1>2. /\ UNCHANGED <<files, cutShort>> /\ pc[s] = "enforce" /\ left[s] = {}
      /\ pc' = [pc EXCEPT ![s] = "idle"] /\ left' = [left EXCEPT ![s] = {}]
      /\ mine' = [mine EXCEPT ![s] = <<>>]
  BY DEF Return, Move
<1>3. Cardinality(files) <= (MaxArtifacts + cutShort) + Cardinality(Unseen(s, f))
  <2>1. files \ left[s] = files
    BY <1>2
  <2> QED BY <1>1, <1>2, <2>1 DEF Enforced
<1>4. s \notin Unseen(s, f)
  BY <1>2 DEF Unseen
<1>5. \A S : S \subseteq Stores => IsFiniteSet(S)
  BY FS_Subset, ArtifactsAssumption DEF ArtifactsAssumption
<1>6. Writers' = Writers \ {s} /\ Writers \subseteq Stores
  BY <1>2 DEF Writers, ArtTypeOK
<1>7. Cardinality(files') <= (MaxArtifacts + cutShort) + Cardinality(Writers')
  <2>1. Unseen(s, f) \subseteq Writers' /\ IsFiniteSet(Writers')
    BY <1>4, <1>5, <1>6 DEF Unseen
  <2> QED BY <1>2, <1>3, <2>1, FewerFiles, FiniteCounts
<1>8. ASSUME NEW q \in Stores, pc'[q] = "enforce"
      PROVE  Cardinality(files' \ left'[q]) <= (MaxArtifacts + cutShort) + Cardinality(Unseen(q, f)')
  <2>1. q # s /\ pc[q] = "enforce" /\ left'[q] = left[q]
    BY <1>2, <1>8 DEF ArtTypeOK
  <2>2. IsFiniteSet(Unseen(q, f)')
    <3>1. Unseen(q, f)' \subseteq Stores
      BY DEF Unseen, Writers
    <3> QED BY <1>5, <3>1
  <2>3. f[q] \in Nat /\ f[s] \in Nat
    OBVIOUS
  <2>4. \A w \in Stores : w # s => pc'[w] = pc[w] /\ mine'[w] = mine[w]
    BY <1>2 DEF ArtTypeOK
  <2>5. CASE f[q] < f[s]
    <3>1. Unseen(s, f) \subseteq Unseen(q, f)'
      <4>1. ASSUME NEW w \in Unseen(s, f) PROVE w \in Unseen(q, f)'
        <5>1. w # s /\ w \in Stores /\ mine[w] # <<>> /\ f[w] \in Nat
          BY <1>4 DEF Unseen, Writers
        <5>2. pc[w] # "enforce" \/ f[w] > f[q]
          BY <2>3, <2>5, <5>1 DEF Unseen
        <5> QED BY <2>4, <5>1, <5>2 DEF Unseen, Writers
      <4> QED BY <4>1
    <3>2. files' \ left'[q] \subseteq files
      BY <1>2
    <3> QED BY <1>3, <2>2, <3>1, <3>2, FewerFiles, FiniteCounts
  <2>6. CASE ~ (f[q] < f[s])
    <3>1. Unseen(q, f) \subseteq Unseen(q, f)'
      <4>1. ASSUME NEW w \in Unseen(q, f) PROVE w \in Unseen(q, f)'
        <5>1. w \in Stores /\ mine[w] # <<>> /\ (pc[w] # "enforce" \/ f[w] > f[q])
          BY DEF Unseen, Writers
        <5>2. w # s
          BY <1>2, <2>3, <2>6, <5>1
        <5> QED BY <2>4, <5>1, <5>2 DEF Unseen, Writers
      <4> QED BY <4>1
    <3>2. Cardinality(files \ left[q]) <= (MaxArtifacts + cutShort) + Cardinality(Unseen(q, f))
      BY <1>1, <2>1 DEF Enforced
    <3>3. files' \ left'[q] = files \ left[q] /\ IsFiniteSet(files \ left[q])
      BY <1>2, <2>1, FiniteCounts
    <3> QED BY <2>2, <3>1, <3>2, <3>3, FewerFiles, FiniteCounts
  <2> QED BY <2>5, <2>6
<1>9. Enforced(f, last)'
  BY <1>1, <1>2, <1>8 DEF Enforced
<1> QED BY <1>1, <1>2, <1>7, <1>9 DEF CountInv, CountBounded, Writers

\* The directory never holds more than the maximum and a file for each retain
\* that is under way or was cut short after its write (prune, make_room and
\* enforce_count of crates/ts-compress, which share no lock).
THEOREM CountIsBounded == ArtifactsSpec => []CountBounded
<1>1. ASSUME ArtifactsInit PROVE ArtTypeOK /\ CountInv
  <2>1. ArtTypeOK
    BY <1>1, ArtInitType
  <2>2. CountBounded
    <3>1. Cardinality(files) = 0 /\ cutShort = 0
      BY <1>1, FS_EmptySet DEF ArtifactsInit
    <3>2. Cardinality(Writers) \in Nat
      BY <2>1, FiniteCounts, FS_CardinalityType
    <3> QED BY <3>1, <3>2, ArtifactsAssumption DEF ArtifactsAssumption, CountBounded, Writers
  <2>3. Enforced([s \in Stores |-> 0], 1)
    BY <1>1 DEF ArtifactsInit, Enforced
  <2> QED BY <2>1, <2>2, <2>3 DEF CountInv
<1>2. ASSUME ArtTypeOK, CountInv, [ArtifactsNext]_artifactVars PROVE (ArtTypeOK /\ CountInv)'
  <2>1. ArtTypeOK'
    BY <1>2, ArtTypeStep
  <2>2. ASSUME NEW s \in Stores, BeginRetain(s) \/ MakeRoom(s) \/ Fill(s) PROVE CountInv'
    <3>1. /\ UNCHANGED <<files, mine, cutShort>>
          /\ \E next \in {"prune", "room", "written"} : \E names : Move(s, next, names)
      BY <2>2 DEF BeginRetain, MakeRoom, Fill
    <3>2. pc[s] # "enforce"
      BY <2>2 DEF BeginRetain, MakeRoom, Fill
    <3>3. \A q \in Stores : /\ pc'[q] = "enforce" <=> pc[q] = "enforce"
                            /\ pc[q] = "enforce" => left'[q] = left[q]
      BY <1>2, <3>1, <3>2 DEF Move, ArtTypeOK
    <3> QED BY <1>2, <2>1, <3>1, <3>3, QuietCount
  <2>3. ASSUME NEW s \in Stores, PruneOne(s) \/ RemoveOne(s) PROVE CountInv'
    <3>1. CASE Abort(s) /\ UNCHANGED <<files, whole, modified>>
      BY <1>2, <3>1, AbortCount
    <3>2. ASSUME NEW n \in left[s], Removed(n) \/ UNCHANGED <<files, whole, modified>>,
                 Removed(n) \/ pc[s] = "prune",
                 Move(s, pc[s], left[s] \ {n}), UNCHANGED <<mine, cutShort>>
          PROVE  CountInv'
      <4>1. files' \subseteq files
        BY <3>2 DEF Removed
      <4>2. \A q \in Stores :
                /\ pc'[q] = "enforce" <=> pc[q] = "enforce"
                /\ pc[q] = "enforce" => files' \ left'[q] \subseteq files \ left[q]
        BY <1>2, <3>2 DEF Move, Removed, ArtTypeOK
      <4> QED BY <1>2, <2>1, <3>2, <4>1, <4>2, QuietCount
    <3> QED BY <2>3, <3>1, <3>2 DEF PruneOne, RemoveOne
  <2>4. ASSUME NEW s \in Stores, Create(s) PROVE CountInv'
    BY <1>2, <2>4, Creation, CreateCount
  <2>5. ASSUME NEW s \in Stores, Die(s) PROVE CountInv'
    BY <1>2, <2>5, AbortCount DEF Die
  <2>6. CASE TimePasses \/ UNCHANGED artifactVars
    <3>1. UNCHANGED <<files, pc, left, mine, cutShort>>
      BY <2>6 DEF TimePasses, artifactVars
    <3> QED BY <1>2, <2>1, <3>1, QuietCount
  <2> QED BY <1>2, <2>1, <2>2, <2>3, <2>4, <2>5, <2>6, EnforceCount, ReturnCount DEF ArtifactsNext
<1>3. CountInv => CountBounded
  BY DEF CountInv
<1> QED BY <1>1, <1>2, <1>3, PTL DEF ArtifactsSpec
=============================================================================
