--------------------------- MODULE TelemetryStore ---------------------------
(***************************************************************************)
(* The telemetry database (crates/ts-telemetry), telemetry.db: a row per   *)
(* request, and events that refer to a request and go with it.  Every      *)
(* operation is one SQLite transaction, and so one step here, except that  *)
(* an open reads the version before it begins the migration.               *)
(*                                                                         *)
(* Labels and hashes are left out: each is valid or refused before the     *)
(* database is touched.  An amount is a u64 of the caller's; SQLite keeps  *)
(* i64.                                                                    *)
(***************************************************************************)
EXTENDS Naturals, FiniteSetsExt

CONSTANTS
    RequestIds, \* request ids
    Largest,    \* i64::MAX, scaled down
    MaxEvents,  \* bound: events kept at a time
    Gone        \* no row

ASSUME TelemetryAssumption == Largest \in Nat /\ MaxEvents \in Nat /\ Gone \notin Nat

VARIABLES
    version,    \* user_version: 0, 1, or 2 for a later program's
    tables,     \* whether the four tables exist
    requests,   \* request id -> started_at_ms or Gone
    events      \* the rows of the three event tables, by a number of their own

telemetryVars == <<version, tables, requests, events>>

\* A token event counts towards its tokenizer and precision; an artifact has
\* an expiry.
Event(kind, id, raw, optimized, expires) ==
    [kind |-> kind, request |-> id, raw |-> raw, optimized |-> optimized,
     expires |-> expires]

TelemetryInit ==
    /\ version \in 0 .. 2
    /\ tables = (version # 0)
    /\ requests = [id \in RequestIds |-> Gone]
    /\ events = <<>>

Present(id) == requests[id] # Gone

-----------------------------------------------------------------------------
(* Transactions.                                                            *)

\* Mutant: user_version is set by a statement of its own, which may not come.
CreatedFirst == tables' = TRUE /\ version' \in {version, 1}

\* The migration's transaction, when no other process has migrated since this
\* one read version 0.
Created == tables' = TRUE /\ version' = 1

\* Mutant: INSERT OR REPLACE, which deletes the row there is and its events.
Replaced(id, started) ==
    /\ requests' = [requests EXCEPT ![id] = started]
    /\ events' = [n \in {n \in DOMAIN events : events[n].request # id} |-> events[n]]
    /\ UNCHANGED <<version, tables>>

\* record_request: insert, or overwrite the row of the same id, whose events
\* stay.
RecordRequest(id, started) ==
    /\ requests' = [requests EXCEPT ![id] = started]
    /\ UNCHANGED <<version, tables, events>>

\* to_i64.
Fits(amount) == amount <= Largest

\* The numbers that no row has.
Free == 1 .. MaxEvents \ DOMAIN events

\* The insertion of an event: its request must exist.
Insert(event) ==
    /\ Present(event.request)
    /\ Free # {}
    /\ events' = [n \in DOMAIN events \cup {Min(Free)} |->
                      IF n \in DOMAIN events THEN events[n] ELSE event]
    /\ UNCHANGED <<version, tables, requests>>

RecordTokens(id, raw, optimized) ==
    /\ Fits(raw) /\ Fits(optimized)
    /\ Insert(Event("token", id, raw, optimized, 0))

RecordProvider(id) == Insert(Event("provider", id, 0, 0, 0))

RecordArtifact(id, expires) == Insert(Event("artifact", id, 0, 0, expires))

\* ON DELETE CASCADE: the events of deleted requests go with them.
Cascaded(ids, kept) ==
    /\ requests' = [id \in RequestIds |-> IF id \in ids THEN Gone ELSE requests[id]]
    /\ events' = [n \in {n \in kept : events[n].request \notin ids} |-> events[n]]

\* prune: expired artifacts, then the requests that started before cutoff.
Prune(cutoff, now) ==
    /\ Cascaded({id \in RequestIds : Present(id) /\ requests[id] < cutoff},
                {n \in DOMAIN events : events[n].kind = "artifact" => events[n].expires > now})
    /\ UNCHANGED <<version, tables>>

ForgetRequest(id) ==
    /\ Cascaded({id}, DOMAIN events)
    /\ UNCHANGED <<version, tables>>

\* token_savings of one tokenizer: the sums, or none when SUM overflows.
Savings ==
    LET counted == {n \in DOMAIN events : events[n].kind = "token"}
        raw == MapThenSumSet(LAMBDA n : events[n].raw, counted)
        optimized == MapThenSumSet(LAMBDA n : events[n].optimized, counted)
    IN  IF Fits(raw) /\ Fits(optimized)
        THEN {[raw |-> raw, optimized |-> optimized, count |-> Cardinality(counted)]}
        ELSE {}
-----------------------------------------------------------------------------
\* The database has its tables exactly when it has a version, whichever opens
\* raced, failed or died: an open that fails never leaves one that cannot be
\* opened any more (migrate and migration_v1 of crates/ts-telemetry).
TelemetryWhole == tables <=> version # 0
=============================================================================
