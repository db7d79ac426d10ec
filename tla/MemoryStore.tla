---------------------------- MODULE MemoryStore ----------------------------
(***************************************************************************)
(* The memory database (crates/ts-memory): processes open it, migrate it,  *)
(* create its full-text index statement by statement, and then remember,   *)
(* search, forget and prune.  MemoryPool and MemoryStore run the same SQL; *)
(* a write is one transaction and so one step, while every statement of    *)
(* create_fts5 commits on its own, and the version is read before the      *)
(* migration's transaction begins.                                         *)
(*                                                                         *)
(* A content is the word it has; a query is a word.  The order and limit   *)
(* of the answers (bm25, age, id) are left out.                            *)
(***************************************************************************)
EXTENDS Naturals, FiniteSets

CONSTANTS
    Openers,    \* processes that open the database, any number of times
    Indexers,   \* those whose SQLite is built with FTS5
    Ids,        \* memory ids callers choose
    Scopes,     \* the user and the repositories
    Words,      \* contents
    LastTime,   \* bound: the clock stops here
    Absent      \* no row

VARIABLES
    schema,     \* user_version: 0, 1, or 2 for a later program's
    table,      \* whether the memories table exists
    parts,      \* the statements of create_fts5 whose object exists
    rows,       \* the table: id -> row or Absent
    index,      \* memory_fts: pairs of an id and a word
    stage,      \* where each opener is
    clock       \* now, in every caller's now_unix_ms

memoryVars == <<schema, table, parts, rows, index, stage, clock>>

Triggers == {"insert", "delete", "update"}
Statements == {"fts"} \cup Triggers \cup {"rebuild"}

\* LastTime + 1 stands for no expiry.
Rows == [scope : Scopes, word : Words, expires : 1 .. LastTime + 1]

ASSUME MemoryAssumption == /\ Indexers \subseteq Openers
                           /\ LastTime \in Nat
                           /\ Absent \notin Rows

Held == {id \in Ids : rows[id] # Absent}

\* A new database; one that a build without FTS5 has filled; a later
\* program's.
MemoryInit ==
    /\ schema \in 0 .. 2
    /\ table = (schema # 0)
    /\ parts = {}
    /\ rows \in [Ids -> Rows \cup {Absent}]
    /\ schema # 1 => Held = {}
    /\ index = {}
    /\ stage = [p \in Openers |-> "closed"]
    /\ clock = 0

Reach(p, next) == stage' = [stage EXCEPT ![p] = next]

-----------------------------------------------------------------------------
(* Opening.                                                                 *)

\* from_connection and MemoryPool::open go on to the index when the SQLite
\* of the process has FTS5.
AfterMigration(p) == IF p \in Indexers THEN "fts" ELSE "ready"

\* migrate reads the version; a later one is refused.
OpenMemory(p) ==
    /\ stage[p] = "closed"
    /\ schema <= 1
    /\ Reach(p, IF schema = 0 THEN "migrate" ELSE AfterMigration(p))
    /\ UNCHANGED <<schema, table, parts, rows, index, clock>>

\* Mutant: user_version is set after the transaction, by a process that may
\* no longer be there.
MigrateInTwo(p) ==
    /\ stage[p] = "migrate"
    /\ \/ table /\ Reach(p, "closed") /\ UNCHANGED <<schema, table>>
       \/ /\ ~table
          /\ table' = TRUE
          /\ \/ schema' = 1 /\ Reach(p, AfterMigration(p))
             \/ schema' = schema /\ Reach(p, "closed")
    /\ UNCHANGED <<parts, rows, index, clock>>

\* The transaction of a process that read version 0: CREATE TABLE fails when
\* another one has committed since, and the open with it.
MigrateMemory(p) ==
    /\ stage[p] = "migrate"
    /\ IF table THEN Reach(p, "closed") /\ UNCHANGED <<schema, table>>
                ELSE Reach(p, AfterMigration(p)) /\ schema' = 1 /\ table' = TRUE
    /\ UNCHANGED <<parts, rows, index, clock>>

Following == [fts |-> "insert", insert |-> "delete", delete |-> "update",
              update |-> "rebuild", rebuild |-> "ready"]

\* Mutant: the index is filled by its triggers alone.
NotRebuilt == index

\* 'rebuild' reads the content table.
Rebuilt == {<<id, rows[id].word>> : id \in Held}

\* create_fts5: each object IF NOT EXISTS, then the rebuild.
CreateIndex(p) ==
    /\ stage[p] \in Statements
    /\ Reach(p, Following[stage[p]])
    /\ IF stage[p] = "rebuild"
       THEN index' = Rebuilt /\ UNCHANGED parts
       ELSE parts' = parts \cup {stage[p]} /\ UNCHANGED index
    /\ UNCHANGED <<schema, table, rows, clock>>

\* The process ends, dies, or gives up on a busy database or an I/O error,
\* wherever it is.
CloseMemory(p) ==
    /\ stage[p] # "closed"
    /\ Reach(p, "closed")
    /\ UNCHANGED <<schema, table, parts, rows, index, clock>>

-----------------------------------------------------------------------------
(* The operations.                                                          *)

\* A statement whose triggers write to memory_fts needs the module.
Writes(p, triggers) ==
    stage[p] = "ready" /\ (p \in Indexers \/ parts \cap triggers = {})

\* validate_memory: a memory created now expires later than now.
Valid(row) == row.expires > clock

\* What the update or insert trigger leaves of the index.
Upserted(id, row) ==
    IF rows[id] = Absent
    THEN index \cup (IF "insert" \in parts THEN {<<id, row.word>>} ELSE {})
    ELSE IF "update" \in parts
         THEN (index \ {<<id, rows[id].word>>}) \cup {<<id, row.word>>}
         ELSE index

\* INSERT ... ON CONFLICT(id) DO UPDATE: the row may change its scope.
Remember(p) ==
    /\ Writes(p, {"insert", "update"})
    /\ \E id \in Ids, row \in Rows :
          /\ Valid(row)
          /\ rows' = [rows EXCEPT ![id] = row]
          /\ index' = Upserted(id, row)
    /\ UNCHANGED <<schema, table, parts, stage, clock>>

Deleted(ids) ==
    /\ rows' = [id \in Ids |-> IF id \in ids THEN Absent ELSE rows[id]]
    /\ index' = IF "delete" \in parts
                THEN index \ {<<id, rows[id].word>> : id \in ids}
                ELSE index

Forget(p) ==
    /\ Writes(p, {"delete"})
    /\ \E id \in Held : Deleted({id})
    /\ UNCHANGED <<schema, table, parts, stage, clock>>

PruneExpired(p) ==
    /\ Writes(p, {"delete"})
    /\ Deleted({id \in Held : rows[id].expires <= clock})
    /\ UNCHANGED <<schema, table, parts, stage, clock>>

Tick ==
    /\ clock < LastTime
    /\ clock' = clock + 1
    /\ UNCHANGED <<schema, table, parts, rows, index, stage>>

\* The ids a search answers: through the index when the process has one and
\* the query is not blank, and by scanning the contents otherwise.
Found(p, scope, word) ==
    {id \in Held :
        /\ IF p \in Indexers THEN <<id, word>> \in index
                             ELSE rows[id].word = word
        /\ rows[id].scope = scope
        /\ rows[id].expires > clock}

MemoryNext ==
    \/ \E p \in Openers : \/ OpenMemory(p) \/ MigrateMemory(p) \/ CreateIndex(p)
                          \/ CloseMemory(p) \/ Remember(p) \/ Forget(p)
                          \/ PruneExpired(p)
    \/ Tick

MemorySpec == MemoryInit /\ [][MemoryNext]_memoryVars

-----------------------------------------------------------------------------
(* Properties.                                                              *)

\* The database has its table exactly when it has a version, whichever opens
\* raced, failed or died: an open that fails never leaves one that cannot be
\* opened any more (migrate and migration_v1 of crates/ts-memory).
MemoryWhole == table <=> schema # 0

\* Whatever openers did, died in or raced for, a process that has opened the
\* database finds by index exactly the live rows of a scope: those of a
\* database that had no index, those written while others were opening, and
\* none that was forgotten, has expired or has moved to another scope.
SearchExact ==
    \A p \in Openers, scope \in Scopes, word \in Words :
        stage[p] = "ready" =>
            Found(p, scope, word) =
                {id \in Held : /\ rows[id].scope = scope /\ rows[id].word = word
                               /\ rows[id].expires > clock}
============================================================================
