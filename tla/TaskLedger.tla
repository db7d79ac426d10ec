----------------------------- MODULE TaskLedger -----------------------------
(***************************************************************************)
(* The project-local task ledger, .token-shrinker/tasks.json               *)
(* (crates/ts-mcp, task_status and task_update).  Every agent talks to an  *)
(* MCP server process of its own, or through the daemon's concurrent       *)
(* workers, and all of them update the same file without a lock: read it,  *)
(* write the shared temporary file, remove the ledger, rename.             *)
(*                                                                         *)
(* A file keeps being written by whoever has it open when its name goes or *)
(* is given to another file.                                               *)
(***************************************************************************)
EXTENDS Naturals, FiniteSets, Sequences, SequencesExt

CONSTANTS
    Servers,    \* handlers of task_update that may run at the same time
    TaskIds,    \* task ids callers choose
    MayCrash    \* whether servers die (or meet an I/O error) halfway

ASSUME TaskLedgerAssumption == MayCrash \in BOOLEAN

VARIABLES
    json,       \* what tasks.json holds
    temporary,  \* what tasks.json.tmp holds
    pc,         \* where each server is in task_update
    held,       \* the ledger it read and updated
    open,       \* the name of the file it has open for writing
    acked,      \* history: the ids of the tasks some update has reported
    disturbed   \* history: two updates have overlapped, or one has died

vars == <<json, temporary, pc, held, open, acked, disturbed>>

Statuses == {"todo", "in_progress", "done", "blocked"}
Actions == {"ensure", "add", "start", "complete", "block"}

\* What a name may stand for: no file, an empty or cut-off file, one in which
\* two texts are mixed, a ledger of a later schema version, a ledger.
File(kind, tasks) == [kind |-> kind, tasks |-> tasks]
Missing == File("missing", <<>>)
Blank == File("blank", <<>>)
Torn == File("torn", <<>>)
Newer == File("newer", <<>>)
Ledger(tasks) == File("ledger", tasks)

Ids(tasks) == {tasks[i].id : i \in DOMAIN tasks}

IsFile(f) ==
    /\ f.kind \in {"missing", "blank", "torn", "newer", "ledger"}
    /\ \A i \in DOMAIN f.tasks : f.tasks[i] \in [id : TaskIds, status : Statuses]
    /\ f.kind # "ledger" => f.tasks = <<>>

TypeOK ==
    /\ IsFile(json) /\ IsFile(temporary)
    /\ pc \in [Servers -> {"idle", "open", "write", "look", "remove", "rename"}]
    /\ \A s \in Servers : IsFile(Ledger(held[s]))
    /\ open \in [Servers -> {"none", "temporary", "json"}]
    /\ acked \subseteq TaskIds
    /\ disturbed \in BOOLEAN

\* A project without a ledger, or with one a later version has written.
Init ==
    /\ json \in {Missing, Newer}
    /\ temporary = Missing
    /\ pc = [s \in Servers |-> "idle"]
    /\ held = [s \in Servers |-> <<>>]
    /\ open = [s \in Servers |-> "none"]
    /\ acked = {}
    /\ disturbed = FALSE

-----------------------------------------------------------------------------
(* The pure part of task_update.                                            *)

StatusAfter(action) == CASE action = "start"    -> "in_progress"
                         [] action = "complete" -> "done"
                         [] action = "block"    -> "blocked"

\* add wants a new id, the others but ensure a known one.
Accepts(tasks, action, id) ==
    CASE action = "ensure" -> TRUE
      [] action = "add"    -> id \notin Ids(tasks)
      [] OTHER             -> id \in Ids(tasks)

\* add appends; the others change the status of the first task with the id.
Updated(tasks, action, id) ==
    CASE action = "ensure" -> tasks
      [] action = "add"    -> Append(tasks, [id |-> id, status |-> "todo"])
      [] OTHER ->
            LET i == SelectInSeq(tasks, LAMBDA task : task.id = id)
            IN  [tasks EXCEPT ![i].status = StatusAfter(action)]

\* read_task_ledger: a missing file reads as the empty ledger; text that does
\* not parse and a later schema version are refused.
Readable(f) == f.kind \in {"missing", "ledger"}

-----------------------------------------------------------------------------
(* The steps of task_update.                                                *)

Goto(s, next) == pc' = [pc EXCEPT ![s] = next]

\* task_update is over for s, whether it succeeded or not.
Return(s) == /\ Goto(s, "idle")
             /\ held' = [held EXCEPT ![s] = <<>>]

\* Nothing changes when the read or the update is refused.
Read(s) ==
    /\ pc[s] = "idle"
    /\ Readable(json)
    /\ \E action \in Actions, id \in TaskIds :
          /\ Accepts(json.tasks, action, id)
          /\ held' = [held EXCEPT ![s] = Updated(json.tasks, action, id)]
    /\ disturbed' = (disturbed \/ \E r \in Servers : pc[r] # "idle")
    /\ Goto(s, "open")
    /\ UNCHANGED <<json, temporary, open, acked>>

\* fs::write opens the temporary file, whoever made it, and truncates it.
Open(s) ==
    /\ pc[s] = "open"
    /\ temporary' = Blank
    /\ open' = [open EXCEPT ![s] = "temporary"]
    /\ Goto(s, "write")
    /\ UNCHANGED <<json, held, acked, disturbed>>

\* What writing from the start of a file makes of it: where another server
\* has written since it was truncated, the end of a longer text stays.
Overwritten(f, tasks) ==
    IF f \in {Blank, Ledger(tasks)} THEN {Ledger(tasks)} ELSE {Ledger(tasks), Torn}

\* The file opened may have become the ledger since, or have lost its name.
Write(s) ==
    /\ pc[s] = "write"
    /\ \/ /\ open[s] = "temporary"
          /\ temporary' \in Overwritten(temporary, held[s])
          /\ UNCHANGED json
       \/ /\ open[s] = "json"
          /\ json' \in Overwritten(json, held[s])
          /\ UNCHANGED temporary
       \/ /\ open[s] = "none"
          /\ UNCHANGED <<json, temporary>>
    /\ open' = [open EXCEPT ![s] = "none"]
    /\ Goto(s, "look")
    /\ UNCHANGED <<held, acked, disturbed>>

\* path.exists().
Look(s) ==
    /\ pc[s] = "look"
    /\ Goto(s, IF json = Missing THEN "rename" ELSE "remove")
    /\ UNCHANGED <<json, temporary, held, open, acked, disturbed>>

\* remove_file, which fails when the name is gone.
Unlink(s) ==
    /\ pc[s] = "remove"
    /\ \/ /\ json = Missing
          /\ Return(s)
          /\ UNCHANGED <<json, open>>
       \/ /\ json # Missing
          /\ json' = Missing
          /\ open' = [r \in Servers |-> IF open[r] = "json" THEN "none" ELSE open[r]]
          /\ Goto(s, "rename")
          /\ UNCHANGED held
    /\ UNCHANGED <<temporary, acked, disturbed>>

\* Mutant: the new content stays in the temporary file.
RenameForgotten(s) ==
    /\ pc[s] = "rename"
    /\ acked' = acked \cup Ids(held[s])
    /\ Return(s)
    /\ UNCHANGED <<json, temporary, open, disturbed>>

\* rename, and the answer with all tasks of the ledger; or its failure when
\* another server has taken the temporary file.
Rename(s) ==
    /\ pc[s] = "rename"
    /\ \/ /\ temporary # Missing
          /\ json' = temporary
          /\ temporary' = Missing
          /\ open' = [r \in Servers |-> CASE open[r] = "temporary" -> "json"
                                          [] OTHER -> "none"]
          /\ acked' = acked \cup Ids(held[s])
       \/ /\ temporary = Missing
          /\ UNCHANGED <<json, temporary, open, acked>>
    /\ Return(s)
    /\ UNCHANGED disturbed

\* The server dies, or a file operation fails: what it did so far stays.
Crash(s) ==
    /\ MayCrash /\ pc[s] # "idle"
    /\ open' = [open EXCEPT ![s] = "none"]
    /\ disturbed' = TRUE
    /\ Return(s)
    /\ UNCHANGED <<json, temporary, acked>>

Next == \E s \in Servers : \/ Read(s) \/ Open(s) \/ Write(s) \/ Look(s)
                           \/ Unlink(s) \/ Rename(s) \/ Crash(s)

Spec == Init /\ [][Next]_vars

-----------------------------------------------------------------------------
(* Properties.                                                              *)

\* No ledger anybody can read names a task twice, however updates overlap or
\* die: find() in task_update always has at most one task to find.
UniqueIds ==
    \A f \in {json, temporary} : Cardinality(Ids(f.tasks)) = Len(f.tasks)

\* Updates that do not overlap and do not die lose nothing: at rest the
\* ledger holds every task that any of them has reported.
SerialUpdatesDurable ==
    ~disturbed /\ (\A s \in Servers : pc[s] = "idle") => acked \subseteq Ids(json.tasks)

\* Whatever overlaps or dies, a readable ledger is well formed, and what no
\* other update disturbed is in it (task_update, save_tasks).
LedgerSound == UniqueIds /\ SerialUpdatesDurable

\* CHANGELOG.md:13, "Project-local task ledger ... for continuity across
\* agents": a task one agent was told is in the ledger is there for the others
\* once no update is under way, though several agents write it.
ContinuityAcrossAgents ==
    (\A s \in Servers : pc[s] = "idle") => acked \subseteq Ids(json.tasks)
=============================================================================
