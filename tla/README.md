# Token-Shrinker, specified

TLA+ modules of Token-Shrinker's stateful parts and of the rules it decides by,
the TLC configurations that check them, and TLAPS proofs about them. Paths below
are relative to the repository root.

## 1. The system

Token-Shrinker packs repository context, memories and task state into a token
budget for coding agents. It is a set of Rust crates behind one binary, and
TypeScript packages that talk to that binary.

| Component | State it keeps | Operations | Interacts with | What is hard, and what makes it correct |
|---|---|---|---|---|
| ts-daemon, service graph | permit counter, shutdown flag, id -> cancellation token | dispatch, cancel, begin_shutdown, accept loop, drain | a thread per connection, a timer thread per deadline, the handler | condition variable against a flag stored outside the mutex; permits on every path; tokens that belong to the request they are found for |
| ts-daemon, process life | lock file, `daemon.json`, `daemon.sock` | start, wait, shutdown, drop | other daemon processes in the directory, clients | crashes between any two file operations; one instance, reachable and discoverable while it serves |
| ts-cli | `config.json`, `integrations.json`, temporary files of fixed names | start, stop, init, add, remove, config, output, memory | the daemon's record and socket; other commands | commands that die or overlap between read and rename; records that outlive their daemon |
| SDK, DaemonTransport | cached discovery record | call with retry, abort, close | daemon, through the socket | a daemon replaced between two calls, a connection lost in a call; every call ends |
| SDK, StdioTransport; VS Code extension | pending requests, child process; one shared client | connect, call, close; commands, deactivate | `start --stdio` | exit, timeout and close racing answers; two commands that both connect |
| ts-provider, circuit and process | failure count, opening time; child and reader threads | permit, success, failure; run | external tools | reports out of order, deadlines, processes left behind |
| ts-provider, MCP session | request ids, channels, child | connect, call_tool, drop | an MCP server | late answers, endless notifications, a server that is silent or dies |
| ts-mcp, task ledger | `.token-shrinker/tasks.json` | task_status, task_update | other servers on the same project | read-modify-write without a lock, crashes |
| ts-mcp, handler | telemetry and memory stores | the public tools, serve_stdio | everything above and below | two telemetry transactions per request, request ids that collide |
| ts-context, and its use by ts-daemon | none (pure) | build_context, build_baseline_context | the repository provider | ties, duplicates, exact fits; weights that must keep a named path in |
| ts-exec | child process group, two capture buffers | execute | commands | cancel against timeout against exit, pipes held by descendants |
| ts-repo | cache path -> (length, mtime, text) | scan, fetch | the file system, which changes meanwhile | files that change while they are read; limits; handles that must lead back |
| ts-memory, ts-telemetry | SQLite databases | remember, search, forget, prune; record_*, prune | several processes on one file | migration races, an index created statement by statement, cascades |
| ts-compress | directory of raw artifacts; unfinished lines of an output | retain, fetch, prune; push_chunk, compress_context | several stores on one directory | the bound on the count, eviction of what was just retained; chunk boundaries |
| ts-protocol; a connection of ts-daemon | none | write_frame, read_frame, RpcRequest::validate; daemon_call, handle_connection | both ends of the socket | partial writes, ends with different bounds, a peer that dies; what is told is what happened |
| ts-memory and ts-compress, external providers | none | search through a provider, parse_memory_result | an MCP session | answers of several shapes, limits, malformed records |
| ts-router, ts-output, ts-update | none | route, resolve, check_update | callers | tables of rules whose order matters |
| adapter-core, npm launcher | files of agents' configurations | plan, apply, roll back, verify | users editing the same files | partial failure, `before` that is stale, values the user changed |

Hazards are in `PROJECT.json`, each at its line, with the properties that cover
it or the reason why none does.

## 2. What is modelled

### Service graph: `ServiceGraph`, `BoundedAdmission`

One worker is one connection thread of `server_loop` and carries one request.
`pc` is its program counter through `handle_connection` and
`ServiceGraph::dispatch`; `active`, `shuttingDown` and `cancellations` are the
fields of the same meaning; a token is named by the worker that created it and
`raised` is the set of tokens that were set; `armed` are the deadline timers and
`clock` where the wall clock is relative to each request's deadline; `server` is
the accept loop's program counter.

Steps are as fine as the code's synchronisation. The gate's mutex is held
between `Enter` and `Park` or `Admit`; `Condvar::wait` joins the wait set and
lets the mutex go in one step (`Park`) and may wake spuriously; `notify_one`
picks any waiter; `begin_shutdown` is two steps, the store and the notify, and
takes no mutex. The ends of a dispatch that differ are kept: the duplicate
(which has already displaced a token), the clock error and the panic (which leave
the map entry) and the return.

`BoundedAdmission` is what callers are promised: a request is pending, running or
ended, at most `Maximum` run, nothing starts once closed. `ServiceGraph`
implements it with `status` computed from `pc` and `closed` by the flag. The
point at which a request starts is the read of the flag in `Enter`, not the
increment that follows it: a shutdown may be stored in between.

### Daemon processes and their clients: `DaemonInstance`, `DaemonClients`

`DaemonInstance` has the processes that may ever be started in one runtime
directory, each at a `stage` of `DaemonHandle::start` ... `wait`, and the three
files. A removal removes what the path holds, whoever wrote it; a crash releases
the lock and leaves the files; `Fail` is any I/O error under the lock.
`DaemonClients` extends it with the commands `start` and `stop` and with
transports of the SDK. A record is named by the daemon that wrote it, and so is
the token in it. All daemons of a directory share the path `daemon.sock`, so a
client may reach another daemon than the one it looked up; `peer` is the daemon a
connection has reached, and `RefusedOnlyIfReplaced` relates it to the one whose
record the client holds, which may be old.

Simplifications: Unix only (a Windows pipe has no file and a name of its own for
each process); one call at a time on a transport; `start`'s check and spawn are
one step (the new process does nothing visible until it takes the lock); its
fifty polls are one poll at any time.

### One connection: `Connection`

The two ends of one call of the daemon, and the frame in either direction:
`daemon_call` is the caller, `handle_connection` the worker. A frame has the
length its header says, the size of what follows, and how much of it is
written. A write takes some more of it at a time, and a read waits for its
header and then for its payload; either end may die at any time. The two ends
have a bound, a protocol version and a token each, and need not agree on any of
them. `answer` is the response the worker made and `told` how the call has
ended. What `ServiceGraph` does with an accepted request is a choice of its
outcomes, a panic among them.

What it shows of the code beside its properties: a success whose result is
null reads as an invalid response at the other end; an answer that is too big
for a frame is dropped, and its client sees the connection close; and
`daemon_call` has no timeout of its own, so that a call ends only if the service
does.

### The extension and its server: `SdkStdio`

Commands of the extension share `client`, which the first of them connects;
`using` is the transport a command has captured, `pending` the map of requests
by id, `program` the server behind each transport. A step is one event handler,
from one await to the next: a command's assignment of `client` after the await
of `connect` is a step of its own, so that two commands may both connect and the
later assignment displaces the earlier. `ending` is `deactivate`, which closes
the client of that moment. `lost` is a history variable: the transports that
nobody can close any more, because they were displaced or connected after the
deactivation; `NoServerForgotten` says that no other server outlives it.

### Task ledger, settings, adapters: `TaskLedger`, `CommandLine`, `AdapterFiles`

Three programs that keep small files. In `TaskLedger`, `json` and `temporary`
are the two names; what a name may stand for is a ledger, a ledger of a later
version, or a file that does not parse. Each file operation is a step in the
code's order: create and truncate, write, exists, remove, rename. `open` says
which name the file a server has open goes by now, because a rename moves it and
a removal takes its name away. `CommandLine` does the same for `config.json` and
`integrations.json`, whose temporary names all commands share, and has next to
them the two places memories are kept in: the server's own and the database the
memory command reads. `wanted` is a history variable, the texts a file may hold
by the commands run so far.

`AdapterFiles` is one command of the npm package at a time with its adapter:
reading every file, deciding every change (`MutateJson`, `MutateToml`,
`MutateOwnedText`), writing them in order, undoing what was written when a write
fails, and undoing all when the installed server does not answer. A file is what
the user has in it and what the adapter owns in it. The user edits between any
two steps, and the command may die. `mine` is the user's part as the user last
left it.

### Providers: `CircuitBreaker`, `ManagedProcess`, `McpSession`, `ExternalMemory`

The circuit's methods hold its mutex throughout and are one step each.
`ManagedProcess` has the callers that share it: permit, spawn, poll with kill at
the deadline, collection from the reader threads, report. A program may never
exit, and may leave a process behind that keeps its pipes (`Lingering`).

`McpSession` is one call at a time: permit, connect (initialize, the check of
the version, the list of tools), one call, drop, and `resolve_with_fallback`.
`outbox`, `lines` and `responses` are what is on its way to the writer thread,
from the server, and from the reader thread. The server answers what it has read
in any order, more than once, with errors, with lines that are no answers, or
not at all, and may exit. `asked` numbers every request, so that a result can be
compared with the request it answers.

`ExternalMemory` is what becomes of the answer of a memory provider: parts, each
with items in one of the shapes that are understood, read one after the other
until the limit is reached or one is no record. An answer is any sequence of
parts, a part any of the shapes (`IsPart`), and an object that lists its records
under several names is read under the first of them. Text that is valid JSON but no
record makes a whole search malformed, and so does a blank query; both count as
failures of the provider's circuit.

### Repository and context: `Repository`, `RepositoryText`, `BaselineContext`, `ContextBundle`

`Repository` has callers that scan or fetch over a shared cache while other
programs write the same files. `load_text` is its steps: length and time, cache,
read, length and time again, and again after the redaction; what fails is tried
a second time. `stamps` and `reused` are history
variables that say whether two versions of a path ever had the same length and
time, which is all the code can notice; `ServedTextIsAVersion` is about the
paths where they had not. The walk's entries, with one unreadable and one link
that leads out, and the three limits, are constants and choices of `Init`.

`RepositoryText` is what is made of one text: redaction, chunks, symbols,
handles (a percent-encoded path and a span behind the last `#L`) and the fetch of
a handle. A handle has at most `MaxHandle` characters: a path whose handle is longer
is skipped with a warning, and a span whose handle is longer is dropped without one.
`ChunksPartition` says that no line is lost as long as the path leaves room for a
span. `BaselineContext` scores what a scan found for a query, with
the files in the order of their paths (`Scanned`) and those that match nothing
left out if any matches (`Relevant`), and `ContextBundle` is the three loops of `build_context`, a candidate at a time:
`Consider` finds the best candidate of each content, `Record` notes the others as
duplicates, `Pack` takes the winners by rank into the budget. `Selections` is
`select_within_budget`, round by round, and `BundleHash` what the digest of a
bundle is made of.

### Stores: `MemoryStore`, `TelemetryStore`, `PublicHandler`, `Artifacts`

A transaction is one step; what the code does in two is two. In `MemoryStore` the
version is read before the migration's transaction, and each statement of
`create_fts5` commits alone. `TelemetryStore` has the tables and the operations,
`PublicHandler` the servers that use it: a context call writes its request row
and its token event in two transactions, under a request id that several raw ids
may share, and `stats` reads the sums. `counted` is a history variable: the row of
the event that a server's last call has committed, so that an overwrite that took
another call's event along would be seen. `Artifacts` is `retain` and `fetch` file
by file; each listing is a set, a snapshot that the removals after it work
through.

### Execution and output: `Execution`, `Compression`

The caller of `execute`, a reader thread for each pipe, the program, a process in
its group and one that has left it. Byte i of a stream is the number i, so that
what was kept can be compared with what was written. A reader takes a byte at a
time, as all that matters of a read is what is kept of it. `Compression` has the
rules that use it: extraction of marked lines within a budget and the incremental
reader of an output's lines.

### Rules without state: `Policies`

`route`, `resolve` and `check_update`, each over every question of its classes.

## 3. Runs and properties

Some properties are conjunctions, as one run asks them together: `CallsEnd` is
`EveryCallEnds`, `CommandsEnd`, `DeactivationEnds` and `CallEnds` (both transports,
the extension, one connection); `CallsReturn` is `EveryRunEnds` and `RequestEnds`;
`BudgetFollowsRanks` is `CountIsOfItems`, `PackingIsSelection`, `OrderIndependent`,
`NamedPathKept`, `BudgetGoesToMatches` and `ScoresExplained`; `ScanAccounts` is
`EveryEntryExplained` and the count of bytes (`BytesFound`); `CandidatesLeadBack` is
`HandlesLeadBack` and `ChunksPartition`; `RulesExact` is what `Compression` and the
admission promise for every bounded input.

A run whose module names parts that share nothing has a variable `explored`: a
behaviour moves one of the parts and the others keep their first state, so that
the run covers their sum and not their product.

| Run | What it asks | Bounds |
|---|---|---|
| `service_graph` | who owns map entries and tokens, who wakes waiters; refinement of `BoundedAdmission`; no deadlock but the stopped daemon | three calls, two of one id; gate of two; one panic, one deadline with a faulty clock; a cancellation; a shutdown |
| `service_graph_live` | requests end, deadlines raise tokens, shutdown completes | gate of one, so that the others wait |
| `daemon_clients` | reachable and discoverable while it serves; a client meets another daemon than the one it looked up only when that one has ended | three processes (one crashes, two race), a start, two stops, a transport with two calls |
| `transports` | an acknowledged stop takes effect, calls of all transports end, a deactivation ends unless its server was killed by a signal and the exit reported before, and forgets no server; effects of a connection are checked, answers true | two processes, one stop, one call; or two commands, two servers, two ids; or one connection, messages of one, two and four bytes, bounds of one and three, two versions, tokens that differ in a byte or in length |
| `files` | undisturbed updates are durable, the user's part stays, a failed adapter command has no effect | two servers and two tasks; two of three commands at a time; two adapter commands and an edit |
| `managed_process` | programs are reaped, answers are the request's own, calls and sessions end, the circuit recovers; a memory search returns the first records or fails for a reason | three callers, threshold two, cooldown two; one session of up to four requests; answers of up to two parts of two items |
| `context` | bundles are explained and independent of order, named paths stay, scans account for every entry, texts are versions, handles lead back, chunks partition; routes, profiles and updates | up to three candidates, two sources, three contents; one scanner or two fetchers, two edits, five files; texts of up to four lines and of nine to eleven, handles of 19 characters; three versions |
| `storage` | schemas and index whole after any race, each counted call keeps its event and no other has one, handles fetchable, count bounded | three openers, one without FTS5, two memories; two servers, three raw ids for two request ids; two stores of two artifacts |
| `execution` | capture exact, stopped trees gone, a stop ends the call; environment, extraction and line reading exact | three of four bytes kept, pipes of two; sources of four lines, outputs of three characters |
| `task_ledger_continuity`, `memory_listed`, `adapter_files_modified` | what a document says and the code does not do; TLC finds each violated | as small as shows it |

The bounds are the least at which the interesting cases meet. For the gate: a
full gate, a second waiter that competes for the notification, a request of the
same id, and a shutdown between the test and the park. For the daemons: a crash
that leaves files, a successor, and a third process that races both. For the
files: two writers suffice for every overlap of two updates, and a third adds no
file name. For the circuit: at threshold two, two failures open it while a third
caller's report is still on its way. For the session: initialize, list and two
calls, so that a late answer meets a next request. For the contexts: three
candidates are a winner, its duplicate and a competitor; 31 terms are the most
that the weight of a path outranks. For a connection: a message that fits both
ends, one, or not even the header, tokens that differ in one byte or in length.
For the stores: two openers race while a third has died in between. For
execution: one byte more than is kept, and a pipe that fills before it is read.
Processes, commands, servers, ids and words are interchangeable, and symmetry is
used for safety only.

`CHECK_DEADLOCK FALSE` stands where the system may really come to rest: clients
that have finished, commands that are used up, a function that has returned.

### Fairness

* `ServiceGraph`: threads are scheduled (weak fairness of their steps, of the
  timers and of the server loop), and a thread that asks for the gate's mutex
  again and again gets it (strong fairness of `Enter` and `Release`). Clients may
  connect and never send, and handlers may never return: `EveryDispatchEnds` says
  that it needs handlers that end, which `docs/milestones/M3.md:40` asks of them.
  `ShutdownCompletes` does without.
* `DaemonClients`: processes and event loops run; nothing forces a start, a stop,
  a call, a failure or a crash.
* `SdkStdio`: timers fire, event handlers run, and a server whose stdin is closed
  ends; nothing forces an answer, an exit or a deactivation.
* `ManagedProcess`, `McpSession`: threads and clocks advance. A program need not
  exit and a server need not answer; a reader thread delivers unless a process
  holds the pipe. `CircuitRecovers` is about an open circuit that is asked again
  and again.
* `Connection`: each end goes on with its call (`Calling`, `Handling`), and a write
  takes at least a byte. The service may never return, so `CallEnds` says that it
  needs one that does; nobody is forced to die.
* `Execution`: the caller and the two readers are scheduled. No process need ever
  write, exit or close a pipe.


## 4. Proofs

Proved by TLAPS for every value of the constants that satisfies the named
assumptions; those only say what the code ensures (a bound above zero, disjoint
kinds of clients, finitely many connections or stores, a row that is not the
absent one, a walk that comes to every path once, a root with finitely many files,
answers whose parts have one of the shapes). `PROJECT.json` lists the
theorems. Each module below has one inductive invariant for each component; where
it says more than the property, this is what the property needs.

* `ServiceGraphProofs`, in three layers. `GateInv`: the accounting of permits,
  `active <= Maximum`, and what a thread inside the mutex has read (room if it is
  about to be admitted, none if it is about to park), with at most one thread
  inside: without that exclusion `GateBound` is not inductive. Cardinality lemmas
  say that one worker joins or leaves `Holders`. `TableInv`: every registered
  request finds its id occupied, which makes an unoccupied id proof that nobody
  runs under it; that is what `UniqueHandler`, `EntriesOwned` and
  `TokenDisplacedOnlyByDuplicate` need. `WakerInv`: once the flag is set and every
  `notify_all` is over, at most one thread is still queued, the one that was
  between reading the flag and waiting, and by `GateInv` the permits it found
  taken are still out, so a release will notify it. `ImplementsAdmission` maps
  each action to a step or a stutter of `BoundedAdmission`.
* `TransportsProofs`. `DaemonInv`: the process past the lock owns it; single
  instance, the socket and the record follow from it, because only the lock's
  owner touches the files. Client steps leave daemons alone but for
  `StopAnswered`, which is `BeginShutdown`. `ClientInv`: whose record a client holds
  has published it, and whom a connection has reached was listening then. Stages only
  go onward, so a client that reached another daemon than the one it looked up
  reached a later one, which got the lock only after the first had ended
  (`StrangersAreSuccessors`). `SdkInv`: a server that runs is cared
  for by the client or by the command that is connecting it, or is lost; a client
  is closed once. From that, no server is forgotten.
* `ConnectionProofs`: effects are checked and answers are true. `WireInv` says at
  each stage of an end what it knows: how much of the other's frame has been
  written, that a frame says its own size, that a worker past the checks found
  none to reject, that the reply is of what was done. A frame's length and size
  being equal on both sides is what rules out that bytes of one message are taken
  for another's.
* `ProviderProofs`. The circuit is open exactly at the threshold, and a caller has
  a program exactly between spawn and return. `SessionInv`: within one session
  the id of a request is its number, which holds of everything on its way in
  either direction as of what the server has read, because all of it is dropped
  with the session; and no result exists while a request is under way.
  `ExternalInv`: what was read of an answer's items, and what is still pending of
  the part under way, make up the parts read so far joined in their order; the
  records are one for each item read, and none of those was unreadable or past the
  limit. Since the joined parts are a beginning of the whole answer joined, the
  records are its first ones, and what made a search fail is among them.
* `StorageProofs`, four arguments. `IndexInv` ties each stage of `create_fts5` to
  what is committed: an opener past a statement has made its trigger exist for
  good, and once some indexer is ready the index is what a rebuild would give.
  Since the triggers then exist, a write of any process keeps it so. Without the
  first part the second is not inductive: a write between two openers' statements
  would break it. `HandlerInv`: the stage of a server says whether its call's
  event is committed; a new event takes a number that no row has (`NewRow`), so that
  the rows of two calls are never one; and each event has its request, which the
  cascade keeps.
  `HeldInv`: what is missing, and what a store that makes room is about to remove,
  has expired or has been followed by a bound's worth of newer files, since a
  snapshot is of files that existed. `CountInv`: the stores' listings can be
  numbered by when they were taken, and the one that lists last has seen the files
  of all that listed before, so that its removals count for theirs; without the
  numbers no single store's view bounds the directory.
* `ExecutionProofs`. Nothing of a stopped command is left: a group that was killed
  is empty, and a group without a live process cannot fork itself another; the
  strengthening is `ReasonInv`, that the reason of a stop is set before the kill
  and never changed after. The capture is exact: what a reader has kept is a
  function of how many bytes it has seen (`KeptOf`), and when it is done nobody
  holds its pipe, nor can be given it.
* `FilesProofs`. Settings: a file on which no two commands ever overlapped has at
  most one command, and `Progress` says, step by step, what the file and its
  temporary file hold for it. The invariant is stated per file, so a step of a
  command needs an argument about its own file only. The ledger: every list
  written anywhere names no task twice (`FilesInv`), and while no updates have
  overlapped the step of the only one says where the reported tasks are
  (`SerialInv`). Adapters: a decision keeps the user's part in every format, and
  where the command stands says what a file that nothing has spoiled holds: what
  the command read, or what the plan says before or after.
* `ContextProofs`. `RepositoryInv`: a stamp that a call or the cache holds was that
  of some version; it is either the current one's, and then the text beside it is
  that version's or a part of it, or, unless the path has reused a stamp, it will
  never be seen again, so that no check can pass on it. `AccountOK` explains a
  scan as it goes, entry by entry; that the walk comes to a path once keeps the last
  candidate apart from the entry under way. `BundleInv`: each of the three loops accounts
  for the candidates it has been through, by number and by name; the winner of a
  content is beaten by none that was considered, hence, since nothing but its
  score and source decide, it is the same one in any order; and what was left out
  for the budget stays too big because `used` only grows. `RankInv` relates the
  third loop to `Selections`: what is packed is what the selection has taken of
  the winners ranked so far, and those are ahead of all that are still `ranked`.
  Every set of candidates of different contents has one of each rank
  (`EveryRankIsHad`), so the ranks list it (`InOrder`), and what is packed is a
  function of the set alone. `BaselineInv` adds that the candidates are scored sources, each of
  which matches or none does: a named path's score is above that of any content
  with up to 31 terms, so that only named ones can be ahead of it.
  `Counted` is the invariant of a scan's byte count.

Two ways round the prover's limits carry the last of these. Induction is taken from
well-founded sets of numbers (a set of counterexamples has a least one), and a
function that recurs over numbers is unfolded a step at a time, each step a lemma
(`StepByStep`). A sum of sizes is stated as a cardinality, the number of places in
the texts or contents (`TokensOf`, `BytesFound`), as the library has theorems about
those and none about folds.

Model-checked only, and why:

* Everything temporal under fairness: the prover has no rule for it.
* `CandidatesLeadBack` and `RulesExact`: what they are about is folded over text
  (chunks, digits of a line number, percent-encoding, lines of a stream). The folds
  of the community modules take an operator and recur over a set in an order that
  `CHOOSE` picks, so that each would first need an induction of its own; these
  proofs have not been made. The run asks both of every text of the bounds.
* `DecisionsHold`: the questions about routes and profiles are finitely many and
  the run asks all of them, so a proof would say no more; the part about updates
  filters and sorts a manifest, which folds.

## 5. Where documents and code disagree

Three runs check what a document says and find it violated; `PROJECT.json` quotes
the lines.

* `task_ledger_continuity`: two servers overlap in `task_update`, and a task that
  was reported as recorded is gone.
* `memory_listed`: the memory command lists a database that
  `token_shrinker_remember` does not write to.
* `adapter_files_modified`: removing an integration deletes a TOML block that the
  user has changed.

A fourth is no run of its own. `CHANGELOG.md:39` says that named paths "are retained
under bounded context budgets", and the comment at `crates/ts-context/src/lib.rs:300`
that broad prose cannot crowd one out. The weight of a named path outranks 31 terms,
32 tie with it, and a file that mentions 33 may take the budget from it:
`NamedPathNeverCrowdedOut` is what those lines say, and is violated as soon as
`TermCounts` has a 33. `NamedPathKept`, which `context` checks, adds the condition
under which it holds.

Met while modelling and part of the models, but not violations of anything the
repository states:

* A request with the id of a running one is refused only after it has replaced
  that request's token, so that a cancellation raises the refused one's
  (`crates/ts-daemon/src/lib.rs:368`).
  `TokenDisplacedOnlyByDuplicate` says that nothing else does.
* `start` believes a record that a crashed daemon left
  (`crates/ts-cli/src/main.rs:410`), and answers without starting one.
* The transport of the SDK reads the record again only after a failed attempt, and
  an answer that refuses is not one (`packages/sdk/src/index.ts:60`). Since the
  successor of a daemon listens at the same path, a transport that cached the
  predecessor's token is refused until it is closed.
* A success that is reported late closes a circuit that opened meanwhile and cuts
  its cooldown short (`crates/ts-provider/src/lib.rs:247`); a late failure starts
  the cooldown again.
* A success whose result is null reads as an invalid response at the caller; an
  answer too big for a frame is dropped and the connection closed
  (`crates/ts-daemon/src/lib.rs:736`).

What the code does in the cases that properties except. Each property says which
they are, and shows that there are no others:

* A handler that panics, or a clock error, leaves its entry in the map, and its id is
  refused as a duplicate from then on (`crates/ts-daemon/src/lib.rs:376`;
  `EntriesOwned`).
* `StdioTransport.close`, and with it `deactivate`, waits for ever when the server was
  killed by a signal and its exit was reported before: `exitCode` stays null and no
  second event comes (`packages/sdk/src/index.ts:214`; `DeactivationEnds`).
* Two commands of the extension that both connect, or a connection that completes
  after the deactivation, leave a server running
  (`packages/vscode/src/index.ts:102`; `NoServerForgotten`).
* An update of the ledger that dies between the removal of the old file and the
  rename leaves none, which reads as an empty one, and two that overlap may lose
  tasks (`crates/ts-mcp/src/lib.rs:699`; `LedgerSound`).
* A chunk or a symbol whose handle would exceed 1,024 bytes is dropped without a
  warning, and a file of which all chunks are is returned uncut
  (`crates/ts-repo/src/lib.rs:995`, `:1055`; `ChunksPartition`).
* A process that keeps the pipes open, because it left the group or a completed
  command left it behind, makes `execute` and a provider's call wait for it beyond
  their deadlines (`crates/ts-exec/src/lib.rs:266`,
  `crates/ts-provider/src/lib.rs:367`; `StopEnds`, `EveryRunEnds`).

## 6. Not modelled

* Windows: named pipes, its process trees, its renames.
* JSON and the text of tool schemas: a message is its size and whether it parses,
  an invalid request an alternative of the action that reads it.
* Hashes, signatures and ranges of versions are libraries'; they match or do not.
* String rules without control: redaction patterns, the whitespace and log rules
  of ts-compress, formatting in ts-output, the keywords by which ts-router classes
  a question, the lexer of `isPlausibleToml`, CRLF line ends.
* The order and the limit of a memory search; telemetry's `prune` is never called
  by the server and is modelled as an embedder's call.
* A clock that goes back (in `Artifacts`), and a directory that becomes a symbolic
  link between a check and a use.
* Two adapter commands at once, and a write to a server whose stdin is closed.
* The choice of `TokenShrinkerClient.connect` between the daemon and stdio, and
  the pairing of an aborted call's `daemon.cancel` with the daemon's dispatch:
  `ServiceGraph` lets a cancellation arrive at any time, also before its request.
* Poisoned mutexes: no code panics while it holds one of those modelled here.
* Benchmarks, fuzz targets, packaging, schemas, generated code.
