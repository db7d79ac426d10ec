---------------------------- MODULE CommandLine ----------------------------
(***************************************************************************)
(* The files that the commands of the binary keep (crates/ts-cli): the     *)
(* output settings, config.json, and the list of integrations,             *)
(* integrations.json.  Every command is a process of its own that reads a  *)
(* file, writes the changed text to a temporary one and renames it.  Next  *)
(* to them, the memories: an MCP server keeps those it is told, and the    *)
(* memory command has a database of its own.                               *)
(*                                                                         *)
(* Of the settings there are the default mode, another one that a profile  *)
(* has, and whether there is anything that a profile may not have.         *)
(***************************************************************************)
EXTENDS Naturals, FiniteSets

CONSTANTS
    Commands,       \* processes that may run at the same time
    Integrations,   \* names of integrations
    Memories,       \* ids of memories
    MaxRuns         \* bound: commands run

ASSUME CommandAssumption == MaxRuns \in Nat

VARIABLES
    saved,      \* what config.json and integrations.json hold
    scratch,    \* what their temporary files hold
    stage,      \* where each command is
    job,        \* the file it works on, the text it will write, what it is asked
    writing,    \* the name of the file it has open, if the file still has one
    runs,       \* commands begun
    server,     \* the memories the MCP server's handler keeps
    database,   \* the memories in memory.sqlite
    wanted,     \* history: what each file may hold, by the commands so far
    overlapped, \* history: files that two commands have worked on at a time
    told        \* history: memories the agent stored and did not forget

commandVars == <<saved, scratch, stage, job, writing, runs, server, database,
                 wanted, overlapped, told>>
memoryVars == <<server, database, told>>

ConfigFiles == {"config", "integrations"}
OutputModes == {"full", "lite"}

\* What a name may stand for: no file, an empty one, one that does not parse,
\* settings or a list.
Text(kind, value) == [kind |-> kind, value |-> value]
NoFile == Text("none", {})
Empty == Text("empty", {})
Mixed == Text("mixed", {})

DefaultProfile == [mode |-> "full", clarity |-> "default", foreign |-> FALSE]
NoJob == [file |-> "config", text |-> NoFile, verb |-> "none", argument |-> "none"]

CommandInit ==
    /\ saved = [f \in ConfigFiles |-> NoFile]
    /\ scratch = [f \in ConfigFiles |-> NoFile]
    /\ stage = [c \in Commands |-> "idle"]
    /\ job = [c \in Commands |-> NoJob]
    /\ writing = [c \in Commands |-> "none"]
    /\ runs = 0
    /\ server = {} /\ database = {} /\ told = {}
    /\ wanted = [f \in ConfigFiles |-> {NoFile}]
    /\ overlapped = {}

-----------------------------------------------------------------------------
(* What commands make of a text.                                            *)

\* read_json succeeds.
Parses(text) == text.kind \in {"settings", "list"}

\* config set: what does not parse is an empty object, which reads as the
\* default profile; nothing looks whether a profile has the key.
Configured(text, argument) ==
    LET old == IF Parses(text) THEN text.value ELSE DefaultProfile
    IN  Text("settings", IF argument = "foreign" THEN [old EXCEPT !.foreign = TRUE]
                                                 ELSE [old EXCEPT !.clarity = argument])

\* output set: what is not a profile is replaced by the default profile.
WithMode(text, mode) ==
    LET old == IF Parses(text) /\ ~text.value.foreign THEN text.value ELSE DefaultProfile
    IN  Text("settings", [old EXCEPT !.mode = mode])

Listed(text) == IF Parses(text) THEN text.value ELSE {}

\* The text a command writes.
Made(text, verb, argument) ==
    CASE verb = "config set" -> Configured(text, argument)
      [] verb = "output set" -> WithMode(text, argument)
      [] verb = "add" -> Text("list", Listed(text) \cup {argument})
      [] verb = "remove" -> Text("list", Listed(text) \ {argument})
      [] verb = "init config" -> IF text = NoFile THEN Text("settings", DefaultProfile) ELSE text
      [] verb = "init integrations" -> IF text = NoFile THEN Text("list", {}) ELSE text

Asked ==
    [file : {"config"}, verb : {"config set"}, argument : {"off", "foreign"}]
    \cup [file : {"config"}, verb : {"output set"}, argument : OutputModes]
    \cup [file : {"integrations"}, verb : {"add", "remove"}, argument : Integrations]
    \cup [file : {"config"}, verb : {"init config"}, argument : {"none"}]

-----------------------------------------------------------------------------
(* The steps of a command.                                                  *)

Stage(c, next) == stage' = [stage EXCEPT ![c] = next]
Busy(f) == \E c \in Commands : stage[c] # "idle" /\ job[c].file = f

\* The command reads its file, and makes of it the text it will write; init
\* leaves a file alone that exists.
Take(c, ask) ==
    /\ job' = [job EXCEPT ![c] =
                  [file |-> ask.file, verb |-> ask.verb, argument |-> ask.argument,
                   text |-> Made(saved[ask.file], ask.verb, ask.argument)]]
    /\ overlapped' = IF Busy(ask.file) THEN overlapped \cup {ask.file} ELSE overlapped
    /\ Stage(c, IF ask.verb \in {"init config", "init integrations"}
                   /\ saved[ask.file] # NoFile THEN "done" ELSE "open")

RunCommand(c) ==
    /\ stage[c] = "idle"
    /\ runs < MaxRuns
    /\ runs' = runs + 1
    /\ \E ask \in Asked : Take(c, ask)
    /\ UNCHANGED <<saved, scratch, writing, wanted, memoryVars>>

\* Mutant: the text is written to the file itself.
OpenInPlace(c) ==
    LET f == job[c].file
    IN  /\ saved' = [saved EXCEPT ![f] = Empty]
        /\ writing' = [writing EXCEPT ![c] = "saved"]
        /\ UNCHANGED scratch

\* fs::write creates or truncates the temporary file, whoever uses it.
OpenScratch(c) ==
    LET f == job[c].file
    IN  /\ scratch' = [scratch EXCEPT ![f] = Empty]
        /\ writing' = [writing EXCEPT ![c] = "scratch"]
        /\ UNCHANGED saved

OpenFile(c) ==
    /\ stage[c] = "open"
    /\ OpenScratch(c)
    /\ Stage(c, "write")
    /\ UNCHANGED <<job, runs, wanted, overlapped, memoryVars>>

\* Where another command has written since the file was truncated, the end
\* of a longer text stays.
WrittenOver(old, new) == IF old \in {Empty, new} THEN {new} ELSE {new, Mixed}

\* It may have become the file itself since, or have lost its name.
WriteText(c) ==
    LET f == job[c].file
    IN  /\ stage[c] = "write"
        /\ \/ /\ writing[c] = "scratch"
              /\ \E t \in WrittenOver(scratch[f], job[c].text) :
                    scratch' = [scratch EXCEPT ![f] = t]
              /\ UNCHANGED saved
           \/ /\ writing[c] = "saved"
              /\ \E t \in WrittenOver(saved[f], job[c].text) :
                    saved' = [saved EXCEPT ![f] = t]
              /\ UNCHANGED scratch
           \/ /\ writing[c] = "none"
              /\ UNCHANGED <<saved, scratch>>
        /\ writing' = [writing EXCEPT ![c] = "none"]
        /\ Stage(c, "rename")
        /\ UNCHANGED <<job, runs, wanted, overlapped, memoryVars>>

\* The rename fails when another command has taken the temporary file.
RenameFile(c) ==
    LET f == job[c].file
        Moved(d) == IF stage[d] # "write" \/ job[d].file # f THEN writing[d]
                    ELSE IF writing[d] = "scratch" THEN "saved" ELSE "none"
    IN  /\ stage[c] = "rename"
        /\ \/ /\ scratch[f] # NoFile
              /\ saved' = [saved EXCEPT ![f] = scratch[f]]
              /\ scratch' = [scratch EXCEPT ![f] = NoFile]
              /\ writing' = [d \in Commands |-> Moved(d)]
              /\ Stage(c, "done")
           \/ /\ scratch[f] = NoFile
              /\ Stage(c, "failed")
              /\ UNCHANGED <<saved, scratch, writing>>
        /\ UNCHANGED <<job, runs, wanted, overlapped, memoryVars>>

\* What a file may hold once the command has had its effect on it.
Effect(c) == {Made(t, job[c].verb, job[c].argument) : t \in wanted[job[c].file]}

Over(c) ==
    /\ Stage(c, "idle")
    /\ job' = [job EXCEPT ![c] = NoJob]
    /\ writing' = [writing EXCEPT ![c] = "none"]

\* The answer; init turns to its second file first.
Reply(c) ==
    /\ stage[c] = "done"
    /\ wanted' = [wanted EXCEPT ![job[c].file] = Effect(c)]
    /\ IF job[c].verb = "init config"
       THEN /\ Take(c, [file |-> "integrations", verb |-> "init integrations",
                        argument |-> "none"])
            /\ UNCHANGED writing
       ELSE Over(c) /\ UNCHANGED overlapped
    /\ UNCHANGED <<saved, scratch, runs, memoryVars>>

\* A file operation fails, or the process dies: what it did so far stays.
Break(c) ==
    /\ stage[c] # "idle"
    /\ wanted' = [wanted EXCEPT ![job[c].file] =
                     IF stage[c] = "done" THEN Effect(c) ELSE @ \cup Effect(c)]
    /\ Over(c)
    /\ UNCHANGED <<saved, scratch, runs, overlapped, memoryVars>>

-----------------------------------------------------------------------------
(* Memories.                                                                *)

commandOnly == <<saved, scratch, stage, job, writing, wanted, overlapped>>

\* token_shrinker_remember, in the server's memory.
ServerRemembers(m) ==
    /\ m \notin told
    /\ server' = server \cup {m}
    /\ told' = told \cup {m}
    /\ UNCHANGED <<database, runs, commandOnly>>

\* The server ends, and the next one begins with an empty store.
ServerRestarts ==
    /\ server # {}
    /\ server' = {}
    /\ UNCHANGED <<database, told, runs, commandOnly>>

\* What memory list shows.
Shown == database

\* memory list changes nothing.
ListMemories ==
    /\ runs < MaxRuns
    /\ runs' = runs + 1
    /\ UNCHANGED <<memoryVars, commandOnly>>

\* memory forget.
ForgetMemory(m) ==
    /\ runs < MaxRuns
    /\ runs' = runs + 1
    /\ database' = database \ {m}
    /\ told' = told \ {m}
    /\ UNCHANGED <<server, commandOnly>>

CommandNext ==
    \/ \E c \in Commands :
          \/ RunCommand(c) \/ OpenFile(c) \/ WriteText(c) \/ RenameFile(c)
          \/ Reply(c) \/ Break(c)
    \/ \E m \in Memories : ServerRemembers(m) \/ ForgetMemory(m)
    \/ ServerRestarts
    \/ ListMemories

CommandSpec == CommandInit /\ [][CommandNext]_commandVars

-----------------------------------------------------------------------------
(* Properties.                                                              *)

\* As long as no two commands work on a file at the same time, it holds what
\* the commands have answered that it holds, whichever of them died at which
\* step; one that died has had its effect or none (write_json).
SettingsDurable ==
    \A f \in ConfigFiles \ overlapped : ~Busy(f) => saved[f] \in wanted[f]

\* README.md:362 says of "token-shrinker memory list|forget": "inspect metadata
\* or delete local memories".  What an agent has stored with
\* token_shrinker_remember is among what the command lists.
RememberedIsListed ==
    [][ListMemories => told \subseteq Shown]_commandVars
=============================================================================
