---------------------------- MODULE AdapterFiles ----------------------------
(***************************************************************************)
(* The agent adapters (packages/adapter-core) and the add and remove       *)
(* commands of the npm package (packages/cli): a command reads the files   *)
(* of an adapter one after the other, decides every change, writes them    *)
(* one after the other, undoes them when a write fails and undoes them     *)
(* when the server it has installed does not answer.  Meanwhile the user   *)
(* edits the same files, and the command may die.                          *)
(*                                                                         *)
(* A file is what the user has in it and what the adapter owns in it;      *)
(* layout is left out.  In JSON the owned value sits in a holder object    *)
(* (mcpServers), which may hold other servers, and in TOML in a block      *)
(* between two markers.                                                    *)
(***************************************************************************)
EXTENDS Naturals, Sequences, SequencesExt

CONSTANTS
    MaxCommands,    \* bound: commands run
    MaxEdits        \* bound: edits by the user

VARIABLES
    format,     \* of the adapter's config: json, toml-fragment or owned-text
    files,      \* path -> content or Absent
    at,         \* where the command is
    intent,     \* install or uninstall
    plan,       \* the changes it decided: path, before, after
    applied,    \* positions of plan that are written
    reversed,   \* whether the plan is being applied backwards
    outcome,    \* how the last command ended
    commands,   \* commands begun
    edits,      \* edits made
    mine,       \* history: the user's part of each file
    touched,    \* history: paths whose text a failure or a late edit spoils
    original    \* history: the files as the command read them

adapterVars == <<format, files, at, intent, plan, applied, reversed, outcome, commands,
                 edits, mine, touched, original>>

Absent == [user |-> 0, holder |-> "missing", own |-> "missing"]

\* Text that the parsers refuse: torn JSON or TOML.
Malformed == [user |-> 0, holder |-> "missing", own |-> "malformed"]

\* An empty file.
EmptyFile == [user |-> 0, holder |-> "missing", own |-> "none"]

\* The files of an adapter, in the order of its plan.
Paths == IF format = "owned-text" THEN <<"config", "support", "skill">>
                                  ELSE <<"config", "skill">>

Owned(p) == p # "config" \/ format = "owned-text"

\* What users have in a file.  Of the owned value: none, the adapter's, one
\* that was changed; in TOML one marker without the other; in owned text
\* "changed" still has the ownership marker.
Contents(p) ==
    {Absent} \cup
    IF Owned(p)
    THEN {EmptyFile} \cup [user : {0, 1}, holder : {"missing"}, own : {"changed"}]
         \cup [user : {1}, holder : {"missing"}, own : {"none"}]
         \cup [user : {0}, holder : {"missing"}, own : {"ours"}]
    ELSE {Malformed} \cup
         IF format = "json"
         THEN {c \in [user : {0, 1}, holder : {"missing", "scalar", "bare", "peers"},
                      own : {"none", "ours", "changed"}] :
                  c.own # "none" => c.holder \in {"bare", "peers"}}
         ELSE [user : {0, 1}, holder : {"missing"},
               own : {"none", "ours", "changed", "partial"}]

\* The part of a file that is the user's: all of a file without the
\* ownership marker; all but what is between the markers in TOML; all but the
\* adapter's own value in JSON, where an empty holder counts as none.
UserPart(p, c) ==
    IF Owned(p)
    THEN IF c.own \in {"ours", "changed"} THEN Absent
         ELSE IF c.own = "none" /\ c.user = 0 THEN Absent ELSE c
    ELSE [user |-> c.user,
          holder |-> IF c.holder = "bare" THEN "missing" ELSE c.holder,
          own |-> IF \/ c.own \in {"missing", "none", "ours"}
                     \/ format = "toml-fragment" /\ c.own = "changed"
                  THEN "none" ELSE c.own]

AdapterInit ==
    /\ format \in {"json", "toml-fragment", "owned-text"}
    /\ files \in {f \in [{"config", "support", "skill"} -> UNION {Contents(p) :
                             p \in {"config", "support", "skill"}}] :
                     \A p \in DOMAIN f : IF p \in ToSet(Paths) THEN f[p] \in Contents(p)
                                                               ELSE f[p] = Absent}
    /\ at = "idle" /\ intent = "install" /\ plan = <<>> /\ applied = <<>>
    /\ reversed = FALSE /\ outcome = "none"
    /\ commands = 0 /\ edits = 0
    /\ mine = [p \in DOMAIN files |-> UserPart(p, files[p])]
    /\ touched = {}
    /\ original = files

-----------------------------------------------------------------------------
(* Deciding.  A content, or Conflict when the code throws.                  *)

Conflict == [user |-> 0, holder |-> "missing", own |-> "conflict"]

\* setJsonPath: the value must be absent or ours.
SetJsonPath(c) ==
    IF c.holder = "scalar" \/ c.own = "changed" THEN Conflict
    ELSE [c EXCEPT !.own = "ours", !.holder = IF @ = "missing" THEN "bare" ELSE @]

\* deleteJsonPath: an absent value is left, a changed one refused; a holder
\* that becomes empty goes with the value.
DeleteJsonPath(c) ==
    IF c.holder = "scalar" \/ c.own = "changed" THEN Conflict
    ELSE IF c.own = "none" THEN c
    ELSE [c EXCEPT !.own = "none", !.holder = IF @ = "bare" THEN "missing" ELSE @]

\* deleteJsonPathUnchecked, on both sides of the comparison.
Cleaned(c) ==
    IF c.holder \in {"bare", "peers"}
    THEN [c EXCEPT !.own = "none", !.holder = IF @ = "bare" THEN "missing" ELSE @]
    ELSE c

\* A missing or blank file is an empty object.
Parsed(c) == IF c = Absent THEN EmptyFile ELSE c

MutateJson(before, act) ==
    LET source == Parsed(before)
        next == IF act = "install" THEN SetJsonPath(source) ELSE DeleteJsonPath(source)
    IN  IF before = Malformed \/ next = Conflict \/ Cleaned(source) # Cleaned(next)
        THEN Conflict ELSE next

\* mutateToml: an install refuses a changed block, an uninstall cuts out what
\* is between the markers.
MutateToml(before, act) ==
    IF \/ before.own \in {"malformed", "partial"}
       \/ act = "install" /\ before.own = "changed"
    THEN Conflict
    ELSE IF act = "install" THEN [Parsed(before) EXCEPT !.own = "ours"]
    ELSE IF before.own \in {"missing", "none"} THEN before
    ELSE [before EXCEPT !.own = "none"]

\* mutateOwnedText: an install replaces what has the ownership marker.
MutateOwnedText(before, act) ==
    LET owned == [user |-> 0, holder |-> "missing", own |-> "ours"]
    IN  IF act = "install" THEN IF before.own = "none" THEN Conflict ELSE owned
        ELSE IF before \in {Absent, owned} THEN Absent ELSE Conflict

\* Mutant: whatever is under the adapter's key is replaced.
MutateUnasked(p, before, act) ==
    IF Owned(p) THEN MutateOwnedText(before, act)
    ELSE IF format = "toml-fragment" THEN MutateToml(before, act)
    ELSE IF act = "uninstall" \/ before = Malformed THEN MutateJson(before, act)
    ELSE [Parsed(before) EXCEPT !.own = "ours",
                                !.holder = IF @ = "peers" THEN @ ELSE "bare"]

MutateConfig(p, before, act) ==
    IF Owned(p) THEN MutateOwnedText(before, act)
    ELSE IF format = "json" THEN MutateJson(before, act)
    ELSE MutateToml(before, act)

\* ownsConfig, as detectAdapter reports it; a pair of markers is enough in
\* TOML.
OwnsConfig(c) ==
    c.own = "ours" \/ (format = "toml-fragment" /\ c.own = "changed")

-----------------------------------------------------------------------------
(* The command.                                                             *)

BeginCommand ==
    /\ at = "idle"
    /\ commands < MaxCommands
    /\ commands' = commands + 1
    /\ intent' \in {"install", "uninstall"}
    /\ at' = "plan"
    /\ plan' = <<>> /\ applied' = <<>> /\ reversed' = FALSE
    /\ outcome' = "none"
    \* Text that was spoiled is the user's to repair.
    /\ touched' = {}
    /\ mine' = [p \in DOMAIN files |-> UserPart(p, files[p])]
    /\ original' = files
    /\ UNCHANGED <<format, files, edits>>

Finish(result) == at' = "idle" /\ outcome' = result

\* planAdapter, one file: read it and decide, or throw and end.
PlanFile ==
    /\ at = "plan"
    /\ Len(plan) < Len(Paths)
    /\ LET p == Paths[Len(plan) + 1]
           after == MutateConfig(p, files[p], intent)
       IN  IF after = Conflict
           THEN plan' = <<>> /\ Finish("refused")
           ELSE /\ plan' = Append(plan, [path |-> p, before |-> files[p], after |-> after])
                /\ UNCHANGED <<at, outcome>>
    /\ UNCHANGED <<format, files, intent, applied, reversed, commands, edits, mine,
                   touched, original>>

\* A dry run ends here.
PlanReady ==
    /\ at = "plan"
    /\ Len(plan) = Len(Paths)
    /\ \/ at' = "apply" /\ UNCHANGED outcome
       \/ Finish("preview")
    /\ UNCHANGED <<format, files, intent, plan, applied, reversed, commands,
                   edits, mine, touched, original>>

Target(change) == IF reversed THEN change.before ELSE change.after
Source(change) == IF reversed THEN change.after ELSE change.before

\* The changes still to write: those that change something.
Pending == {i \in DOMAIN plan : plan[i].before # plan[i].after /\ i \notin ToSet(applied)}

Earliest == CHOOSE i \in Pending : \A j \in Pending : i <= j

WriteFile ==
    /\ at = "apply"
    /\ Pending # {}
    /\ files' = [files EXCEPT ![plan[Earliest].path] = Target(plan[Earliest])]
    /\ applied' = Append(applied, Earliest)
    /\ UNCHANGED <<format, at, intent, plan, reversed, outcome, commands, edits, mine,
                   touched, original>>

\* A write that fails or dies: nothing has happened, or writeFile has
\* truncated the file and written a part.
Spoil(p) ==
    \/ UNCHANGED <<files, touched>>
    \/ /\ \E c \in {EmptyFile} \cup IF Owned(p) THEN {[EmptyFile EXCEPT !.user = 1],
                                                     [EmptyFile EXCEPT !.own = "changed"]}
                                                ELSE {Malformed} :
             files' = [files EXCEPT ![p] = c]
       /\ touched' = touched \cup {p}

\* mkdir, writeFile or rm throws and leaves the file as it was, or torn; the
\* changes before it are undone from the last to the first.
WriteFails ==
    /\ at = "apply"
    /\ Pending # {}
    /\ Spoil(plan[Earliest].path)
    /\ at' = "undo"
    /\ UNCHANGED <<format, intent, plan, applied, reversed, outcome, commands, edits,
                   mine, original>>

\* Mutant: the last change alone is undone.
AfterOneUndone(done) == <<>>

AfterUndo(done) == Front(done)

Undo ==
    /\ at = "undo"
    /\ applied # <<>>
    /\ LET change == plan[Last(applied)]
       IN  files' = [files EXCEPT ![change.path] = Source(change)]
    /\ applied' = AfterUndo(applied)
    /\ UNCHANGED <<format, at, intent, plan, reversed, outcome, commands, edits,
                   mine, touched, original>>

\* A second failure ends the rollback where it is.
UndoFails ==
    /\ at = "undo"
    /\ applied # <<>>
    /\ Spoil(plan[Last(applied)].path)
    /\ Finish("broken")
    /\ UNCHANGED <<format, intent, plan, applied, reversed, commands, edits, mine, original>>

\* The error of the write goes to the caller, or ends the rollback after a
\* failed validation.
Undone ==
    /\ at = "undo"
    /\ applied = <<>>
    /\ Finish(IF reversed THEN "broken" ELSE "failed")
    /\ UNCHANGED <<format, files, intent, plan, applied, reversed, commands,
                   edits, mine, touched, original>>

Applied ==
    /\ at = "apply"
    /\ Pending = {}
    /\ IF reversed THEN Finish("rolled back")
       ELSE /\ at' = IF intent = "install" THEN "validate" ELSE "inspect"
            /\ UNCHANGED outcome
    /\ UNCHANGED <<format, files, intent, plan, applied, reversed, commands, edits, mine,
                   touched, original>>

\* validateAdapter: the server answers; or it does not, and the plan is
\* applied backwards.
Validate ==
    /\ at = "validate"
    /\ \/ at' = "inspect" /\ UNCHANGED <<reversed, applied>>
       \/ at' = "apply" /\ reversed' = TRUE /\ applied' = <<>>
    /\ UNCHANGED <<format, files, intent, plan, outcome, commands, edits, mine, touched,
                   original>>

\* inspectAdapterClientState reads the client's own settings, which may be
\* malformed: the command then fails although it has applied its plan.
Inspect ==
    /\ at = "inspect"
    /\ \/ Finish("applied")
       \/ format = "json" /\ Finish("uninspected")
    /\ UNCHANGED <<format, files, intent, plan, applied, reversed, commands, edits, mine,
                   touched, original>>

\* The command is killed.
Die ==
    /\ at # "idle"
    /\ \/ UNCHANGED <<files, touched>>
       \/ at = "apply" /\ Pending # {} /\ Spoil(plan[Earliest].path)
       \/ at = "undo" /\ applied # <<>> /\ Spoil(plan[Last(applied)].path)
    /\ Finish("died")
    /\ UNCHANGED <<format, intent, plan, applied, reversed, commands, edits, mine, original>>

\* The user, at any time.  An edit between the command's read and its write
\* may be lost, as nothing looks at the file again.
Edit ==
    /\ edits < MaxEdits
    /\ edits' = edits + 1
    /\ \E p \in ToSet(Paths) : \E c \in Contents(p) :
          LET late == at # "idle" /\ \E i \in DOMAIN plan : plan[i].path = p
          IN  /\ files' = [files EXCEPT ![p] = c]
              /\ mine' = [mine EXCEPT ![p] = UserPart(p, c)]
              /\ touched' = IF late THEN touched \cup {p} ELSE touched
              /\ original' = [original EXCEPT ![p] = c]
    /\ outcome' = "none"
    /\ UNCHANGED <<format, at, intent, plan, applied, reversed, commands>>

AdapterNext ==
    \/ BeginCommand \/ PlanFile \/ PlanReady \/ WriteFile \/ WriteFails
    \/ Undo \/ UndoFails \/ Undone \/ Applied \/ Validate \/ Inspect
    \/ Die
    \/ Edit

AdapterSpec == AdapterInit /\ [][AdapterNext]_adapterVars

-----------------------------------------------------------------------------
(* Properties.                                                              *)

\* Whatever commands do, fail in, undo or die in, what the user has in a file
\* stays as the user last left it: other settings, other servers, a value of
\* the user's under the adapter's key, a file without the ownership marker.
\* Files that a torn write or an edit during the command has spoiled are
\* excepted (planAdapter and applyAdapterPlan).
UserPartKept ==
    \A p \in ToSet(Paths) \ touched : UserPart(p, files[p]) = mine[p]

\* A command that ends well has made every change, and detectAdapter agrees;
\* one that ends with an error, after a failed write or a server that did not
\* validate, has left every file as it found it, but for files that the
\* failure itself or an edit has spoiled (docs/adapters/README.md:24).
AllOrNothing ==
    /\ outcome \in {"applied", "uninspected"} =>
          /\ \A i \in DOMAIN plan :
                plan[i].path \notin touched => files[plan[i].path] = plan[i].after
          /\ "config" \notin touched =>
                OwnsConfig(files["config"]) = (intent = "install")
    /\ outcome \in {"refused", "preview", "failed", "rolled back"} =>
          \A p \in ToSet(Paths) \ touched : files[p] = original[p]

\* docs/adapters/README.md: "Uninstall removes only values that still match
\* Token-Shrinker's owned value; modified values fail safely."  The markers
\* of a TOML fragment are all that mutateToml looks at.
ModifiedValuesKept ==
    outcome = "applied" /\ intent = "uninstall" =>
        \A i \in DOMAIN plan :
            plan[i].before.own = "changed" => files[plan[i].path].own = "changed"
=============================================================================
