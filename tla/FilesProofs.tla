---------------------------- MODULE FilesProofs ----------------------------
(***************************************************************************)
(* Proofs about the small files that programs share, for any number of     *)
(* programs, files, tasks and texts.                                       *)
(*                                                                         *)
(* CommandLine: a file that no two commands have worked on at a time has   *)
(* at most one command; how far that one has come says what the file and   *)
(* its temporary file hold, and that what the file holds is wanted before  *)
(* the rename and is the command's effect after it.                        *)
(*                                                                         *)
(* TaskLedger: no list that is written anywhere names a task twice, as     *)
(* each is another one with a new id or another status; and as long as no  *)
(* two updates have overlapped, the step that the only one has reached     *)
(* says where the tasks are that have been reported.                       *)
(*                                                                         *)
(* AdapterFiles: a decision keeps the user's part of a file, whatever the  *)
(* format; and what a file holds that nothing has spoiled is, by where the *)
(* command stands, what it read, what the plan says before or after, or by *)
(* whether the change is among those written.                              *)
(***************************************************************************)
EXTENDS CommandLine, TaskLedger, AdapterFiles, FiniteSetTheorems, SequenceTheorems, TLAPS

-----------------------------------------------------------------------------
(* Settings.                                                                *)

Steps == {"idle", "open", "write", "rename", "done", "failed"}

CommandTypeOK ==
    /\ saved = [f \in ConfigFiles |-> saved[f]]
    /\ scratch = [f \in ConfigFiles |-> scratch[f]]
    /\ wanted = [f \in ConfigFiles |-> wanted[f]]
    /\ stage \in [Commands -> Steps]
    /\ job = [c \in Commands |-> job[c]]
    /\ \A c \in Commands : job[c].file \in ConfigFiles
    /\ writing = [c \in Commands |-> writing[c]]

WorksOn(c, f) == stage[c] # "idle" /\ job[c].file = f

\* What the step a command has reached says of its file.
Progress(c, f) ==
    /\ stage[c] # "done" => saved[f] \in wanted[f]
    /\ stage[c] \in {"open", "write", "rename"} =>
          job[c].text = Made(saved[f], job[c].verb, job[c].argument)
    /\ stage[c] = "write" => writing[c] = "scratch" /\ scratch[f] = Empty
    /\ stage[c] = "rename" => scratch[f] = job[c].text
    /\ stage[c] = "done" =>
          \E t \in wanted[f] : saved[f] = Made(t, job[c].verb, job[c].argument)

FileInv(f) ==
    /\ \A c, d \in Commands : WorksOn(c, f) /\ WorksOn(d, f) => c = d
    /\ (\A c \in Commands : ~WorksOn(c, f)) => saved[f] \in wanted[f]
    /\ \A c \in Commands : WorksOn(c, f) => Progress(c, f)

DurableInv == CommandTypeOK /\ \A f \in ConfigFiles \ overlapped : FileInv(f)

-----------------------------------------------------------------------------
(* Lemmas about one file.                                                   *)

\* init leaves a file that exists as it is.
LEMMA InitKeepsFile ==
  ASSUME NEW text, text # NoFile, NEW verb \in {"init config", "init integrations"}, NEW argument
  PROVE  Made(text, verb, argument) = text
BY DEF Made

\* A file is unaffected by what happens to others.
LEMMA OtherFilesKept ==
  ASSUME NEW f \in ConfigFiles, FileInv(f),
         saved'[f] = saved[f], scratch'[f] = scratch[f], wanted'[f] = wanted[f],
         \A d \in Commands : WorksOn(d, f)' <=> WorksOn(d, f),
         \A d \in Commands : WorksOn(d, f) =>
             stage'[d] = stage[d] /\ job'[d] = job[d] /\ writing'[d] = writing[d]
  PROVE  FileInv(f)'
BY DEF FileInv, Progress

\* A file is sound when its only command has left it in a wanted state.
LEMMA LeftFileSound ==
  ASSUME NEW f \in ConfigFiles, \A d \in Commands : ~WorksOn(d, f)', saved'[f] \in wanted'[f]
  PROVE  FileInv(f)'
BY DEF FileInv

\* A file is sound when its only command is.
LEMMA OnlyCommandSound ==
  ASSUME NEW f \in ConfigFiles, NEW c \in Commands,
         \A d \in Commands : WorksOn(d, f)' => d = c,
         WorksOn(c, f)', Progress(c, f)'
  PROVE  FileInv(f)'
BY DEF FileInv

\* A command takes a file that nobody works on.
LEMMA TakenFileSound ==
  ASSUME CommandTypeOK, NEW c \in Commands, NEW ask, ask.file \in ConfigFiles, Take(c, ask),
         FileInv(ask.file), ~Busy(ask.file),
         saved' = saved, wanted'[ask.file] = wanted[ask.file]
  PROVE  FileInv(ask.file)'
<1> DEFINE f == ask.file
<1>1. \A d \in Commands : WorksOn(d, f)' => d = c
  BY DEF Take, Stage, Busy, WorksOn, CommandTypeOK, Steps
<1>2. saved[f] \in wanted[f]
  BY DEF FileInv, Busy, WorksOn
<1>3. /\ job'[c].file = f /\ job'[c].verb = ask.verb /\ job'[c].argument = ask.argument
      /\ job'[c].text = Made(saved[f], ask.verb, ask.argument)
  BY DEF Take, CommandTypeOK
<1>4. \/ stage'[c] = "open"
      \/ /\ stage'[c] = "done"
         /\ ask.verb \in {"init config", "init integrations"} /\ saved[f] # NoFile
  BY DEF Take, Stage, CommandTypeOK
<1>5. Progress(c, f)'
  BY <1>2, <1>3, <1>4, InitKeepsFile DEF Progress
<1>6. WorksOn(c, f)'
  BY <1>3, <1>4 DEF WorksOn
<1> QED BY <1>1, <1>5, <1>6, OnlyCommandSound
-----------------------------------------------------------------------------
(* The steps.                                                               *)

LEMMA InitialInvariant == CommandInit => DurableInv
BY DEF CommandInit, DurableInv, CommandTypeOK, FileInv, WorksOn, ConfigFiles, Steps, NoJob

LEMMA TypesKept ==
  ASSUME CommandTypeOK, [CommandNext]_commandVars
  PROVE  CommandTypeOK'
<1> USE DEF CommandTypeOK, memoryVars, commandOnly
<1>1. ASSUME NEW c \in Commands, NEW ask, ask.file \in ConfigFiles, Take(c, ask)
      PROVE  /\ stage' \in [Commands -> Steps]
             /\ job' = [d \in Commands |-> job'[d]]
             /\ \A d \in Commands : job'[d].file \in ConfigFiles
  BY <1>1 DEF Take, Stage, Steps
<1>2. ASSUME NEW c \in Commands, RunCommand(c)
      PROVE  CommandTypeOK'
  <2>1. PICK ask \in Asked : Take(c, ask)
    BY <1>2 DEF RunCommand
  <2>2. ask.file \in ConfigFiles
    BY DEF Asked, ConfigFiles
  <2> QED BY <1>1, <1>2, <2>1, <2>2 DEF RunCommand
<1>3. ASSUME NEW c \in Commands, OpenFile(c)
      PROVE  CommandTypeOK'
  BY <1>3 DEF OpenFile, OpenScratch, Stage, Steps
<1>4. ASSUME NEW c \in Commands, WriteText(c)
      PROVE  CommandTypeOK'
  BY <1>4 DEF WriteText, Stage, Steps
<1>5. ASSUME NEW c \in Commands, RenameFile(c)
      PROVE  CommandTypeOK'
  BY <1>5 DEF RenameFile, Stage, Steps
<1>6. ASSUME NEW c \in Commands, Over(c)
      PROVE  /\ stage' \in [Commands -> Steps]
             /\ job' = [d \in Commands |-> job'[d]]
             /\ \A d \in Commands : job'[d].file \in ConfigFiles
             /\ writing' = [d \in Commands |-> writing'[d]]
  BY <1>6 DEF Over, Stage, Steps, NoJob, ConfigFiles
<1>7. ASSUME NEW c \in Commands, Break(c)
      PROVE  CommandTypeOK'
  BY <1>6, <1>7 DEF Break
<1>8. ASSUME NEW c \in Commands, Reply(c)
      PROVE  CommandTypeOK'
  <2> DEFINE ask == [file |-> "integrations", verb |-> "init integrations", argument |-> "none"]
  <2>1. ask.file \in ConfigFiles
    BY DEF ConfigFiles
  <2>2. CASE job[c].verb = "init config"
    <3>1. Take(c, ask) /\ UNCHANGED writing
      BY <1>8, <2>2 DEF Reply
    <3> HIDE DEF ask
    <3> QED BY <1>1, <1>8, <2>1, <3>1 DEF Reply
  <2>3. CASE job[c].verb # "init config"
    <3>1. Over(c)
      BY <1>8, <2>3 DEF Reply
    <3> QED BY <1>6, <1>8, <3>1 DEF Reply
  <2> QED BY <2>2, <2>3
<1>9. CASE \/ \E m \in Memories : ServerRemembers(m) \/ ForgetMemory(m)
           \/ ServerRestarts \/ ListMemories \/ UNCHANGED commandVars
  BY <1>9 DEF ServerRemembers, ForgetMemory, ServerRestarts, ListMemories, commandVars
<1> QED BY <1>2, <1>3, <1>4, <1>5, <1>7, <1>8, <1>9 DEF CommandNext

\* Opening, writing and renaming: the command's own file moves on, and other
\* files keep what they have.
LEMMA FileStepsKeepFile ==
  ASSUME CommandTypeOK, NEW f \in ConfigFiles, FileInv(f), NEW c \in Commands,
         OpenFile(c) \/ WriteText(c) \/ RenameFile(c)
  PROVE  FileInv(f)'
<1> USE DEF CommandTypeOK
<1>1. job' = job /\ wanted' = wanted
  BY DEF OpenFile, WriteText, RenameFile
<1>2. /\ stage[c] # "idle" /\ stage'[c] # "idle"
      /\ \A d \in Commands : d # c => stage'[d] = stage[d]
  BY DEF OpenFile, WriteText, RenameFile, Stage
<1>3. \A d \in Commands : WorksOn(d, f)' <=> WorksOn(d, f)
  BY <1>1, <1>2 DEF WorksOn
<1>4. CASE job[c].file # f
  <2>1. saved'[f] = saved[f] /\ scratch'[f] = scratch[f]
    BY <1>4 DEF OpenFile, OpenScratch, WriteText, RenameFile
  <2>2. ASSUME NEW d \in Commands, WorksOn(d, f)
        PROVE  d # c /\ writing'[d] = writing[d]
    <3>1. d # c /\ job[d].file # job[c].file
      BY <1>4, <2>2 DEF WorksOn
    <3>2. CASE OpenFile(c) \/ WriteText(c)
      BY <3>1, <3>2 DEF OpenFile, OpenScratch, WriteText
    <3>3. CASE RenameFile(c)
      <4>1. \/ writing' = writing
            \/ \A e \in Commands :
                  stage[e] # "write" \/ job[e].file # job[c].file => writing'[e] = writing[e]
        BY <3>3 DEF RenameFile
      <4> QED BY <3>1, <4>1
    <3> QED BY <3>1, <3>2, <3>3
  <2> QED BY <1>1, <1>2, <1>3, <2>1, <2>2, OtherFilesKept
<1>5. CASE job[c].file = f
  <2>1. WorksOn(c, f) /\ Progress(c, f) /\ \A d \in Commands : WorksOn(d, f) => d = c
    BY <1>2, <1>5 DEF FileInv, WorksOn
  <2>2. CASE OpenFile(c)
    <3>1. /\ stage[c] = "open" /\ stage'[c] = "write" /\ saved' = saved
          /\ scratch'[f] = Empty /\ writing'[c] = "scratch"
      BY <2>2, <1>5 DEF OpenFile, OpenScratch, Stage
    <3>2. Progress(c, f)'
      BY <1>1, <2>1, <3>1 DEF Progress
    <3> QED BY <1>3, <2>1, <3>2, OnlyCommandSound
  <2>3. CASE WriteText(c)
    <3>1. /\ stage[c] = "write" /\ stage'[c] = "rename" /\ saved' = saved
          /\ scratch'[f] = job[c].text
      BY <2>1, <2>3, <1>5 DEF WriteText, Stage, WrittenOver, Progress
    <3>2. Progress(c, f)'
      BY <1>1, <2>1, <3>1 DEF Progress
    <3> QED BY <1>3, <2>1, <3>2, OnlyCommandSound
  <2>4. CASE RenameFile(c)
    <3>1. /\ stage[c] = "rename"
          /\ \/ stage'[c] = "done" /\ saved'[f] = scratch[f]
             \/ stage'[c] = "failed" /\ saved' = saved
      BY <2>4, <1>5 DEF RenameFile, Stage
    <3>2. Progress(c, f)'
      BY <1>1, <2>1, <3>1 DEF Progress
    <3> QED BY <1>3, <2>1, <3>2, OnlyCommandSound
  <2> QED BY <2>2, <2>3, <2>4
<1> QED BY <1>4, <1>5

\* A command ends, or turns to another file: its own is left as it is wanted.
LEMMA EndsKeepFile ==
  ASSUME CommandTypeOK, NEW f \in ConfigFiles, NEW c \in Commands, WorksOn(c, f), FileInv(f),
         \A d \in Commands : WorksOn(d, f)' => WorksOn(d, f) /\ d # c,
         saved' = saved, saved[f] \in wanted'[f]
  PROVE  FileInv(f)'
BY LeftFileSound DEF FileInv

LEMMA BreakKeepsFile ==
  ASSUME CommandTypeOK, NEW f \in ConfigFiles, FileInv(f), NEW c \in Commands, Break(c)
  PROVE  FileInv(f)'
<1> USE DEF CommandTypeOK
<1>1. /\ stage[c] # "idle" /\ saved' = saved /\ scratch' = scratch
      /\ \A d \in Commands : d # c => /\ stage'[d] = stage[d] /\ job'[d] = job[d]
                                      /\ writing'[d] = writing[d]
      /\ stage'[c] = "idle"
  BY DEF Break, Over, Stage
<1>2. \A d \in Commands : WorksOn(d, f)' <=> WorksOn(d, f) /\ d # c
  BY <1>1 DEF WorksOn
<1>3. CASE job[c].file # f
  <2>1. wanted'[f] = wanted[f]
    BY <1>3 DEF Break
  <2>2. ~WorksOn(c, f)
    BY <1>3 DEF WorksOn
  <2> QED BY <1>1, <1>2, <2>1, <2>2, OtherFilesKept
<1>4. CASE job[c].file = f
  <2>1. WorksOn(c, f) /\ Progress(c, f)
    BY <1>1, <1>4 DEF FileInv, WorksOn
  <2>2. saved[f] \in wanted'[f]
    BY <1>4, <2>1 DEF Break, Effect, Progress
  <2> QED BY <1>1, <1>2, <2>1, <2>2, EndsKeepFile
<1> QED BY <1>3, <1>4

LEMMA ReplyKeepsFile ==
  ASSUME CommandTypeOK, NEW f \in ConfigFiles, FileInv(f), f \notin overlapped',
         NEW c \in Commands, Reply(c)
  PROVE  FileInv(f)'
<1> USE DEF CommandTypeOK
<1>1. /\ stage[c] = "done" /\ saved' = saved /\ scratch' = scratch
      /\ wanted' = [wanted EXCEPT ![job[c].file] = Effect(c)]
      /\ \A d \in Commands : d # c => /\ stage'[d] = stage[d] /\ job'[d] = job[d]
                                      /\ writing'[d] = writing[d]
  BY DEF Reply, Take, Over, Stage
<1>2. CASE job[c].file = f /\ ~WorksOn(c, f)'
  <2>1. WorksOn(c, f) /\ Progress(c, f)
    BY <1>1, <1>2 DEF FileInv, WorksOn
  <2>2. saved[f] \in wanted'[f]
    BY <1>1, <1>2, <2>1 DEF Effect, Progress
  <2>3. \A d \in Commands : WorksOn(d, f)' => WorksOn(d, f) /\ d # c
    BY <1>1, <1>2 DEF WorksOn
  <2> QED BY <1>1, <2>1, <2>2, <2>3, EndsKeepFile
<1>3. CASE job[c].file # f /\ ~WorksOn(c, f)'
  <2>1. \A d \in Commands : WorksOn(d, f)' <=> WorksOn(d, f)
    BY <1>1, <1>3 DEF WorksOn
  <2>2. wanted'[f] = wanted[f] /\ ~WorksOn(c, f)
    BY <1>1, <1>3 DEF WorksOn
  <2> QED BY <1>1, <2>1, <2>2, OtherFilesKept
<1>4. CASE WorksOn(c, f)'
  <2> DEFINE ask == [file |-> "integrations", verb |-> "init integrations", argument |-> "none"]
  <2>1. Take(c, ask)
    <3>1. job[c].verb = "init config"
      BY <1>4 DEF Reply, Over, Stage, WorksOn
    <3> QED BY <3>1 DEF Reply
  <2>2. f = ask.file
    BY <1>4, <2>1 DEF Take, WorksOn
  <2>3. ~Busy(f)
    BY <2>1, <2>2 DEF Take
  <2>4. job[c].file # f
    BY <1>1, <2>3 DEF Busy
  <2>5. wanted'[f] = wanted[f]
    BY <1>1, <2>4
  <2> HIDE DEF ask
  <2> QED BY <1>1, <2>1, <2>2, <2>3, <2>5, TakenFileSound
<1> QED BY <1>2, <1>3, <1>4

LEMMA RunKeepsFile ==
  ASSUME CommandTypeOK, NEW f \in ConfigFiles, FileInv(f), f \notin overlapped',
         NEW c \in Commands, RunCommand(c)
  PROVE  FileInv(f)'
<1> USE DEF CommandTypeOK
<1>1. PICK ask \in Asked : Take(c, ask)
  BY DEF RunCommand
<1>2. /\ stage[c] = "idle" /\ saved' = saved /\ scratch' = scratch /\ wanted' = wanted
      /\ writing' = writing
      /\ \A d \in Commands : d # c => stage'[d] = stage[d] /\ job'[d] = job[d]
      /\ job'[c].file = ask.file
  BY <1>1 DEF RunCommand, Take, Stage
<1>3. CASE ask.file = f
  <2>1. ~Busy(f)
    BY <1>1, <1>3 DEF Take
  <2> QED BY <1>1, <1>2, <1>3, <2>1, TakenFileSound
<1>4. CASE ask.file # f
  <2>1. \A d \in Commands : WorksOn(d, f)' <=> WorksOn(d, f)
    BY <1>2, <1>4 DEF WorksOn
  <2>2. ~WorksOn(c, f)
    BY <1>2 DEF WorksOn
  <2> QED BY <1>2, <2>1, <2>2, OtherFilesKept
<1> QED BY <1>3, <1>4

LEMMA StepKeepsInvariant == DurableInv /\ [CommandNext]_commandVars => DurableInv'
<1> SUFFICES ASSUME DurableInv, [CommandNext]_commandVars
             PROVE  DurableInv'
  OBVIOUS
<1>1. CommandTypeOK'
  BY TypesKept DEF DurableInv
<1>2. overlapped \subseteq overlapped'
  BY DEF CommandNext, commandVars, commandOnly, RunCommand, OpenFile, WriteText, RenameFile, Reply,
         Break, Take, ServerRemembers, ForgetMemory, ServerRestarts, ListMemories
<1>3. ASSUME NEW f \in ConfigFiles, f \notin overlapped'
      PROVE  FileInv(f)'
  <2>1. FileInv(f) /\ CommandTypeOK
    BY <1>2, <1>3 DEF DurableInv
  <2>2. ASSUME NEW c \in Commands,
               \/ RunCommand(c) \/ OpenFile(c) \/ WriteText(c) \/ RenameFile(c)
               \/ Reply(c) \/ Break(c)
        PROVE  FileInv(f)'
    BY <1>3, <2>1, <2>2, RunKeepsFile, FileStepsKeepFile, ReplyKeepsFile, BreakKeepsFile
  <2>3. CASE \/ \E m \in Memories : ServerRemembers(m) \/ ForgetMemory(m)
             \/ ServerRestarts \/ ListMemories \/ UNCHANGED commandVars
    <3>1. UNCHANGED <<saved, scratch, stage, job, writing, wanted>>
      BY <2>3 DEF ServerRemembers, ForgetMemory, ServerRestarts, ListMemories, commandVars,
                  commandOnly
    <3> QED BY <2>1, <3>1, OtherFilesKept DEF WorksOn
  <2> QED BY <2>2, <2>3 DEF CommandNext
<1> QED BY <1>1, <1>3 DEF DurableInv

\* As long as no two commands work on a file at the same time, it holds what
\* the commands have answered that it holds, whichever of them died at which
\* step (write_json).
THEOREM SettingsAreDurable == CommandSpec => []SettingsDurable
<1>1. CommandSpec => []DurableInv
  BY InitialInvariant, StepKeepsInvariant, PTL DEF CommandSpec
<1>2. DurableInv => SettingsDurable
  BY DEF DurableInv, SettingsDurable, FileInv, WorksOn, Busy
<1> QED BY <1>1, <1>2, PTL

-----------------------------------------------------------------------------
(* The task ledger.                                                         *)

\* A list of tasks that names none twice.
Distinct(tasks) ==
    /\ tasks \in Seq([id : TaskIds, status : Statuses])
    /\ \A i, j \in DOMAIN tasks : tasks[i].id = tasks[j].id => i = j

IsLedgerFile(f) ==
    /\ f = [kind |-> f.kind, tasks |-> f.tasks]
    /\ Distinct(f.tasks)
    /\ f.kind # "ledger" => f.tasks = <<>>

FilesInv ==
    /\ IsLedgerFile(json) /\ IsLedgerFile(temporary)
    /\ \A s \in Servers : Distinct(held[s])
    /\ held = [s \in Servers |-> held[s]]
    /\ pc \in [Servers -> {"idle", "open", "write", "look", "remove", "rename"}]
    /\ open = [s \in Servers |-> open[s]]

\* What the step that an undisturbed update has reached says of the files.
SerialInv == ~disturbed =>
    /\ \A r, s \in Servers : pc[r] # "idle" /\ pc[s] # "idle" => r = s
    /\ (\A s \in Servers : pc[s] # "rename") => acked \subseteq Ids(json.tasks)
    /\ \A s \in Servers :
          /\ pc[s] # "idle" => acked \subseteq Ids(held[s])
          /\ pc[s] = "write" => open[s] = "temporary" /\ temporary = Blank
          /\ pc[s] \in {"look", "remove", "rename"} => temporary = Ledger(held[s])
          /\ pc[s] = "remove" => json # Missing

LEMMA EmptyIsDistinct == Distinct(<<>>)
  BY DEF Distinct

\* add has made sure that the id is new; the other actions keep the ids.
LEMMA UpdatedIsDistinct ==
  ASSUME NEW tasks, Distinct(tasks), NEW action \in Actions, NEW id \in TaskIds,
         Accepts(tasks, action, id)
  PROVE  Distinct(Updated(tasks, action, id)) /\ Ids(tasks) \subseteq Ids(Updated(tasks, action, id))
<1> DEFINE Tasks == [id : TaskIds, status : Statuses]
<1>1. tasks \in Seq(Tasks)
  BY DEF Distinct
<1>2. CASE action = "ensure"
  BY <1>2 DEF Updated
<1>3. CASE action = "add"
  <2> DEFINE new == [id |-> id, status |-> "todo"]
             longer == Append(tasks, new)
  <2>1. new \in Tasks
    BY DEF Statuses
  <2>2. longer \in Seq(Tasks)
    BY <1>1, <2>1
  <2>3. /\ DOMAIN longer = 1 .. Len(tasks) + 1 /\ DOMAIN tasks = 1 .. Len(tasks)
        /\ Len(tasks) \in Nat
        /\ longer[Len(tasks) + 1].id = id
        /\ \A i \in DOMAIN tasks : longer[i] = tasks[i]
    BY <1>1, <2>1
  <2>4. \A i \in DOMAIN tasks : tasks[i].id # id
    BY <1>3 DEF Accepts, Ids
  <2> HIDE DEF longer, new
  <2>5. \A i, j \in DOMAIN longer : longer[i].id = longer[j].id => i = j
    <3>1. ASSUME NEW i \in DOMAIN longer, NEW j \in DOMAIN longer, longer[i].id = longer[j].id
          PROVE  i = j
      <4>1. CASE i \in DOMAIN tasks /\ j \in DOMAIN tasks
        BY <2>3, <3>1, <4>1 DEF Distinct
      <4>2. CASE i \notin DOMAIN tasks
        <5>1. i = Len(tasks) + 1
          BY <2>3, <4>2
        <5>2. j \notin DOMAIN tasks
          BY <2>3, <2>4, <3>1, <5>1
        <5> QED BY <2>3, <5>1, <5>2
      <4>3. CASE j \notin DOMAIN tasks
        <5>1. j = Len(tasks) + 1
          BY <2>3, <4>3
        <5>2. i \notin DOMAIN tasks
          BY <2>3, <2>4, <3>1, <5>1
        <5> QED BY <2>3, <5>1, <5>2
      <4> QED BY <4>1, <4>2, <4>3
    <3> QED BY <3>1
  <2>6. Ids(tasks) \subseteq Ids(longer)
    BY <2>3 DEF Ids
  <2>7. Updated(tasks, action, id) = longer
    BY <1>3 DEF Updated, longer, new
  <2> QED BY <2>2, <2>5, <2>6, <2>7 DEF Distinct
<1>4. CASE action \in {"start", "complete", "block"}
  <2> DEFINE i == SelectInSeq(tasks, LAMBDA task : task.id = id)
             moved == [tasks EXCEPT ![i].status = StatusAfter(action)]
  <2>1. StatusAfter(action) \in Statuses
    BY <1>4 DEF StatusAfter, Statuses
  <2>2. Updated(tasks, action, id) = moved
    BY <1>4 DEF Updated
  <2> HIDE DEF i
  <2>3. DOMAIN moved = DOMAIN tasks /\ \A k \in DOMAIN tasks : moved[k].id = tasks[k].id
                                       /\ moved[k] \in Tasks
    <3>1. \A k \in DOMAIN tasks : tasks[k] \in Tasks
      <4> HIDE DEF Tasks
      <4> QED BY <1>1
    <3> QED BY <2>1, <3>1
  <2>4. moved \in Seq(Tasks)
    <3>1. DOMAIN tasks = 1 .. Len(tasks) /\ Len(tasks) \in Nat
      BY <1>1
    <3>2. moved = [k \in DOMAIN tasks |-> moved[k]]
      OBVIOUS
    <3>3. moved \in [1 .. Len(tasks) -> Tasks]
      <4> HIDE DEF moved, Tasks
      <4> QED BY <2>3, <3>1, <3>2
    <3> HIDE DEF moved, Tasks
    <3> QED BY <3>1, <3>3, SeqDef
  <2>5. Ids(moved) = Ids(tasks)
    BY <2>3 DEF Ids
  <2> HIDE DEF moved
  <2> QED BY <2>2, <2>3, <2>4, <2>5 DEF Distinct
<1> QED BY <1>2, <1>3, <1>4 DEF Actions

\* Tasks that are distinct are as many as their ids.
LEMMA DistinctCount ==
  ASSUME NEW tasks, Distinct(tasks)
  PROVE  Cardinality(Ids(tasks)) = Len(tasks)
<1> DEFINE name == [i \in 1 .. Len(tasks) |-> tasks[i].id]
<1>1. Len(tasks) \in Nat /\ DOMAIN tasks = 1 .. Len(tasks)
  BY DEF Distinct
<1>2. name \in Bijection(1 .. Len(tasks), Ids(tasks))
  BY <1>1 DEF Distinct, Ids, Bijection, Injection, Surjection, IsInjective
<1>3. IsFiniteSet(1 .. Len(tasks)) /\ Cardinality(1 .. Len(tasks)) = Len(tasks)
  <2>1. 1 \in Int /\ Len(tasks) \in Int
    BY <1>1
  <2>2. /\ IsFiniteSet(1 .. Len(tasks))
        /\ Cardinality(1 .. Len(tasks)) = IF 1 > Len(tasks) THEN 0 ELSE Len(tasks) - 1 + 1
    BY <2>1, FS_Interval, Zenon
  <2> QED BY <1>1, <2>2
<1>4. ExistsBijection(1 .. Len(tasks), Ids(tasks))
  BY <1>2 DEF ExistsBijection
<1> QED BY <1>3, <1>4, FS_Bijection

LEMMA FilesStep ==
  ASSUME FilesInv, Next \/ UNCHANGED vars
  PROVE  FilesInv'
<1>1. ASSUME NEW s \in Servers, NEW next \in {"idle", "open", "write", "look", "remove", "rename"},
             Goto(s, next), UNCHANGED held \/ held' = [held EXCEPT ![s] = <<>>],
             open' = [r \in Servers |-> open'[r]],
             IsLedgerFile(json'), IsLedgerFile(temporary')
      PROVE  FilesInv'
  BY <1>1, EmptyIsDistinct DEF FilesInv, Goto
<1>2. IsLedgerFile(Missing) /\ IsLedgerFile(Blank) /\ IsLedgerFile(Torn)
  BY EmptyIsDistinct DEF IsLedgerFile, Missing, Blank, Torn, File
<1>3. \A tasks : Distinct(tasks) => IsLedgerFile(Ledger(tasks))
  BY DEF IsLedgerFile, Ledger, File
<1>4. IsLedgerFile(json) /\ IsLedgerFile(temporary) /\ open = [r \in Servers |-> open[r]]
  BY DEF FilesInv
<1>5. ASSUME NEW s \in Servers, Read(s) PROVE FilesInv'
  <2>1. PICK action \in Actions, id \in TaskIds :
            /\ Accepts(json.tasks, action, id)
            /\ held' = [held EXCEPT ![s] = Updated(json.tasks, action, id)]
    BY <1>5 DEF Read
  <2>2. Distinct(Updated(json.tasks, action, id))
    BY <1>4, <2>1, UpdatedIsDistinct DEF IsLedgerFile
  <2>3. UNCHANGED <<json, temporary, open>> /\ Goto(s, "open")
    BY <1>5 DEF Read
  <2> QED BY <2>1, <2>2, <2>3 DEF FilesInv, Goto
<1>6. ASSUME NEW s \in Servers, Open(s) PROVE FilesInv'
  BY <1>1, <1>2, <1>4, <1>6 DEF Open
<1>7. ASSUME NEW s \in Servers, Write(s) PROVE FilesInv'
  <2>1. \A f : \A g \in Overwritten(f, held[s]) : IsLedgerFile(g)
    BY <1>2, <1>3 DEF Overwritten, FilesInv
  <2>2. IsLedgerFile(json') /\ IsLedgerFile(temporary')
    BY <1>4, <1>7, <2>1 DEF Write
  <2> QED BY <1>1, <1>4, <1>7, <2>2 DEF Write
<1>8. ASSUME NEW s \in Servers, Look(s) PROVE FilesInv'
  BY <1>1, <1>4, <1>8 DEF Look
<1>9. ASSUME NEW s \in Servers, Unlink(s) PROVE FilesInv'
  <2>1. IsLedgerFile(json') /\ IsLedgerFile(temporary') /\ open' = [r \in Servers |-> open'[r]]
    BY <1>2, <1>4, <1>9 DEF Unlink
  <2> QED BY <1>1, <1>9, <2>1 DEF Unlink, Return
<1>10. ASSUME NEW s \in Servers, Rename(s) PROVE FilesInv'
  <2>1. IsLedgerFile(json') /\ IsLedgerFile(temporary') /\ open' = [r \in Servers |-> open'[r]]
    BY <1>2, <1>4, <1>10 DEF Rename
  <2> QED BY <1>1, <1>10, <2>1 DEF Rename, Return
<1>11. ASSUME NEW s \in Servers, Crash(s) PROVE FilesInv'
  BY <1>1, <1>4, <1>11 DEF Crash, Return
<1>12. CASE UNCHANGED vars
  BY <1>12 DEF vars, FilesInv
<1> QED BY <1>5, <1>6, <1>7, <1>8, <1>9, <1>10, <1>11, <1>12 DEF Next

LEMMA SerialStep ==
  ASSUME FilesInv, SerialInv, Next \/ UNCHANGED vars
  PROVE  SerialInv'
<1> SUFFICES ASSUME ~disturbed' PROVE SerialInv'
  BY DEF SerialInv
<1> USE DEF SerialInv, FilesInv, Goto, Return
<1>1. ASSUME NEW s \in Servers, Read(s) PROVE SerialInv'
  <2>1. PICK action \in Actions, id \in TaskIds :
            /\ Accepts(json.tasks, action, id)
            /\ held' = [held EXCEPT ![s] = Updated(json.tasks, action, id)]
    BY <1>1 DEF Read
  <2>2. Ids(json.tasks) \subseteq Ids(Updated(json.tasks, action, id))
    BY <2>1, UpdatedIsDistinct DEF IsLedgerFile
  <2>3. ~disturbed /\ \A r \in Servers : pc[r] = "idle"
    BY <1>1 DEF Read
  <2>4. acked \subseteq Ids(json.tasks)
    BY <2>3
  <2>5. UNCHANGED <<json, temporary, open, acked>> /\ pc' = [pc EXCEPT ![s] = "open"]
    BY <1>1 DEF Read
  <2> QED BY <2>1, <2>2, <2>3, <2>4, <2>5
<1>2. ASSUME NEW s \in Servers, Open(s) PROVE SerialInv'
  BY <1>2 DEF Open
<1>3. ASSUME NEW s \in Servers, Write(s) PROVE SerialInv'
  <2>1. /\ pc[s] = "write" /\ open[s] = "temporary" /\ temporary = Blank
        /\ pc' = [pc EXCEPT ![s] = "look"]
        /\ UNCHANGED <<json, held, acked>> /\ ~disturbed
    BY <1>3 DEF Write
  <2>2. temporary' = Ledger(held[s])
    BY <1>3, <2>1 DEF Write, Overwritten
  <2> QED BY <2>1, <2>2
<1>4. ASSUME NEW s \in Servers, Look(s) PROVE SerialInv'
  BY <1>4 DEF Look
<1>5. ASSUME NEW s \in Servers, Unlink(s) PROVE SerialInv'
  BY <1>5 DEF Unlink
<1>6. ASSUME NEW s \in Servers, Rename(s) PROVE SerialInv'
  <2>1. /\ pc[s] = "rename" /\ temporary = Ledger(held[s]) /\ acked \subseteq Ids(held[s])
        /\ pc' = [pc EXCEPT ![s] = "idle"] /\ ~disturbed
    BY <1>6 DEF Rename
  <2>2. temporary # Missing
    BY <2>1 DEF Ledger, Missing, File
  <2>3. json' = Ledger(held[s]) /\ acked' = acked \cup Ids(held[s])
    BY <1>6, <2>1, <2>2 DEF Rename
  <2>4. json'.tasks = held[s]
    BY <2>3 DEF Ledger, File
  <2>5. \A r \in Servers : pc'[r] = "idle"
    BY <2>1
  <2> QED BY <2>1, <2>3, <2>4, <2>5
<1>7. ASSUME NEW s \in Servers, Crash(s) PROVE SerialInv'
  BY <1>7 DEF Crash
<1>8. CASE UNCHANGED vars
  BY <1>8 DEF vars
<1> QED BY <1>1, <1>2, <1>3, <1>4, <1>5, <1>6, <1>7, <1>8 DEF Next

\* However updates of the ledger overlap or die, no file that can be read
\* names a task twice, and updates that follow one another lose nothing
\* (task_update, read_task_ledger and write_task_ledger).
THEOREM LedgerIsSound == Spec => []LedgerSound
<1>1. ASSUME Init PROVE FilesInv /\ SerialInv
  <2>1. IsLedgerFile(Missing) /\ IsLedgerFile(Newer)
    BY EmptyIsDistinct DEF IsLedgerFile, Missing, Newer, File
  <2> QED BY <1>1, <2>1, EmptyIsDistinct DEF Init, FilesInv, SerialInv
<1>2. FilesInv /\ SerialInv /\ [Next]_vars => (FilesInv /\ SerialInv)'
  BY FilesStep, SerialStep
<1>3. ASSUME FilesInv, SerialInv PROVE LedgerSound
  <2>1. \A f \in {json, temporary} : Cardinality(Ids(f.tasks)) = Len(f.tasks)
    BY <1>3, DistinctCount DEF FilesInv, IsLedgerFile
  <2>2. SerialUpdatesDurable
    BY <1>3 DEF SerialInv, SerialUpdatesDurable
  <2> QED BY <2>1, <2>2 DEF LedgerSound, UniqueIds
<1> QED BY <1>1, <1>2, <1>3, PTL DEF Spec

-----------------------------------------------------------------------------
(* Adapters.                                                                *)

Names == {"config", "support", "skill"}
Formats == {"json", "toml-fragment", "owned-text"}
Texts == [user : {0, 1}, holder : {"missing", "scalar", "bare", "peers"},
          own : {"missing", "malformed", "none", "ours", "changed", "partial", "conflict"}]
Changes == [path : Names, before : Texts, after : Texts]

Places == {"idle", "plan", "apply", "undo", "validate", "inspect"}

\* Types; a file of the adapter holds what it may hold.
AdapterTypeOK ==
    /\ format \in Formats /\ at \in Places
    /\ intent \in {"install", "uninstall"} /\ reversed \in BOOLEAN
    /\ files \in [Names -> Texts] /\ mine = [p \in Names |-> mine[p]]
    /\ original = [p \in Names |-> original[p]]
    /\ \A p \in ToSet(Paths) : files[p] \in Contents(p)

\* What the plan says of one file.
Decided(p, change) ==
    /\ change.path = p
    /\ change.before \in Contents(p) /\ change.after \in Contents(p)
    /\ UserPart(p, change.after) = UserPart(p, change.before)
    /\ p = "config" => OwnsConfig(change.after) = (intent = "install")

\* The plan follows the adapter's files.
ChangesInv ==
    /\ plan \in Seq(Changes)
    /\ Len(plan) <= Len(Paths)
    /\ \A i \in DOMAIN plan : Decided(Paths[i], plan[i])

\* The changes written are of the plan, each once.
AppliedInv ==
    /\ applied \in Seq(Nat) /\ ToSet(applied) \subseteq DOMAIN plan
    /\ \A j, k \in DOMAIN applied : applied[j] = applied[k] => j = k
    /\ at \notin {"idle", "plan"} => Len(plan) = Len(Paths)
    /\ at = "plan" => applied = <<>>

\* What a file holds that nothing has spoiled, as the plan stands.
Stands(i) == IF i \in ToSet(applied) THEN Target(plan[i]) ELSE Source(plan[i])

\* Where the command stands says what such a file holds.
Expected ==
    /\ at # "idle" => outcome = "none"
    /\ at \in {"plan", "validate", "inspect"} => ~reversed
    /\ at = "plan" => \A p \in ToSet(Paths) \ touched : files[p] = original[p]
    /\ \A i \in DOMAIN plan :
          plan[i].path \notin touched =>
              /\ at # "idle" => plan[i].before = original[plan[i].path]
              /\ at \in {"apply", "undo"} => files[plan[i].path] = Stands(i)
              /\ at \in {"validate", "inspect"} => files[plan[i].path] = plan[i].after

AdapterInv ==
    /\ AdapterTypeOK /\ ChangesInv /\ AppliedInv /\ Expected
    /\ UserPartKept /\ AllOrNothing
    /\ \A p \in ToSet(Paths) : mine[p] = UserPart(p, original[p])

\* What a file may hold.
LEMMA ContentsAreTexts ==
  ASSUME NEW p \in Names, NEW c \in Contents(p)
  PROVE  c \in Texts
BY DEF Contents, Texts, Absent, EmptyFile, Malformed

\* A decision in each format: the file stays one that may be there, the
\* user's part stays, and the owned value is there exactly after an install.
LEMMA OwnedTextMutation ==
  ASSUME NEW p \in Names, Owned(p), NEW c \in Contents(p), NEW act \in {"install", "uninstall"},
         MutateOwnedText(c, act) # Conflict
  PROVE  /\ MutateOwnedText(c, act) \in Contents(p)
         /\ UserPart(p, MutateOwnedText(c, act)) = UserPart(p, c)
         /\ (MutateOwnedText(c, act).own = "ours") = (act = "install")
         /\ MutateOwnedText(c, act).own # "changed"
BY DEF Contents, Absent, EmptyFile, Conflict, MutateOwnedText, UserPart

LEMMA TomlMutation ==
  ASSUME format = "toml-fragment", NEW c \in Contents("config"),
         NEW act \in {"install", "uninstall"}, MutateToml(c, act) # Conflict
  PROVE  /\ MutateToml(c, act) \in Contents("config")
         /\ UserPart("config", MutateToml(c, act)) = UserPart("config", c)
         /\ (MutateToml(c, act).own = "ours") = (act = "install")
         /\ MutateToml(c, act).own # "changed"
<1> DEFINE Blocks == [user : {0, 1}, holder : {"missing"}, own : {"none", "ours", "changed"}]
           result == MutateToml(c, act)
<1>1. c = Absent \/ c \in Blocks
  <2>1. c = Absent \/ c = Malformed
           \/ c \in [user : {0, 1}, holder : {"missing"},
                    own : {"none", "ours", "changed", "partial"}]
    BY DEF Contents, Owned
  <2>2. c.own \notin {"malformed", "partial"}
    BY DEF MutateToml
  <2> QED  BY <2>1, <2>2 DEF Malformed
<1>2. /\ result = IF c = Absent /\ act = "uninstall" THEN Absent
                  ELSE [user |-> c.user, holder |-> "missing",
                        own |-> IF act = "install" THEN "ours" ELSE "none"]
      /\ c.user \in {0, 1} /\ c.holder = "missing"
  <2>1. CASE c = Absent
    <3>1. c # Malformed /\ c.own = "missing" /\ c.user = 0 /\ c.holder = "missing"
      BY <2>1 DEF Absent, Malformed
    <3>2. result = IF act = "install" THEN [EmptyFile EXCEPT !.own = "ours"] ELSE Absent
      BY <2>1, <3>1 DEF MutateToml, Parsed
    <3> QED  BY <2>1, <3>1, <3>2 DEF EmptyFile
  <2>2. CASE c \in Blocks
    <3>1. c # Malformed /\ c # Absent /\ c.own \in {"none", "ours", "changed"} /\ c.user \in {0, 1}
      BY <2>2 DEF Absent, Malformed
    <3>2. c = [user |-> c.user, holder |-> "missing", own |-> c.own]
      BY <2>2
    <3>3. CASE act = "install"
      <4>1. result = [c EXCEPT !.own = "ours"]
        BY <3>1, <3>3 DEF MutateToml, Parsed
      <4> QED  BY <3>1, <3>2, <3>3, <4>1
    <3>4. CASE act = "uninstall"
      <4>1. result = IF c.own = "none" THEN c ELSE [c EXCEPT !.own = "none"]
        BY <3>1, <3>4 DEF MutateToml
      <4> QED  BY <3>1, <3>2, <3>4, <4>1
    <3> QED  BY <3>3, <3>4
  <2> QED  BY <1>1, <2>1, <2>2
<1>3. result \in Contents("config")
  BY <1>2 DEF Contents, Owned, Absent
<1>4. UserPart("config", result) = UserPart("config", c)
  BY <1>1, <1>2 DEF UserPart, Owned, Absent
<1>5. (result.own = "ours") = (act = "install") /\ result.own # "changed"
  BY <1>2 DEF Absent
<1> QED  BY <1>3, <1>4, <1>5

LEMMA JsonMutation ==
  ASSUME format = "json", NEW c \in Contents("config"), NEW act \in {"install", "uninstall"},
         MutateJson(c, act) # Conflict
  PROVE  /\ MutateJson(c, act) \in Contents("config")
         /\ UserPart("config", MutateJson(c, act)) = UserPart("config", c)
         /\ (MutateJson(c, act).own = "ours") = (act = "install")
<1> DEFINE Values == {v \in [user : {0, 1}, holder : {"missing", "bare", "peers"},
                             own : {"none", "ours", "changed"}] :
                        v.own # "none" => v.holder \in {"bare", "peers"}}
           source == Parsed(c)
           result == MutateJson(c, act)
<1>1. /\ source \in Values \/ source.holder = "scalar"
      /\ c = source \/ (c = Absent /\ source = EmptyFile)
  <2>1. c # Malformed
    BY DEF MutateJson
  <2>2. c = Absent \/ c \in Values \/ c.holder = "scalar"
    BY <2>1 DEF Contents, Owned
  <2>3. EmptyFile \in Values
    BY DEF EmptyFile
  <2>4. source = IF c = Absent THEN EmptyFile ELSE c
    BY DEF Parsed
  <2> HIDE DEF Values, source
  <2> QED  BY <2>2, <2>3, <2>4
<1>2. /\ result = IF act = "install" THEN SetJsonPath(source) ELSE DeleteJsonPath(source)
      /\ result # Conflict
  BY DEF MutateJson
<1>3. /\ source \in Values /\ source.own # "changed"
      /\ result = [user |-> source.user,
                   holder |-> IF act = "install"
                              THEN IF source.holder = "missing" THEN "bare" ELSE source.holder
                              ELSE IF source.own = "ours" /\ source.holder = "bare"
                                   THEN "missing" ELSE source.holder,
                   own |-> IF act = "install" THEN "ours" ELSE "none"]
  <2>1. source \in Values /\ source.own # "changed"
    BY <1>1, <1>2 DEF SetJsonPath, DeleteJsonPath
  <2>2. /\ source = [user |-> source.user, holder |-> source.holder, own |-> source.own]
        /\ source.own \in {"none", "ours"} /\ source.holder \in {"missing", "bare", "peers"}
        /\ source.own = "ours" => source.holder \in {"bare", "peers"}
    BY <2>1
  <2> HIDE DEF source, result
  <2>3. CASE act = "install"
    <3>1. result = [source EXCEPT !.own = "ours", !.holder = IF @ = "missing" THEN "bare" ELSE @]
      BY <1>2, <2>1, <2>2, <2>3 DEF SetJsonPath
    <3> QED  BY <2>1, <2>2, <2>3, <3>1
  <2>4. CASE act = "uninstall"
    <3>1. result = IF source.own = "none" THEN source
                   ELSE [source EXCEPT !.own = "none",
                                       !.holder = IF @ = "bare" THEN "missing" ELSE @]
      BY <1>2, <2>1, <2>2, <2>4 DEF DeleteJsonPath
    <3> QED  BY <2>1, <2>2, <2>4, <3>1
  <2> QED  BY <2>3, <2>4
<1>4. result \in Contents("config")
  BY <1>3 DEF Contents, Owned
<1>5. UserPart("config", result) = UserPart("config", source)
  BY <1>3 DEF UserPart, Owned
<1>6. UserPart("config", source) = UserPart("config", c)
  BY <1>1 DEF UserPart, Owned, Absent, EmptyFile
<1>7. (result.own = "ours") = (act = "install")
  BY <1>3
<1> QED  BY <1>4, <1>5, <1>6, <1>7

\* The three formats together.
LEMMA Mutation ==
  ASSUME format \in Formats, NEW p \in Names, NEW c \in Contents(p),
         NEW act \in {"install", "uninstall"}, MutateConfig(p, c, act) # Conflict
  PROVE  /\ MutateConfig(p, c, act) \in Contents(p)
         /\ UserPart(p, MutateConfig(p, c, act)) = UserPart(p, c)
         /\ p = "config" => OwnsConfig(MutateConfig(p, c, act)) = (act = "install")
<1>1. CASE Owned(p)
  <2>1. MutateConfig(p, c, act) = MutateOwnedText(c, act)
    BY <1>1 DEF MutateConfig
  <2>2. p = "config" => format = "owned-text"
    BY <1>1 DEF Owned
  <2> QED  BY <1>1, <2>1, <2>2, OwnedTextMutation DEF OwnsConfig
<1>2. CASE ~Owned(p) /\ format = "json"
  <2>1. MutateConfig(p, c, act) = MutateJson(c, act) /\ p = "config"
    BY <1>2 DEF MutateConfig, Owned
  <2> QED  BY <1>2, <2>1, JsonMutation DEF OwnsConfig
<1>3. CASE ~Owned(p) /\ format # "json"
  <2>1. MutateConfig(p, c, act) = MutateToml(c, act) /\ p = "config" /\ format = "toml-fragment"
    BY <1>3 DEF MutateConfig, Owned, Formats
  <2> QED  BY <2>1, TomlMutation DEF OwnsConfig
<1> QED  BY <1>1, <1>2, <1>3

\* The files of an adapter are two or three, its configuration first.
LEMMA PathsAreDistinct ==
  /\ Paths \in Seq(Names) /\ Paths[1] = "config" /\ Len(Paths) \in {2, 3}
  /\ \A i, j \in 1..Len(Paths) : Paths[i] = Paths[j] => i = j
  /\ \A p : p \in ToSet(Paths) <=> \E i \in 1..Len(Paths) : p = Paths[i]
<1>1. /\ Paths \in Seq(Names) /\ Paths[1] = "config" /\ Len(Paths) \in {2, 3}
      /\ \A i, j \in 1..Len(Paths) : Paths[i] = Paths[j] => i = j
  <2>1. CASE format = "owned-text"
    <3>1. Paths = <<"config", "support", "skill">>
      BY <2>1 DEF Paths
    <3> QED  BY <3>1 DEF Names
  <2>2. CASE format # "owned-text"
    <3>1. Paths = <<"config", "skill">>
      BY <2>2 DEF Paths
    <3> QED  BY <3>1 DEF Names
  <2> QED  BY <2>1, <2>2
<1>2. DOMAIN Paths = 1..Len(Paths)
  BY <1>1
<1>3. \A p : p \in ToSet(Paths) <=> \E i \in 1..Len(Paths) : p = Paths[i]
  BY <1>2 DEF ToSet
<1> QED  BY <1>1, <1>3

\* A torn write leaves a text that may be there, and is recorded.
LEMMA SpoiledText ==
  ASSUME NEW p \in Names, Spoil(p), files = [q \in Names |-> files[q]],
         files[p] \in Contents(p)
  PROVE  /\ files' = [files EXCEPT ![p] = files'[p]]
         /\ files'[p] \in Contents(p)
         /\ touched \subseteq touched'
         /\ files' = files \/ p \in touched'
<1>1. CASE UNCHANGED <<files, touched>>
  BY <1>1
<1>2. CASE ~UNCHANGED <<files, touched>>
  <2>1. PICK c \in {EmptyFile} \cup IF Owned(p) THEN {[EmptyFile EXCEPT !.user = 1],
                                                  [EmptyFile EXCEPT !.own = "changed"]}
                                             ELSE {Malformed} :
               files' = [files EXCEPT ![p] = c]
    BY <1>2 DEF Spoil
  <2>2. touched' = touched \cup {p}
    BY <1>2 DEF Spoil
  <2>3. c \in Contents(p)
    <3>1. CASE Owned(p)
      BY <2>1, <3>1 DEF Contents, EmptyFile
    <3>2. CASE ~Owned(p)
      BY <2>1, <3>2 DEF Contents, EmptyFile, Malformed, Owned
    <3> QED  BY <3>1, <3>2
  <2> QED  BY <2>1, <2>2, <2>3
<1> QED  BY <1>1, <1>2

\* The format of an adapter is fixed, and with it what depends on it.
LEMMA FormatStays ==
  ASSUME format' = format
  PROVE  /\ Paths' = Paths
         /\ \A p : Contents(p)' = Contents(p)
         /\ \A p, c : UserPart(p, c)' = UserPart(p, c)
         /\ \A c : OwnsConfig(c)' = OwnsConfig(c)
         /\ \A p : Owned(p)' = Owned(p)
BY DEF Paths, Contents, UserPart, OwnsConfig, Owned, Absent, EmptyFile, Malformed

\* The next change to write is one of the plan that is not written.
LEMMA FirstIsPending ==
  ASSUME ChangesInv, Pending # {}
  PROVE  /\ Earliest \in DOMAIN plan /\ Earliest \notin ToSet(applied)
         /\ Earliest \in Nat
<1>1. Pending \subseteq DOMAIN plan
  BY DEF Pending
<1>2. Pending \subseteq 1..3
  <2>1. plan \in Seq(Changes)
    BY DEF ChangesInv
  <2>2. DOMAIN plan = 1..Len(plan) /\ Len(plan) \in Nat
    BY <2>1
  <2>3. Len(plan) <= Len(Paths)
    BY DEF ChangesInv
  <2>4. Len(Paths) \in {2, 3}
    BY PathsAreDistinct
  <2>5. Len(plan) \in 0..3
    <3> DEFINE n == Len(plan)  m == Len(Paths)
    <3>1. n \in Nat /\ n <= m /\ m \in {2, 3}
      BY <2>2, <2>3, <2>4
    <3> HIDE DEF n, m
    <3>2. n \in 0..3
      BY <3>1
    <3> QED  BY <3>2 DEF n
  <2> QED  BY <1>1, <2>2, <2>5
<1>3. \E i \in Pending : \A j \in Pending : i <= j
  <2>1. CASE 1 \in Pending
    BY <1>2, <2>1
  <2>2. CASE 1 \notin Pending /\ 2 \in Pending
    BY <1>2, <2>2
  <2>3. CASE 1 \notin Pending /\ 2 \notin Pending
    <3>1. \A i \in Pending : i = 3
      BY <1>2, <2>3
    <3> QED  BY <3>1
  <2> QED  BY <2>1, <2>2, <2>3
<1>4. Earliest \in Pending
  BY <1>3 DEF Earliest
<1> QED  BY <1>1, <1>2, <1>4 DEF Pending

\* The change undone is the last one written, and no other is forgotten.
LEMMA LastIsUndone ==
  ASSUME AppliedInv, applied # <<>>
  PROVE  /\ Front(applied) \in Seq(Nat)
         /\ ToSet(Front(applied)) = ToSet(applied) \ {Last(applied)}
         /\ \A j, k \in DOMAIN Front(applied) : Front(applied)[j] = Front(applied)[k] => j = k
         /\ Last(applied) \in DOMAIN plan /\ Last(applied) \in ToSet(applied)
<1> DEFINE n == Len(applied)
<1>1. /\ applied \in Seq(Nat) /\ n \in Nat /\ n > 0 /\ DOMAIN applied = 1..n
      /\ \A j, k \in 1..n : applied[j] = applied[k] => j = k
  BY DEF AppliedInv
<1>2. /\ Front(applied) \in Seq(Nat) /\ DOMAIN Front(applied) = 1..(n - 1)
      /\ \A j \in 1..(n - 1) : Front(applied)[j] = applied[j]
  BY <1>1 DEF Front
<1>3. Last(applied) = applied[n] /\ n \in 1..n
  BY <1>1 DEF Last
<1>4. 1..n = 1..(n - 1) \cup {n} /\ n \notin 1..(n - 1)
  BY <1>1
<1>5. /\ ToSet(applied) = {applied[j] : j \in 1..n}
      /\ ToSet(Front(applied)) = {applied[j] : j \in 1..(n - 1)}
  <2>1. ToSet(applied) = {applied[j] : j \in DOMAIN applied}
    BY DEF ToSet
  <2>2. ToSet(Front(applied)) = {Front(applied)[j] : j \in DOMAIN Front(applied)}
    BY DEF ToSet
  <2>3. ToSet(applied) = {applied[j] : j \in 1..n}
    BY <1>1, <2>1
  <2>4. {Front(applied)[j] : j \in 1..(n - 1)} = {applied[j] : j \in 1..(n - 1)}
    BY <1>2
  <2> QED  BY <1>2, <2>2, <2>3, <2>4
<1>6. ToSet(Front(applied)) = ToSet(applied) \ {Last(applied)}
  BY <1>1, <1>3, <1>4, <1>5
<1>7. \A j, k \in DOMAIN Front(applied) : Front(applied)[j] = Front(applied)[k] => j = k
  <2>1. 1..(n - 1) \subseteq 1..n
    BY <1>1
  <2> QED  BY <1>1, <1>2, <2>1
<1>8. Last(applied) \in DOMAIN plan /\ Last(applied) \in ToSet(applied)
  BY <1>3, <1>5 DEF AppliedInv
<1> QED  BY <1>2, <1>6, <1>7, <1>8

\* A file is set to a text that it may hold.
LEMMA FileIsSet ==
  ASSUME AdapterTypeOK, NEW p \in ToSet(Paths), NEW c \in Contents(p),
         files' = [files EXCEPT ![p] = c]
  PROVE  /\ files' \in [Names -> Texts]
         /\ \A q \in ToSet(Paths) : files'[q] \in Contents(q)
<1>1. p \in Names /\ ToSet(Paths) \subseteq Names
  BY PathsAreDistinct
<1>2. c \in Texts
  BY <1>1, ContentsAreTexts
<1> QED  BY <1>1, <1>2 DEF AdapterTypeOK

\* A torn write touches its file alone.
LEMMA FileIsSpoiled ==
  ASSUME AdapterTypeOK, NEW p \in ToSet(Paths), Spoil(p)
  PROVE  /\ files' \in [Names -> Texts]
         /\ \A q \in ToSet(Paths) : files'[q] \in Contents(q)
         /\ touched \subseteq touched'
         /\ \A q \in Names \ touched' : files'[q] = files[q]
<1>1. p \in Names /\ ToSet(Paths) \subseteq Names
  BY PathsAreDistinct
<1>2. files = [q \in Names |-> files[q]] /\ files[p] \in Contents(p)
  BY DEF AdapterTypeOK
<1>3. /\ files' = [files EXCEPT ![p] = files'[p]] /\ files'[p] \in Contents(p)
      /\ touched \subseteq touched' /\ (files' = files \/ p \in touched')
  BY <1>1, <1>2, SpoiledText
<1>4. \A q \in Names \ touched' : files'[q] = files[q]
  BY <1>1, <1>2, <1>3
<1>5. \A c \in Contents(p) : files' = [files EXCEPT ![p] = c] =>
         /\ files' \in [Names -> Texts]
         /\ \A q \in ToSet(Paths) : files'[q] \in Contents(q)
  BY FileIsSet
<1> QED  BY <1>3, <1>4, <1>5

\* What keeps the types, the plan and the changes written.
LEMMA TypesStay ==
  ASSUME format' = format, format \in Formats, at' \in Places,
         intent' \in {"install", "uninstall"}, reversed' \in BOOLEAN,
         files' \in [Names -> Texts], \A p \in ToSet(Paths) : files'[p] \in Contents(p),
         mine' = [p \in Names |-> mine'[p]], original' = [p \in Names |-> original'[p]]
  PROVE  AdapterTypeOK'
BY FormatStays DEF AdapterTypeOK

LEMMA ChangesStay ==
  ASSUME ChangesInv, format' = format, intent' = intent, plan' = plan
  PROVE  ChangesInv'
BY FormatStays DEF ChangesInv, Decided

LEMMA NoChanges ==
  ASSUME format' = format, plan' = <<>>
  PROVE  ChangesInv'
<1>1. Paths' = Paths /\ Len(Paths) \in {2, 3}
  BY FormatStays, PathsAreDistinct
<1>2. Len(plan') = 0 /\ DOMAIN plan' = {} /\ plan' \in Seq(Changes)
  OBVIOUS
<1> QED  BY <1>1, <1>2 DEF ChangesInv

LEMMA NothingApplied ==
  ASSUME applied' = <<>>,
         \/ at' \in {"idle", "plan"}
         \/ plan' = plan /\ Paths' = Paths /\ Len(plan) = Len(Paths)
  PROVE  AppliedInv'
<1>1. applied' \in Seq(Nat) /\ DOMAIN applied' = {} /\ ToSet(applied') = {}
  BY DEF ToSet
<1> QED  BY <1>1 DEF AppliedInv

\* Every change is of a file of its own.
LEMMA PlannedPath ==
  ASSUME AdapterTypeOK, ChangesInv, NEW i \in DOMAIN plan
  PROVE  /\ plan[i].path = Paths[i] /\ plan[i].path \in ToSet(Paths) /\ plan[i].path \in Names
         /\ plan[i].before \in Contents(plan[i].path) /\ plan[i].after \in Contents(plan[i].path)
         /\ \A j \in DOMAIN plan : plan[i].path = plan[j].path => i = j
<1>1. /\ DOMAIN plan = 1..Len(plan) /\ Len(plan) \in Nat
      /\ Len(plan) <= Len(Paths) /\ Len(Paths) \in {2, 3}
  BY PathsAreDistinct DEF ChangesInv
<1>2. \A j \in DOMAIN plan : j \in 1..Len(Paths) /\ plan[j].path = Paths[j]
  <2>1. \A j \in DOMAIN plan : plan[j].path = Paths[j]
    BY DEF ChangesInv, Decided
  <2>2. \A j \in 1..Len(plan) : j \in 1..Len(Paths)
    BY <1>1
  <2> QED  BY <1>1, <2>1, <2>2
<1>3. plan[i].path \in ToSet(Paths) /\ plan[i].path \in Names
  BY <1>2, PathsAreDistinct
<1>4. \A j \in DOMAIN plan : plan[i].path = plan[j].path => i = j
  BY <1>2, PathsAreDistinct
<1> QED  BY <1>2, <1>3, <1>4 DEF ChangesInv, Decided

\* Types, plan and written changes, action by action.
LEMMA StructureKept ==
  ASSUME AdapterTypeOK, ChangesInv, AppliedInv, AdapterNext
  PROVE  AdapterTypeOK' /\ ChangesInv' /\ AppliedInv'
<1> USE DEF Places
<1>0. format' = format /\ format \in Formats /\ Paths' = Paths
  <2>1. format' = format
    BY DEF AdapterNext, BeginCommand, PlanFile, PlanReady, WriteFile, WriteFails, Undo, UndoFails,
           Undone, Applied, Validate, Inspect, Die, Edit
  <2> QED  BY <2>1, FormatStays DEF AdapterTypeOK
<1>1. CASE BeginCommand
  <2>1. plan' = <<>> /\ applied' = <<>> /\ at' = "plan" /\ files' = files
    BY <1>1 DEF BeginCommand
  <2>2. AdapterTypeOK'
    BY <1>0, <1>1, TypesStay DEF AdapterTypeOK, BeginCommand
  <2> QED  BY <1>0, <2>1, <2>2, NoChanges, NothingApplied
<1>2. CASE PlanFile
  <2> DEFINE n == Len(plan)
             p == Paths[n + 1]
             change == [path |-> p, before |-> files[p],
                        after |-> MutateConfig(p, files[p], intent)]
  <2>1. /\ applied' = <<>> /\ files' = files /\ intent' = intent /\ at' \in {"idle", "plan"}
    BY <1>2 DEF PlanFile, Finish, AppliedInv
  <2>2. AdapterTypeOK'
    BY <1>0, <1>2, <2>1, TypesStay DEF AdapterTypeOK, PlanFile
  <2>3. CASE plan' = <<>>
    BY <1>0, <2>1, <2>2, <2>3, NoChanges, NothingApplied
  <2>4. CASE plan' # <<>>
    <3>1. change.after # Conflict /\ plan' = Append(plan, change)
      BY <1>2, <2>4 DEF PlanFile, Finish
    <3>2. n \in Nat /\ n < Len(Paths) /\ Len(Paths) \in {2, 3} /\ n + 1 \in 1..Len(Paths)
      BY <1>2, PathsAreDistinct DEF PlanFile, ChangesInv
    <3>3. p \in ToSet(Paths) /\ p \in Names /\ files[p] \in Contents(p)
      BY <3>2, PathsAreDistinct DEF AdapterTypeOK
    <3>4. Decided(p, change)
      <4>1. intent \in {"install", "uninstall"}
        BY DEF AdapterTypeOK
      <4> QED  BY <1>0, <3>1, <3>3, <4>1, Mutation DEF Decided
    <3>5. change \in Changes
      BY <3>3, <3>4, ContentsAreTexts DEF Decided, Changes
    <3> HIDE DEF change
    <3>6. /\ plan' \in Seq(Changes)
          /\ Len(plan') = n + 1 /\ DOMAIN plan' = 1..(n + 1) /\ plan'[n + 1] = change
          /\ \A i \in 1..n : plan'[i] = plan[i] /\ i \in DOMAIN plan
      BY <3>1, <3>5 DEF ChangesInv
    <3>7. \A i \in DOMAIN plan' : Decided(Paths[i], plan'[i])
      <4>1. \A i \in DOMAIN plan' : i \in 1..n \/ i = n + 1
        BY <3>2, <3>6
      <4> QED  BY <3>4, <3>6, <4>1 DEF ChangesInv
    <3>8. ChangesInv'
      <4>1. plan' \in Seq(Changes) /\ Len(plan') <= Len(Paths')
        BY <1>0, <3>2, <3>6
      <4>2. (\A i \in DOMAIN plan : Decided(Paths[i], plan[i]))'
        BY <1>0, <2>1, <3>7, FormatStays DEF Decided
      <4> QED  BY <4>1, <4>2 DEF ChangesInv
    <3> QED  BY <2>1, <2>2, <3>8, NothingApplied
  <2> QED  BY <2>3, <2>4
<1>3. CASE PlanReady
  <2>1. AdapterTypeOK'
    BY <1>0, <1>3, TypesStay DEF AdapterTypeOK, PlanReady, Finish
  <2>2. ChangesInv'
    BY <1>3, ChangesStay DEF PlanReady
  <2> QED  BY <1>0, <1>3, <2>1, <2>2, NothingApplied DEF PlanReady, Finish, AppliedInv
<1>4. CASE WriteFile
  <2>1. /\ Earliest \in DOMAIN plan /\ Earliest \notin ToSet(applied) /\ Earliest \in Nat
    BY <1>4, FirstIsPending DEF WriteFile
  <2>2. AdapterTypeOK'
    <3>1. /\ Target(plan[Earliest]) \in Contents(plan[Earliest].path)
          /\ plan[Earliest].path \in ToSet(Paths)
      BY <2>1, PlannedPath DEF Target
    <3>2. files' = [files EXCEPT ![plan[Earliest].path] = Target(plan[Earliest])]
      BY <1>4 DEF WriteFile
    <3>3. files' \in [Names -> Texts] /\ \A q \in ToSet(Paths) : files'[q] \in Contents(q)
      BY <3>1, <3>2, FileIsSet
    <3> QED  BY <1>0, <1>4, <3>3, TypesStay DEF AdapterTypeOK, WriteFile
  <2>3. ChangesInv'
    BY <1>4, ChangesStay DEF WriteFile
  <2>4. AppliedInv'
    <3> DEFINE e == Earliest  n == Len(applied)
    <3>1. applied' = Append(applied, e) /\ plan' = plan /\ at' = "apply" /\ Len(plan) = Len(Paths)
      BY <1>4 DEF WriteFile, AppliedInv
    <3> HIDE DEF e
    <3>2. /\ applied' \in Seq(Nat) /\ n \in Nat /\ DOMAIN applied' = 1..(n + 1)
          /\ applied'[n + 1] = e /\ DOMAIN applied = 1..n
          /\ \A j \in 1..n : applied'[j] = applied[j]
      BY <2>1, <3>1 DEF AppliedInv, e
    <3>3. \A j \in 1..n : applied[j] \in ToSet(applied)
      BY <3>2 DEF ToSet
    <3>4. \A j \in 1..(n + 1) : j \in 1..n \/ j = n + 1
      BY <3>2
    <3>5. \A j, k \in DOMAIN applied' : applied'[j] = applied'[k] => j = k
      BY <2>1, <3>2, <3>3, <3>4 DEF AppliedInv, e
    <3>6. ToSet(applied') \subseteq DOMAIN plan
      <4>1. ToSet(applied') = {applied'[j] : j \in DOMAIN applied'}
        BY DEF ToSet
      <4> QED  BY <2>1, <3>2, <3>3, <3>4, <4>1 DEF AppliedInv, e
    <3> QED  BY <1>0, <3>1, <3>2, <3>5, <3>6 DEF AppliedInv
  <2> QED  BY <2>2, <2>3, <2>4
<1>5. CASE WriteFails
  <2>1. Earliest \in DOMAIN plan
    BY <1>5, FirstIsPending DEF WriteFails
  <2>2. plan[Earliest].path \in ToSet(Paths) /\ Spoil(plan[Earliest].path)
    BY <1>5, <2>1, PlannedPath DEF WriteFails
  <2>3. files' \in [Names -> Texts] /\ \A q \in ToSet(Paths) : files'[q] \in Contents(q)
    BY <2>2, FileIsSpoiled
  <2>4. AdapterTypeOK'
    BY <1>0, <1>5, <2>3, TypesStay DEF AdapterTypeOK, WriteFails
  <2>5. ChangesInv'
    BY <1>5, ChangesStay DEF WriteFails
  <2> QED  BY <1>0, <1>5, <2>4, <2>5 DEF AppliedInv, WriteFails
<1>6. CASE Undo
  <2> DEFINE l == Last(applied)
  <2>1. /\ applied' = Front(applied) /\ applied' \in Seq(Nat) /\ l \in DOMAIN plan
        /\ ToSet(applied') \subseteq ToSet(applied)
        /\ \A j, k \in DOMAIN applied' : applied'[j] = applied'[k] => j = k
    BY <1>6, LastIsUndone DEF Undo, AfterUndo
  <2>2. Source(plan[l]) \in Contents(plan[l].path) /\ plan[l].path \in ToSet(Paths)
    BY <2>1, PlannedPath DEF Source
  <2>3. files' = [files EXCEPT ![plan[l].path] = Source(plan[l])]
    BY <1>6 DEF Undo
  <2>4. files' \in [Names -> Texts] /\ \A q \in ToSet(Paths) : files'[q] \in Contents(q)
    BY <2>2, <2>3, FileIsSet
  <2>5. AdapterTypeOK'
    BY <1>0, <1>6, <2>4, TypesStay DEF AdapterTypeOK, Undo
  <2>6. ChangesInv'
    BY <1>6, ChangesStay DEF Undo
  <2> QED  BY <1>0, <1>6, <2>1, <2>5, <2>6 DEF AppliedInv, Undo
<1>7. CASE UndoFails
  <2>1. Last(applied) \in DOMAIN plan
    BY <1>7, LastIsUndone DEF UndoFails
  <2>2. plan[Last(applied)].path \in ToSet(Paths) /\ Spoil(plan[Last(applied)].path)
    BY <1>7, <2>1, PlannedPath DEF UndoFails
  <2>3. files' \in [Names -> Texts] /\ \A q \in ToSet(Paths) : files'[q] \in Contents(q)
    BY <2>2, FileIsSpoiled
  <2>4. AdapterTypeOK'
    BY <1>0, <1>7, <2>3, TypesStay DEF AdapterTypeOK, UndoFails, Finish
  <2>5. ChangesInv'
    BY <1>7, ChangesStay DEF UndoFails
  <2> QED  BY <1>0, <1>7, <2>4, <2>5 DEF AppliedInv, UndoFails, Finish
<1>8. CASE Undone \/ Applied \/ Inspect
  <2>1. AdapterTypeOK'
    BY <1>0, <1>8, TypesStay DEF AdapterTypeOK, Undone, Applied, Inspect, Finish
  <2>2. ChangesInv'
    BY <1>8, ChangesStay DEF Undone, Applied, Inspect
  <2> QED  BY <1>0, <1>8, <2>1, <2>2 DEF AppliedInv, Undone, Applied, Inspect, Finish
<1>9. CASE Validate
  <2>1. AdapterTypeOK'
    BY <1>0, <1>9, TypesStay DEF AdapterTypeOK, Validate
  <2>2. ChangesInv'
    BY <1>9, ChangesStay DEF Validate
  <2>3. AppliedInv'
    <3>1. CASE applied' = <<>>
      BY <1>0, <1>9, <3>1, NothingApplied DEF AppliedInv, Validate
    <3>2. CASE applied' # <<>>
      BY <1>0, <1>9, <3>2 DEF AppliedInv, Validate
    <3> QED  BY <3>1, <3>2
  <2> QED  BY <2>1, <2>2, <2>3
<1>10. CASE Die
  <2>1. files' \in [Names -> Texts] /\ \A q \in ToSet(Paths) : files'[q] \in Contents(q)
    <3>1. CASE UNCHANGED <<files, touched>>
      BY <3>1 DEF AdapterTypeOK
    <3>2. CASE at = "apply" /\ Pending # {} /\ Spoil(plan[Earliest].path)
      BY <3>2, FirstIsPending, PlannedPath, FileIsSpoiled
    <3>3. CASE at = "undo" /\ applied # <<>> /\ Spoil(plan[Last(applied)].path)
      BY <3>3, LastIsUndone, PlannedPath, FileIsSpoiled
    <3> QED  BY <1>10, <3>1, <3>2, <3>3 DEF Die
  <2>2. AdapterTypeOK'
    BY <1>0, <1>10, <2>1, TypesStay DEF AdapterTypeOK, Die, Finish
  <2>3. ChangesInv'
    BY <1>10, ChangesStay DEF Die
  <2> QED  BY <1>0, <1>10, <2>2, <2>3 DEF AppliedInv, Die, Finish
<1>11. CASE Edit
  <2>1. PICK p \in ToSet(Paths) : \E c \in Contents(p) :
          /\ files' = [files EXCEPT ![p] = c]
          /\ mine' = [mine EXCEPT ![p] = UserPart(p, c)]
          /\ original' = [original EXCEPT ![p] = c]
    BY <1>11 DEF Edit
  <2>2. files' \in [Names -> Texts] /\ \A q \in ToSet(Paths) : files'[q] \in Contents(q)
    BY <2>1, FileIsSet
  <2>3. mine' = [q \in Names |-> mine'[q]] /\ original' = [q \in Names |-> original'[q]]
    BY <2>1 DEF AdapterTypeOK
  <2>4. AdapterTypeOK'
    BY <1>0, <1>11, <2>2, <2>3, TypesStay DEF AdapterTypeOK, Edit
  <2>5. ChangesInv'
    BY <1>11, ChangesStay DEF Edit
  <2> QED  BY <1>0, <1>11, <2>4, <2>5 DEF AppliedInv, Edit
<1> QED  BY <1>1, <1>2, <1>3, <1>4, <1>5, <1>6, <1>7, <1>8, <1>9, <1>10, <1>11 DEF AdapterNext

\* A whole plan has every file.
LEMMA PlanCoversPaths ==
  ASSUME AdapterTypeOK, ChangesInv, Len(plan) = Len(Paths)
  PROVE  /\ \A p \in ToSet(Paths) : \E i \in DOMAIN plan : plan[i].path = p
         /\ 1 \in DOMAIN plan /\ plan[1].path = "config"
         /\ OwnsConfig(plan[1].after) = (intent = "install")
<1>1. DOMAIN plan = 1..Len(Paths) /\ Len(Paths) \in {2, 3}
  BY PathsAreDistinct DEF ChangesInv
<1>2. \A i \in DOMAIN plan : plan[i].path = Paths[i]
  BY PlannedPath
<1>3. \A p \in ToSet(Paths) : \E i \in DOMAIN plan : plan[i].path = p
  BY <1>1, <1>2, PathsAreDistinct
<1>4. 1 \in DOMAIN plan /\ plan[1].path = "config"
  BY <1>1, <1>2, PathsAreDistinct
<1> QED  BY <1>3, <1>4, PathsAreDistinct DEF ChangesInv, Decided

\* Either text of a change keeps what is the user's.
LEMMA PlannedPart ==
  ASSUME AdapterInv, at # "idle", NEW i \in DOMAIN plan, plan[i].path \notin touched
  PROVE  /\ UserPart(plan[i].path, plan[i].before) = mine[plan[i].path]
         /\ UserPart(plan[i].path, plan[i].after) = mine[plan[i].path]
<1>1. plan[i].path = Paths[i] /\ plan[i].path \in ToSet(Paths)
  BY PlannedPath DEF AdapterInv
<1>2. plan[i].before = original[plan[i].path]
  BY DEF AdapterInv, Expected
<1>3. UserPart(plan[i].path, plan[i].after) = UserPart(plan[i].path, plan[i].before)
  BY <1>1 DEF AdapterInv, ChangesInv, Decided
<1> QED  BY <1>1, <1>2, <1>3 DEF AdapterInv

\* What the plan says of the files, action by action.
LEMMA ExpectedKept ==
  ASSUME AdapterInv, AdapterNext, AdapterTypeOK', ChangesInv', AppliedInv'
  PROVE  Expected'
<1>0. format' = format /\ Paths' = Paths
  <2>1. format' = format
    BY DEF AdapterNext, BeginCommand, PlanFile, PlanReady, WriteFile, WriteFails, Undo, UndoFails,
           Undone, Applied, Validate, Inspect, Die, Edit
  <2> QED  BY <2>1, FormatStays
<1>a. AdapterTypeOK /\ ChangesInv /\ AppliedInv /\ Expected
  BY DEF AdapterInv
<1>1. CASE BeginCommand
  <2>1. plan' = <<>> /\ DOMAIN plan' = {}
    BY <1>1 DEF BeginCommand
  <2> QED  BY <1>1, <2>1 DEF Expected, BeginCommand
<1>2. CASE PlanFile
  <2>1. at = "plan" /\ UNCHANGED <<files, original, touched, reversed>>
    BY <1>2 DEF PlanFile
  <2>2. CASE at' = "idle" /\ plan' = <<>>
    <3>1. DOMAIN plan' = {}
      BY <2>2
    <3> QED  BY <2>2, <3>1 DEF Expected
  <2>3. CASE ~(at' = "idle" /\ plan' = <<>>)
    <3> DEFINE n == Len(plan)  p == Paths[n + 1]
    <3>1. /\ n < Len(Paths) /\ at' = at /\ outcome' = outcome
          /\ plan' = Append(plan, [path |-> p, before |-> files[p],
                                   after |-> MutateConfig(p, files[p], intent)])
      BY <1>2, <2>3 DEF PlanFile, Finish
    <3>2. n \in Nat /\ Len(Paths) \in {2, 3} /\ n + 1 \in 1..Len(Paths) /\ DOMAIN plan = 1..n
      BY <3>1, PathsAreDistinct, <1>a DEF ChangesInv
    <3>3. p \in ToSet(Paths)
      BY <3>2, PathsAreDistinct
    <3>4. /\ DOMAIN plan' = 1..(n + 1) /\ plan'[n + 1].path = p /\ plan'[n + 1].before = files[p]
          /\ \A i \in 1..n : plan'[i] = plan[i]
      BY <3>1, <3>2, <1>a DEF ChangesInv
    <3>5. \A i \in DOMAIN plan' :
             plan'[i].path \notin touched => plan'[i].before = original[plan'[i].path]
      <4>1. \A i \in DOMAIN plan' : i \in 1..n \/ i = n + 1
        BY <3>2, <3>4
      <4> QED  BY <1>a, <2>1, <3>2, <3>3, <3>4, <4>1 DEF Expected
    <3> QED  BY <1>0, <1>a, <2>1, <3>1, <3>5 DEF Expected
  <2> QED  BY <2>2, <2>3
<1>3. CASE PlanReady
  <2>1. CASE at' = "apply"
    <3>1. \A i \in DOMAIN plan : plan[i].path \notin touched => files[plan[i].path] = plan[i].before
      BY <1>3, <1>a, PlannedPath DEF Expected, PlanReady
    <3>2. ToSet(applied') = {} /\ ~reversed'
      BY <1>3, <1>a DEF PlanReady, AppliedInv, Expected, ToSet
    <3>3. UNCHANGED <<files, plan, touched, original, outcome>> /\ at = "plan"
      BY <1>3, <2>1 DEF PlanReady, Finish
    <3>4. \A i \in DOMAIN plan : Stands(i)' = plan[i].before
      BY <3>2, <3>3 DEF Stands, Source
    <3>5. \A i \in DOMAIN plan' : plan'[i].path \notin touched' =>
             /\ plan'[i].before = original'[plan'[i].path]
             /\ files'[plan'[i].path] = Stands(i)'
      BY <1>a, <3>1, <3>3, <3>4 DEF Expected
    <3> QED  BY <1>a, <2>1, <3>3, <3>5 DEF Expected
  <2>2. CASE at' = "idle"
    BY <2>2 DEF Expected
  <2> QED  BY <1>3, <2>1, <2>2 DEF PlanReady, Finish
<1>4. CASE WriteFile
  <2> DEFINE e == Earliest
  <2>1. e \in DOMAIN plan /\ e \notin ToSet(applied) /\ e \in Nat
    BY <1>4, <1>a, FirstIsPending DEF WriteFile
  <2>2. files' = [files EXCEPT ![plan[e].path] = Target(plan[e])] /\ applied' = Append(applied, e)
    BY <1>4 DEF WriteFile
  <2> HIDE DEF e
  <2>3. ToSet(applied') = ToSet(applied) \cup {e}
    <3> DEFINE n == Len(applied)
    <3>1. /\ n \in Nat /\ DOMAIN applied = 1..n /\ DOMAIN applied' = 1..(n + 1)
          /\ applied'[n + 1] = e /\ \A j \in 1..n : applied'[j] = applied[j]
      BY <1>a, <2>1, <2>2 DEF AppliedInv
    <3>2. 1..(n + 1) = 1..n \cup {n + 1}
      BY <3>1
    <3>3. /\ ToSet(applied) = {applied[j] : j \in 1..n}
          /\ ToSet(applied') = {applied'[j] : j \in 1..(n + 1)}
      BY <3>1 DEF ToSet
    <3> QED  BY <3>1, <3>2, <3>3
  <2>4. \A i \in DOMAIN plan : plan[i].path \notin touched =>
           files'[plan[i].path] = IF i \in ToSet(applied') THEN Target(plan[i]) ELSE Source(plan[i])
    <3> TAKE i \in DOMAIN plan
    <3> HAVE plan[i].path \notin touched
    <3>1. CASE i = e
      BY <1>a, <2>1, <2>2, <2>3, <3>1, PlannedPath DEF AdapterTypeOK
    <3>2. CASE i # e
      <4>1. plan[i].path # plan[e].path /\ plan[i].path \in Names
        BY <1>a, <2>1, <3>2, PlannedPath
      <4>2. files[plan[i].path] = Stands(i)
        BY <1>4, <1>a DEF Expected, WriteFile
      <4> QED  BY <1>a, <2>2, <2>3, <3>2, <4>1, <4>2 DEF AdapterTypeOK, Stands
    <3> QED  BY <3>1, <3>2
  <2> QED  BY <1>4, <1>a, <2>4 DEF Expected, WriteFile, Stands, Target, Source
<1>5. CASE WriteFails
  <2>1. Earliest \in DOMAIN plan /\ Spoil(plan[Earliest].path)
    BY <1>5, <1>a, FirstIsPending DEF WriteFails
  <2>2. touched \subseteq touched' /\ \A q \in Names \ touched' : files'[q] = files[q]
    BY <1>a, <2>1, PlannedPath, FileIsSpoiled
  <2>3. \A i \in DOMAIN plan : plan[i].path \notin touched' =>
           plan[i].path \notin touched /\ files'[plan[i].path] = files[plan[i].path]
    BY <1>a, <2>2, PlannedPath
  <2> QED  BY <1>5, <1>a, <2>3 DEF Expected, WriteFails, Stands, Target, Source
<1>6. CASE Undo
  <2> DEFINE l == Last(applied)
  <2>1. l \in DOMAIN plan /\ l \in ToSet(applied) /\ ToSet(applied') = ToSet(applied) \ {l}
    BY <1>6, <1>a, LastIsUndone DEF Undo, AfterUndo
  <2>2. files' = [files EXCEPT ![plan[l].path] = Source(plan[l])]
    BY <1>6 DEF Undo
  <2> HIDE DEF l
  <2>4. \A i \in DOMAIN plan : plan[i].path \notin touched =>
           files'[plan[i].path] = IF i \in ToSet(applied') THEN Target(plan[i]) ELSE Source(plan[i])
    <3> TAKE i \in DOMAIN plan
    <3> HAVE plan[i].path \notin touched
    <3>1. CASE i = l
      BY <1>a, <2>1, <2>2, <3>1, PlannedPath DEF AdapterTypeOK
    <3>2. CASE i # l
      <4>1. plan[i].path # plan[l].path /\ plan[i].path \in Names
        BY <1>a, <2>1, <3>2, PlannedPath
      <4>2. files[plan[i].path] = Stands(i)
        BY <1>6, <1>a DEF Expected, Undo
      <4> QED  BY <1>a, <2>1, <2>2, <3>2, <4>1, <4>2 DEF AdapterTypeOK, Stands
    <3> QED  BY <3>1, <3>2
  <2> QED  BY <1>6, <1>a, <2>4 DEF Expected, Undo, Stands, Target, Source
<1>7. CASE UndoFails \/ Undone \/ Inspect \/ Die
  <2>1. at' \in {"idle", "inspect"} /\ at' # "inspect"
    BY <1>7 DEF UndoFails, Undone, Inspect, Die, Finish
  <2> QED  BY <2>1 DEF Expected
<1>8. CASE Applied
  <2>1. CASE at' = "idle"
    BY <2>1 DEF Expected
  <2>2. CASE at' # "idle"
    <3>1. /\ ~reversed /\ at' \in {"validate", "inspect"}
          /\ UNCHANGED <<files, plan, reversed, outcome, touched, original>>
      BY <1>8, <2>2 DEF Applied, Finish
    <3>2. \A i \in DOMAIN plan : plan[i].path \notin touched => files[plan[i].path] = plan[i].after
      BY <1>8, <1>a, <3>1 DEF Expected, Applied, Pending, Stands, Target, Source
    <3> QED  BY <1>8, <1>a, <3>1, <3>2 DEF Expected, Applied
  <2> QED  BY <2>1, <2>2
<1>9. CASE Validate
  <2>1. CASE at' = "inspect"
    BY <1>9, <1>a, <2>1 DEF Expected, Validate
  <2>2. CASE at' = "apply"
    <3>1. ToSet(applied') = {} /\ reversed'
      BY <1>9, <2>2 DEF Validate, ToSet
    <3> QED  BY <1>9, <1>a, <2>2, <3>1 DEF Expected, Validate, Stands, Source
  <2> QED  BY <1>9, <2>1, <2>2 DEF Validate
<1>10. CASE Edit
  <2>1. PICK p \in ToSet(Paths) : \E c \in Contents(p) :
          /\ files' = [files EXCEPT ![p] = c]
          /\ original' = [original EXCEPT ![p] = c]
          /\ touched' = IF at # "idle" /\ \E i \in DOMAIN plan : plan[i].path = p
                        THEN touched \cup {p} ELSE touched
    BY <1>10 DEF Edit
  <2>11. PICK c \in Contents(p) :
          /\ files' = [files EXCEPT ![p] = c]
          /\ original' = [original EXCEPT ![p] = c]
          /\ touched' = IF at # "idle" /\ \E i \in DOMAIN plan : plan[i].path = p
                        THEN touched \cup {p} ELSE touched
    BY <2>1
  <2>2. /\ UNCHANGED <<at, plan, applied, reversed>> /\ outcome' = "none"
    BY <1>10 DEF Edit
  <2>3. p \in Names /\ ToSet(Paths) \subseteq Names
    BY PathsAreDistinct
  <2>4. \A q \in Names : q # p => files'[q] = files[q] /\ original'[q] = original[q]
    BY <1>a, <2>11 DEF AdapterTypeOK
  <2>5. files'[p] = c /\ original'[p] = c
    BY <1>a, <2>11, <2>3 DEF AdapterTypeOK
  <2>6. CASE at = "idle"
    BY <2>2, <2>6 DEF Expected
  <2>7. CASE at # "idle"
    <3>1. \A i \in DOMAIN plan : plan[i].path \notin touched' =>
             plan[i].path \notin touched /\ plan[i].path # p /\ plan[i].path \in Names
      BY <1>a, <2>11, <2>7, PlannedPath
    <3>2. touched \subseteq touched'
      BY <2>11
    <3>3. at = "plan" => \A q \in ToSet(Paths) \ touched' : files'[q] = original'[q]
      BY <1>a, <2>3, <2>4, <2>5, <3>2 DEF Expected
    <3> QED  BY <1>0, <1>a, <2>2, <2>4, <2>7, <3>1, <3>3 DEF Expected, Stands, Target, Source
  <2> QED  BY <2>6, <2>7
<1> QED  BY <1>1, <1>2, <1>3, <1>4, <1>5, <1>6, <1>7, <1>8, <1>9, <1>10 DEF AdapterNext

\* What is the user's, action by action.
LEMMA UserPartStays ==
  ASSUME AdapterInv, AdapterNext
  PROVE  /\ UserPartKept'
         /\ (\A p \in ToSet(Paths) : mine[p] = UserPart(p, original[p]))'
<1>0. format' = format /\ Paths' = Paths
  <2>1. format' = format
    BY DEF AdapterNext, BeginCommand, PlanFile, PlanReady, WriteFile, WriteFails, Undo, UndoFails,
           Undone, Applied, Validate, Inspect, Die, Edit
  <2> QED  BY <2>1, FormatStays
<1>a. /\ AdapterTypeOK /\ ChangesInv /\ AppliedInv /\ Expected /\ UserPartKept
      /\ \A p \in ToSet(Paths) : mine[p] = UserPart(p, original[p])
      /\ ToSet(Paths) \subseteq Names
  BY PathsAreDistinct DEF AdapterInv
<1>1. CASE BeginCommand
  <2>1. DOMAIN files = Names
    BY <1>a DEF AdapterTypeOK
  <2>2. \A p \in Names : mine'[p] = UserPart(p, files[p])
    BY <1>1, <2>1 DEF BeginCommand
  <2>3. files' = files /\ original' = files
    BY <1>1 DEF BeginCommand
  <2> QED  BY <1>0, <1>a, <2>2, <2>3, FormatStays DEF UserPartKept
<1>2. CASE PlanFile \/ PlanReady \/ Undone \/ Applied \/ Validate \/ Inspect
  <2>1. UNCHANGED <<files, mine, touched, original>>
    BY <1>2 DEF PlanFile, PlanReady, Undone, Applied, Validate, Inspect
  <2> QED  BY <1>0, <1>a, <2>1, FormatStays DEF UserPartKept
<1>3. CASE WriteFile \/ Undo
  <2>1. PICK i \in DOMAIN plan : \E c \in {plan[i].before, plan[i].after} :
           files' = [files EXCEPT ![plan[i].path] = c]
    <3>1. CASE WriteFile
      BY <3>1, <1>a, FirstIsPending DEF WriteFile, Target
    <3>2. CASE Undo
      BY <3>2, <1>a, LastIsUndone DEF Undo, Source
    <3> QED  BY <1>3, <3>1, <3>2
  <2>2. PICK c \in {plan[i].before, plan[i].after} : files' = [files EXCEPT ![plan[i].path] = c]
    BY <2>1
  <2>3. UNCHANGED <<mine, touched, original>> /\ at # "idle"
    BY <1>3 DEF WriteFile, Undo
  <2>4. plan[i].path \notin touched => UserPart(plan[i].path, c) = mine[plan[i].path]
    BY <2>2, <2>3, PlannedPart
  <2>5. \A p \in ToSet(Paths) : files'[p] = IF p = plan[i].path THEN c ELSE files[p]
    BY <1>a, <2>2 DEF AdapterTypeOK
  <2> QED  BY <1>0, <1>a, <2>3, <2>4, <2>5, FormatStays DEF UserPartKept
<1>4. CASE WriteFails \/ UndoFails \/ Die
  <2>1. UNCHANGED <<mine, original>>
    BY <1>4 DEF WriteFails, UndoFails, Die
  <2>2. touched \subseteq touched' /\ \A q \in Names \ touched' : files'[q] = files[q]
    <3>1. CASE UNCHANGED <<files, touched>>
      BY <3>1
    <3>2. CASE Pending # {} /\ Spoil(plan[Earliest].path)
      BY <3>2, <1>a, FirstIsPending, PlannedPath, FileIsSpoiled
    <3>3. CASE applied # <<>> /\ Spoil(plan[Last(applied)].path)
      BY <3>3, <1>a, LastIsUndone, PlannedPath, FileIsSpoiled
    <3> QED  BY <1>4, <3>1, <3>2, <3>3 DEF WriteFails, UndoFails, Die
  <2> QED  BY <1>0, <1>a, <2>1, <2>2, FormatStays DEF UserPartKept
<1>5. CASE Edit
  <2>1. PICK p \in ToSet(Paths) : \E c \in Contents(p) :
          /\ files' = [files EXCEPT ![p] = c]
          /\ mine' = [mine EXCEPT ![p] = UserPart(p, c)]
          /\ original' = [original EXCEPT ![p] = c]
          /\ touched \subseteq touched'
    BY <1>5 DEF Edit
  <2>2. PICK c \in Contents(p) :
          /\ files' = [files EXCEPT ![p] = c]
          /\ mine' = [mine EXCEPT ![p] = UserPart(p, c)]
          /\ original' = [original EXCEPT ![p] = c]
    BY <2>1
  <2>3. \A q \in ToSet(Paths) :
           /\ files'[q] = IF q = p THEN c ELSE files[q]
           /\ original'[q] = IF q = p THEN c ELSE original[q]
           /\ mine'[q] = IF q = p THEN UserPart(p, c) ELSE mine[q]
    BY <1>a, <2>2 DEF AdapterTypeOK
  <2> QED  BY <1>0, <1>a, <2>1, <2>3, FormatStays DEF UserPartKept
<1> QED  BY <1>1, <1>2, <1>3, <1>4, <1>5 DEF AdapterNext

\* What a command reports when it ends.
LEMMA OutcomeIsTrue ==
  ASSUME AdapterInv, AdapterNext
  PROVE  AllOrNothing'
<1>0. format' = format /\ Paths' = Paths
  <2>1. format' = format
    BY DEF AdapterNext, BeginCommand, PlanFile, PlanReady, WriteFile, WriteFails, Undo, UndoFails,
           Undone, Applied, Validate, Inspect, Die, Edit
  <2> QED  BY <2>1, FormatStays
<1>a. /\ AdapterTypeOK /\ ChangesInv /\ AppliedInv /\ Expected /\ AllOrNothing
      /\ at # "idle" => outcome = "none"
  BY DEF AdapterInv, Expected
<1>1. CASE outcome' \in {"none", "died", "broken"}
  BY <1>1 DEF AllOrNothing
<1>2. CASE outcome' \notin {"none", "died", "broken"}
  <2>1. PlanFile \/ PlanReady \/ Undone \/ Applied \/ Inspect
    BY <1>a, <1>2 DEF AdapterNext, BeginCommand, WriteFile, WriteFails, Undo, UndoFails,
           Validate, Die, Edit, Finish
  <2>2. UNCHANGED <<files, original, touched, intent>> /\ at # "idle" /\ outcome = "none"
    BY <1>a, <2>1 DEF PlanFile, PlanReady, Undone, Applied, Inspect
  <2>3. CASE PlanFile \/ PlanReady
    <3>1. outcome' \in {"refused", "preview"} /\ at = "plan"
      BY <1>2, <2>2, <2>3 DEF PlanFile, PlanReady, Finish
    <3> QED  BY <1>0, <1>a, <2>2, <3>1 DEF AllOrNothing, Expected
  <2>4. CASE Undone \/ Applied
    <3>1. at \in {"undo", "apply"} /\ plan' = plan /\ outcome' \in {"failed", "rolled back"}
      BY <1>2, <2>2, <2>4 DEF Undone, Applied, Finish
    <3>2. \A i \in DOMAIN plan : Stands(i) = plan[i].before
      <4>1. CASE Undone
        <5>1. ~reversed /\ applied = <<>>
          BY <1>2, <4>1 DEF Undone, Finish
        <5>2. ToSet(applied) = {}
          BY <5>1 DEF ToSet
        <5> QED  BY <5>1, <5>2 DEF Stands, Source
      <4>2. CASE Applied
        <5>1. reversed /\ Pending = {}
          BY <1>2, <2>2, <4>2 DEF Applied, Finish
        <5> QED  BY <5>1 DEF Stands, Source, Target, Pending
      <4> QED  BY <2>4, <4>1, <4>2
    <3>3. \A i \in DOMAIN plan :
             plan[i].path \notin touched => files[plan[i].path] = original[plan[i].path]
      <4>1. \A i \in DOMAIN plan : plan[i].path \notin touched =>
               plan[i].before = original[plan[i].path] /\ files[plan[i].path] = Stands(i)
        BY <1>a, <3>1 DEF Expected
      <4> QED  BY <3>2, <4>1
    <3>4. \A p \in ToSet(Paths) : \E i \in DOMAIN plan : plan[i].path = p
      BY <1>a, <3>1, PlanCoversPaths DEF AppliedInv
    <3>5. \A p \in ToSet(Paths) \ touched : files[p] = original[p]
      BY <3>3, <3>4
    <3>6. \A p \in ToSet(Paths') \ touched' : files'[p] = original'[p]
      BY <1>0, <2>2, <3>5
    <3>7. outcome' \notin {"applied", "uninspected"}
      BY <3>1
    <3> QED  BY <3>6, <3>7 DEF AllOrNothing
  <2>5. CASE Inspect
    <3>1. at = "inspect" /\ plan' = plan /\ outcome' \in {"applied", "uninspected"}
      BY <1>2, <2>2, <2>5 DEF Inspect, Finish
    <3>2. \A i \in DOMAIN plan : plan[i].path \notin touched => files[plan[i].path] = plan[i].after
      BY <1>a, <3>1 DEF Expected
    <3>3. /\ 1 \in DOMAIN plan /\ plan[1].path = "config"
          /\ OwnsConfig(plan[1].after) = (intent = "install")
      BY <1>a, <3>1, PlanCoversPaths DEF AppliedInv
    <3>4. "config" \notin touched => OwnsConfig(files["config"]) = (intent = "install")
      BY <3>2, <3>3
    <3> QED  BY <1>0, <2>2, <3>1, <3>2, <3>4, FormatStays DEF AllOrNothing
  <2> QED  BY <2>1, <2>3, <2>4, <2>5
<1> QED  BY <1>1, <1>2

\* The initial states, and steps of nothing.
LEMMA AdapterStart == AdapterInit => AdapterInv
<1> SUFFICES ASSUME AdapterInit PROVE AdapterInv
  OBVIOUS
<1>1. /\ format \in Formats /\ ToSet(Paths) \subseteq Names
      /\ at = "idle" /\ outcome = "none" /\ plan = <<>> /\ applied = <<>>
      /\ intent = "install" /\ reversed = FALSE /\ touched = {} /\ original = files
      /\ mine = [p \in DOMAIN files |-> UserPart(p, files[p])]
  BY PathsAreDistinct DEF AdapterInit, Formats
<1>2. /\ DOMAIN files = Names /\ files = [p \in Names |-> files[p]]
      /\ \A p \in Names : IF p \in ToSet(Paths) THEN files[p] \in Contents(p) ELSE files[p] = Absent
  BY DEF AdapterInit, Names
<1>3. Absent \in Texts
  BY DEF Absent, Texts
<1>4. AdapterTypeOK
  <2>1. \A p \in Names : files[p] \in Texts
    BY <1>2, <1>3, ContentsAreTexts
  <2>2. files \in [Names -> Texts]
    BY <1>2, <2>1
  <2> QED  BY <1>1, <1>2, <2>2 DEF AdapterTypeOK, Places
<1>5. DOMAIN plan = {} /\ Len(plan) = 0 /\ DOMAIN applied = {} /\ ToSet(applied) = {}
  BY <1>1 DEF ToSet
<1>6. ChangesInv
  BY <1>1, <1>5, PathsAreDistinct DEF ChangesInv
<1>7. AppliedInv
  BY <1>1, <1>5 DEF AppliedInv
<1>8. Expected
  BY <1>1, <1>5 DEF Expected
<1>9. UserPartKept /\ \A p \in ToSet(Paths) : mine[p] = UserPart(p, original[p])
  BY <1>1, <1>2 DEF UserPartKept
<1>10. AllOrNothing
  BY <1>1 DEF AllOrNothing
<1> QED  BY <1>4, <1>6, <1>7, <1>8, <1>9, <1>10 DEF AdapterInv

LEMMA AdapterStutter == AdapterInv /\ UNCHANGED adapterVars => AdapterInv'
<1> SUFFICES ASSUME AdapterInv, UNCHANGED adapterVars PROVE AdapterInv'
  OBVIOUS
<1> USE DEF adapterVars
<1>1. AdapterTypeOK'
  BY TypesStay DEF AdapterInv, AdapterTypeOK
<1>2. ChangesInv'
  BY ChangesStay DEF AdapterInv
<1>3. AppliedInv'
  BY FormatStays DEF AdapterInv, AppliedInv
<1>4. Expected'
  BY FormatStays DEF AdapterInv, Expected, Stands, Target, Source
<1>5. (UserPartKept /\ \A p \in ToSet(Paths) : mine[p] = UserPart(p, original[p]))'
  BY FormatStays DEF AdapterInv, UserPartKept
<1>6. AllOrNothing'
  BY FormatStays DEF AdapterInv, AllOrNothing
<1> QED  BY <1>1, <1>2, <1>3, <1>4, <1>5, <1>6 DEF AdapterInv

\* The inductive invariant.
LEMMA AdapterInvariant == AdapterSpec => []AdapterInv
<1>1. AdapterInv /\ [AdapterNext]_adapterVars => AdapterInv'
  <2> SUFFICES ASSUME AdapterInv, AdapterNext PROVE AdapterInv'
    BY AdapterStutter
  <2>1. AdapterTypeOK' /\ ChangesInv' /\ AppliedInv'
    BY StructureKept DEF AdapterInv
  <2>2. Expected'
    BY <2>1, ExpectedKept
  <2> QED  BY <2>1, <2>2, UserPartStays, OutcomeIsTrue DEF AdapterInv
<1> QED  BY AdapterStart, <1>1, PTL DEF AdapterSpec

\* Through every install and removal, every failed, undone or killed command
\* and every edit, what the user has in a file that nothing has spoiled
\* stays as the user left it (applyAdapterPlan, mutateConfig).
THEOREM UserPartsAreKept == AdapterSpec => []UserPartKept
<1>1. AdapterInv => UserPartKept
  BY DEF AdapterInv
<1> QED  BY AdapterInvariant, <1>1, PTL

\* A command that reports success has made every change of its plan, and one
\* that reports an error it has undone has left every file as it found it
\* (adapterCommand, applyAdapterPlan).
THEOREM CommandsAreAtomic == AdapterSpec => []AllOrNothing
<1>1. AdapterInv => AllOrNothing
  BY DEF AdapterInv
<1> QED  BY AdapterInvariant, <1>1, PTL
=============================================================================
