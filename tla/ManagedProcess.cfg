\* Three callers, one of whose programs leaves a process behind; the circuit
\* opens at the second failure, so that two more calls may report to it while
\* it is open.  Or one session at a time, with up to two calls of a tool.
\* Or searches of a memory provider, whose answers have up to two parts of up
\* to two items.
SPECIFICATION MCSpec
CONSTANTS
    Explorable = {"process", "session", "search"}
    Callers = {c1, c2, c3}
    Lingering = {c3}
    Threshold = 2
    Cooldown = 2
    Strict = TRUE
    MaxRequests = 4
    PipeLines = 2
    Texts = {"one", "two", "three", "id"}
    Parts <- MCParts
    Answers <- MCAnswers
    NoContent = NoContent
    MaxWanted = 3
INVARIANTS
    NoProgramLeftRunning
    AnswerIsOwn
    FirstRecordsOrNone
PROPERTIES
    CircuitRecovers
    CallsReturn
