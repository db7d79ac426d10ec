\* Streams of up to four bytes of which three are kept, a pipe of two bytes.
\* The model ends when execute returns and the processes are gone.
SPECIFICATION Spec
CONSTANTS
    Cap = 3
    MaxBytes = 4
    PipeSize = 2
    SourceLines = 4
    TextLength = 3
INVARIANTS
    CaptureExact
    StoppedTreeIsGone
    RulesExact
PROPERTY StopEnds
CHECK_DEADLOCK FALSE
