SPECIFICATION Spec
CONSTANTS
    call1 = call1
    call2 = call2
    call3 = call3
    canceller = canceller
    stopper = stopper
    x = x
    y = y
    Ids <- MCIds
    Kind <- MCKind
    IdOf <- MCIdOf
    Target <- MCTarget
    NoToken = NoToken
    Workers = {call1, call2, call3, canceller, stopper}
    Deadlined = {call3}
    ClockFaults = {call3}
    Panicking = {call2}
    Maximum = 2
INVARIANTS
    EntriesOwned
    TokenDisplacedOnlyByDuplicate
    WaiterHasWaker
PROPERTY
    AdmissionSpec
