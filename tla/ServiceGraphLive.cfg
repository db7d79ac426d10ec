SPECIFICATION Spec
CONSTANTS
    call1 = call1
    call2 = call2
    call3 = call3
    canceller = canceller
    stopper = stopper
    x = x
    y = y
    Ids <- MCIds
    Kind <- MCKind
    IdOf <- MCIdOf
    Target <- MCTarget
    NoToken = NoToken
    Workers = {call1, call2, stopper}
    Deadlined = {call2}
    ClockFaults = {}
    Panicking = {}
    Maximum = 1
PROPERTIES
    EveryDispatchEnds
    DeadlineRaisesToken
    ShutdownCompletes
