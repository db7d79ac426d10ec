\* Safety: three processes, so that two can race after a third crashed, a
\* start command, two stop commands and a transport making two calls.
\* Commands and calls are finitely many, so the system may come to rest.
SPECIFICATION SafeSpec
CONSTANTS
    Daemons = {d1, d2, d3}
    None = None
    Starters = {s1}
    Stoppers = {t1, t2}
    Sdks = {k1}
    Calls = 2
SYMMETRY Symmetry
INVARIANTS
    ListenerReachable
    RecordKept
    RefusedOnlyIfReplaced
CHECK_DEADLOCK FALSE
