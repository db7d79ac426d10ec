\* What the changelog says and the code does not do, without any crash: two
\* overlapping updates lose a task.  Servers may come to rest between updates.
SPECIFICATION MCSpec
CONSTANTS
    Explorable = {"ledger"}
    Servers = {s1, s2}
    TaskIds = {t1, t2}
    MayCrash = FALSE
    Commands = {p, q}
    Integrations = {a}
    Memories = {m}
    MaxRuns = 3
    MaxCommands = 2
    MaxEdits = 1
INVARIANT ContinuityAcrossAgents
CHECK_DEADLOCK FALSE
