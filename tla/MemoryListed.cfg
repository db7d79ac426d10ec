\* What the README says and the code does not do: the memory command lists a
\* database that nobody writes to.  Commands are used up.
SPECIFICATION MCSpec
CONSTANTS
    Explorable = {"settings"}
    Servers = {s1, s2}
    TaskIds = {t1, t2}
    MayCrash = TRUE
    Commands = {p, q}
    Integrations = {a}
    Memories = {m}
    MaxRuns = 3
    MaxCommands = 2
    MaxEdits = 1
PROPERTY RememberedIsListed
CHECK_DEADLOCK FALSE
