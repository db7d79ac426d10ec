\* What the adapters' documentation says and the code does not do: a changed
\* TOML block is cut out.  Commands and edits are used up.
SPECIFICATION MCSpec
CONSTANTS
    Explorable = {"adapters"}
    Servers = {s1, s2}
    TaskIds = {t1, t2}
    MayCrash = TRUE
    Commands = {p, q}
    Integrations = {a}
    Memories = {m}
    MaxRuns = 3
    MaxCommands = 2
    MaxEdits = 1
INVARIANT ModifiedValuesKept
CHECK_DEADLOCK FALSE
