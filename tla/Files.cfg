\* Two servers that overlap and die at any point, with two tasks; two commands
\* at a time of three, with one integration; or two adapter commands and one
\* edit by the user.  Commands and edits are used up, and a ledger of a later
\* version accepts no update, so the system may come to rest.
SPECIFICATION MCSpec
CONSTANTS
    Explorable = {"ledger", "settings", "adapters"}
    Servers = {s1, s2}
    TaskIds = {t1, t2}
    MayCrash = TRUE
    Commands = {p, q}
    Integrations = {a}
    Memories = {m}
    MaxRuns = 3
    MaxCommands = 2
    MaxEdits = 1
SYMMETRY Symmetry
INVARIANTS
    LedgerSound
    SettingsDurable
    UserPartKept
    AllOrNothing
CHECK_DEADLOCK FALSE
