\* Every sequence of up to three candidates over two sources, three contents
\* and two scores, every token count and every budget that can make them all
\* fit, some, or none; every scan of two sources whose contents have no, some
\* or as many terms as the path weight allows for; every question of Policies
\* with three versions.  One scanner or two fetchers, at most two edits, five
\* entries under every limit that bites or does not; texts of up to four lines or
\* of nine to eleven, under paths whose handles fit, also with a span, or do not;
\* chunks of up to four bytes.  build_context and the readers' calls end, and
\* edits are used up.
SPECIFICATION MCSpec
CONSTANTS
    Explorable = {"bundle", "baseline", "policies", "scan", "load", "text"}
    Sources = {1, 2}
    Hashes = {1, 2, 3}
    Scores = {0, 1}
    Tokens = {0, 1, 2}
    Budgets = {1, 2, 3}
    MaxLength = 3
    TermCounts = {0, 1, 31}
    MaxHandle = 19
    Versions = {1, 2, 3}
    NoMode = NoMode
    Scanners = {s1}
    Fetchers = {f1, f2}
    Paths <- MCPaths
    Walk <- MCWalk
    Links <- MCLinks
    Editable <- MCEditable
    Contents <- MCContents
    Written <- MCWritten
    Fetched <- MCFetched
    Limits <- MCLimits
    MaxEdits = 2
    Missing = Missing
SYMMETRY Symmetry
INVARIANTS
    BundleExplained
    BudgetFollowsRanks
    DecisionsHold
    ScanAccounts
    ServedTextIsAVersion
    CandidatesLeadBack
CHECK_DEADLOCK FALSE
