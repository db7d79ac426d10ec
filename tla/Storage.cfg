\* Two openers with FTS5 and one without, two memories that share scopes and
\* words; two MCP servers, three raw ids of which two give one request id, the
\* scaled i64 holds one of the two amounts, and not two of it; two stores that
\* keep two artifacts, two contents, three moments and a ttl of two.  Openers
\* and servers may all be gone, and the clocks stop.
SPECIFICATION Spec
CONSTANTS
    Openers = {p1, p2, p3}
    Indexers = {p1, p2}
    Ids = {m1, m2}
    Scopes = {user, repo}
    Words = {w1, w2}
    LastTime = 2
    Absent = absent
    Servers = {p1, p2}
    RawIds <- MCRawIds
    RequestIds <- MCRequestIds
    IdLength = 2
    Amounts = {1, 2}
    Largest = 1
    MaxEvents = 2
    LastMilli = 1
    Gone = gone
    Stores = {p1, p2}
    Contents = {1, 2}
    MaxArtifacts = 2
    Ttl = 2
    LastSecond = 2
    MaxCutShort = 2
SYMMETRY Symmetry
INVARIANTS
    MemoryWhole
    TelemetryWhole
    SearchExact
    AnswersMatchCounts
    HandlesFetchable
    CountBounded
CHECK_DEADLOCK FALSE
