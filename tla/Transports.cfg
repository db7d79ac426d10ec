\* Liveness under Fairness: two processes, one stop command and one transport
\* to the daemon; or two commands of the extension, which may race to start
\* two servers, and may begin again on a server that has answered one call; or
\* one call over one connection.
\* Commands and calls are finitely many, so the system may come to rest.
SPECIFICATION MCSpec
CONSTANTS
    Explorable = {"daemon", "stdio", "wire"}
    Daemons = {d1, d2}
    None = None
    Starters = {s1}
    Stoppers = {t1}
    Sdks = {k1}
    Calls = 1
    Users = {u1, u2}
    MaxTransports = 2
    MaxIds = 2
    Payloads = {1, 2, 4}
    Bounds = {1, 3}
    Widest = 3
    Majors = {1, 2}
    Tokens <- MCTokens
INVARIANTS
    NoServerForgotten
    EffectsAreChecked
    AnswersAreTrue
PROPERTIES
    StopTakesEffect
    CallsEnd
CHECK_DEADLOCK FALSE
