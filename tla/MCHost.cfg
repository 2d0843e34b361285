SPECIFICATION Spec
CONSTANTS
    None = None
    Peers = {"peer"}
    Fetchers = {"program"}
    Attempts = 2
    MaxRedirects = 1
    Connections <- MCConnections
    Requests <- MCRequests
    Routes <- MCRoutes
    Parameters = {":id"}
    Scripts <- MCScripts
    Capacity = 1
    Words = {"x", "{", ":"}
    Newline = "newline"
    MaxWords = 4
    MaxKeys = 5
    InputLines <- MCLines
    MaxReleases = 2
    MaxInstalls = 4
INVARIANTS
    FetchTruthful
    CapturedAll
    RunAsTyped
    InstalledOrGone
    NobodyForgotten
PROPERTIES
    NoneLeftWaiting
    SpawnReturns
CHECK_DEADLOCK FALSE
