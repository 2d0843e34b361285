SPECIFICATION Spec
CONSTANTS
    Modules <- MCModules
    Deps <- MCDeps
    Order <- MCOrder
    First <- MCFirst
    Versions <- MCVersions
    Shapes = {"int", "text"}
    Gone = "gone"
    MaxSaves = 2
    MaxWrites = 6
    Checkers = {"watcher", "server", "first", "second"}
    Entries = {"main", "tool"}
    None = None
    Watcher = "watcher"
    Server = "server"
    Terminals = {"first", "second"}
    Main = "main"
    Stamped <- MCStamped
    Names <- MCNames
    Urls = {"u"}
    Tags = {"v1"}
    HeadRev = "HEAD"
    Path = Path
    Commits = 1
    MaxTyped = 3
INVARIANTS
    OnlyExposedGoStale
    LockedAgrees
    NoticedOrServed
PROPERTIES
    LatestSaveServed
CHECK_DEADLOCK FALSE
