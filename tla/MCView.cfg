\* View: another player and a unique NPC of the host's world, two places,
\* two looks.
CONSTANTS
    Peers = {p1}
    Refs = {r1}
    Locs = {here1, far1}
    NoLoc = NoLoc
    Kinds = {appearance}
    Looks = {x1, x2}
    None = None
    GhostSpawn = TRUE
CONSTRAINT OneKind
SPECIFICATION FairViewSpec
INVARIANTS NothingLeftBehind GhostsDressed
PROPERTY PuppetsReleased
