\* Menu: two threads, one socket, and two games begun, loaded or queried.
CONSTANTS
    AutoJoin = TRUE
    MaxActs = 2
SPECIFICATION FairMenuSpec
INVARIANTS MenuInv QuerySparesSession
PROPERTIES FlowEnds
