CONSTANTS
    MaxPeer = 2
    MaxToken = 2
    MaxJoins = 2
    MaxUp = 1
    MaxDown = 1
SPECIFICATION FairLinkSpec
INVARIANTS LinkInv BoundToThisJoin
PROPERTIES LeaveEnds JoinSettles DropNoticed
