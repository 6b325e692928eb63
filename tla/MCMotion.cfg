CONSTANTS
    Poses <- FewPoses
    kPoseRingSize = 2
    Delay = 1
    ExtrapCap = 1
    SnapUu = 3
    CatchUpUu = 2
    NearMult = 1
    kCatchUpMult = 2
    MinSpeed = 1
    kMoveSpeedEps = 0
    kStickyRetryTicks = 2
    IsGhost = TRUE
    PointerHud = TRUE
    Overrides <- OneAnim
    MaxAge = 3
    MaxBlobs = 1
SPECIFICATION FairMotionSpec
INVARIANTS MotionInv CombatFollows
PROPERTY Settles
