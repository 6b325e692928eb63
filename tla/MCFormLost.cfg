CONSTANTS
    Kinds = {"app", "inv"}
    Outfits <- ModOutfits
    LoadOrder <- TwoPlugins
    IdSpan = 4
    Forbidden = {3}
    kMaxWorn = 1
    kBlobPayloadMax = 2
    Limit = 4
    Window = 1
    Period <- BothPeriods
    Ttl = 1
    MaxUp = 4
    MaxDown = 4
    MaxFaults = 0
SPECIFICATION BlobsSpec
INVARIANT WornAsSent
