CONSTANTS
    Kinds = {"app"}
    Outfits <- TwoOutfits
    LoadOrder <- TwoPlugins
    IdSpan = 4
    Forbidden = {3}
    kMaxWorn = 2
    kBlobPayloadMax = 3
    Limit = 2
    Window = 2
    Period <- AppPeriod
    Ttl = 0
    MaxUp = 2
    MaxDown = 2
    MaxFaults = 1
SPECIFICATION FairBlobsSpec
INVARIANTS BlobsInv NoMixture
PROPERTIES LooksArrive
