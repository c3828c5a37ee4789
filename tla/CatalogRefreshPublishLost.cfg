SPECIFICATION FairSpec
CONSTANTS
    Workers <- JustTick
    Ticking <- JustTick
    MaxListing = 2
    MaxFailures = 1
    PublishFails = TRUE
    Overlaps = FALSE
    ForAuthFails = FALSE
PROPERTIES RegistryFollows
