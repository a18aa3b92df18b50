SPECIFICATION StartSpec
CONSTANTS
    ratelimit = ratelimit
    oidc = oidc
    c1 = c1
    c2 = c2
    Plugin = {ratelimit, oidc, p1, p2}
    Capability = {c1, c2}
    MaxBuilds = 1
    ForPipeline <- MCForPipeline
    ForProvider <- MCForProvider
    Provided <- MCProvided
    Foreign = Foreign
    NoPlugin = NoPlugin
    Configured <- MCConfigured
    MaxManifests = 2
INVARIANTS
    StartTypeOK
    StartupRespectsDependencies
    BuildReportsTruly
    LinkedKept
    ServesEnabled
    AdminShowsAll
PROPERTIES
    StartEnds
CHECK_DEADLOCK FALSE
