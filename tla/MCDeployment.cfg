SPECIFICATION DeploySpec
CONSTANTS
    MaxPort = 2
    MayBusy = {1, 2}
INVARIANTS
    StoppedStays
    SuccessServes
    RouteKnown
