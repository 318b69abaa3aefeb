SPECIFICATION FairSpec
CONSTANTS
    Caller = {c1, c2}
    Key = {k1}
    Closer = closer
    Nobody = nobody
    Droppers = {c2}
    Asks <- ByCaller
    MaxLog = 3
    MaxDrops = 1
    MaxCrashes = 1
INVARIANTS ListenersSeeTheLog IdsNeverReused NoLostUpdate
PROPERTIES KeepsLog CommitsReturn
