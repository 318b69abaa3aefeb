SPECIFICATION Spec
CONSTANTS
    Channels = {"feishu", "wechat"}
    NRuns = 2
    Targets <- PeerThenHomes
    Recent = 1
    MaxCrashes = 1
    MaxTroubles = 1
INVARIANTS ShownOnce NothingForgotten
CHECK_DEADLOCK FALSE
