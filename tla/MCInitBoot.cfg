CONSTANTS
    Devices = {"d1", "d2"}
    Firmware = {"f"}
    NetlinkRoom = 2
    MaxDeaths = 1
    Names <- MCNames
    Ro <- MCRo
    Persist = {"persist.p"}
    Net = {"net.dns"}
    Values <- MCValues
    Plans <- MCPlans
SPECIFICATION FairSpec
INVARIANTS TriggersKept NodesAgree
PROPERTIES PropertiesKept ActionsRun FirmwareLoaded
