SPECIFICATION Spec
CONSTANTS
    NumBlocks = 4
    PagesPerBlk = 2
    Chips = {"sams8", "hynx16", "samsone", "other"}
    Ptable <- MCPtable
    Images <- MCImages
    Cards <- MCCards
    Sectors = 15
    Tables <- MCTables
    OnCard = {"none", "g8", "m0"}
    Payloads <- MCPayloads
    NumPartitions = 8
    CmdRetry = 2
    MaxXfer = 3
    MaxFaults = 1
    MaxCuts = 1
    MaxCalls = 2
INVARIANT ReadsBack CommandsLegal TableStable 
PROPERTY MarksSurvive
CHECK_DEADLOCK FALSE
