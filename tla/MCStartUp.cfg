SPECIFICATION Spec
CONSTANTS
    MaxFailures = 1
    Image <- MCImage
    Loads <- MCLoads
    Boots <- MCBoots
    Processors = {"old", "arm720t", "arm74x", "arm94x", "v4", "v7"}
    PgDir = 2
    Malloc = 1
    Block = 2
    MemTop = 60
    PageOffset = 16
    PvAlign = 4
    Reach = 8
    MaxInitArgs = 2
    MaxInitEnvs = 2
    NrBanks = 2
    PageSize = 4
    AddrSpace = 64
    PhysOffset = 8
    CommandLines <- MCLines
    Regions <- MCRegions
    Machines <- MCMachines
    Texts <- MCTexts
    MaxArgs = 2
    Scripts <- MCScripts
    Props <- MCProps
    ConfSize = 7
    Patience = 2
    AppArgs <- MCArgs
    PropSets <- MCPropSets
    Natives = 2
    NativeThreads = 2
    ServerConfigs <- MCConfigs
INVARIANTS
    UsesReady
    DoneOnce
    OptionsTakeEffect
    ScriptMeant
PROPERTY StartEnds
CHECK_DEADLOCK FALSE
