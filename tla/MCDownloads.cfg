\* Three cities, any two or three faults.
CONSTANTS
    NONE = NONE
    CORRUPT = CORRUPT
    chicago = chicago
    sanfrancisco = sanfrancisco
    boston19 = boston19
    boston20 = boston20
    Appended <- MCAppended
    Rewritten <- MCRewritten
    Streamed <- MCStreamed
    Dataset <- MCDataset
    Commands <- MCCommands
    FirstSize <- MCFirstSize
    PageSize = 2
    MaxRetries = 2
    Limits <- MCLimits
    MaxFaults = 2
SPECIFICATION DownloadsSpec
INVARIANTS
    ListedRowsStay
PROPERTIES
    ImplementsMirror
    EveryRunEnds
    TablesArrive
    YearsArriveUnlessStuck
