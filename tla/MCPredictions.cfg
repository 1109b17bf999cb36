\* Two incidents, one of them predicted and logged.
CONSTANTS
    NONE = NONE
    city = city
    Hour = 1
    Day = 2
    Week = 1
    Month = 3
    Quarter = 3
    MaxRes = 100
    MinStat = 1
    MinRate = 1
    MinDurations = 1
    MinOutcomes = 1
    MinWeeks = 1
    TrainedHours <- Trained
    TrainingRange <- Ranges
    WildOutputs <- NoWild
    Ids <- Two
    Predicted <- One
    Times <- Four
    Places <- SpotAndOutside
    Reports <- MCReports
    SlaChoices <- Windows
    MaxOpen = 2
    MaxLog = 2
    Bundles <- MCBundles
SPECIFICATION PredictionsSpec
INVARIANTS
    EvidenceIsTheOutcome
PROPERTIES
    SameAnswer
    LogStaysCurrent
    OutcomesAreFinal
    ForecastIsSettled
CHECK_DEADLOCK FALSE
