\* Two processes of make and info over shared files, failures and kills.
\* Processes end, so the system stops.
CONSTANTS
    Procs = {p, q}
    NoBudget = NoBudget
    Images <- MCImages
    Pids <- MCPids
    MakeJobs <- MCMakeJobs
    InfoInputs <- MCInfoInputs
    Sizes <- MCSizes
SPECIFICATION Spec
INVARIANT PublishesWhatItMeasured FirstFitWins ReportsOnOwnInput
PROPERTY EveryProcessEnds
CHECK_DEADLOCK FALSE
