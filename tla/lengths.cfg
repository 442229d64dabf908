\* Lengths, gop search and projections; a command ends.
CONSTANTS
    Unset = Unset
    MaxWord = 31
    MaxTotal = 12
    KeyRead = 7
    GoldenRead = 5
    KeySize = 9
    GoldenSize = 4
    ShowSize = 1
    Playlists <- MCPlaylists
    Rates <- MCRates
    FrameArgs <- MCFrameArgs
    Totals <- MCTotals
    GopArgs <- MCGopArgs
    SeekArgs <- MCSeekArgs
    Budgets <- MCBudgets
    PlanGops <- MCPlanGops
SPECIFICATION Spec
INVARIANT LengthsAreAsked GopMeetsBudget ProjectionUpToGrowth
PROPERTY Ends
CHECK_DEADLOCK FALSE
