\* A page and its server: two clicks on a tool that may be in use or removed by
\* then; lines past the limit.
CONSTANTS
    Tools = {t1, t2}
    Available = {t1}
    Nobody = Nobody
    Requests = {r1, r2}
    MAX_OUTPUT_LINES = 2
    Lines <- ShortLines
    TopKeys = 1
    WireCap = 1
SPECIFICATION DashboardSpec
INVARIANTS
    DashboardTypeOK
    OneRequestPerClick
    ShownInOrder
    SuccessIsShownTruly
    SummaryMatchesOutput
PROPERTIES
    ButtonReturns
    AbandonedRunStops
CHECK_DEADLOCK FALSE
