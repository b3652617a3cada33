SPECIFICATION PartSpec
CONSTANTS
    Submits = {s1, s2}
    Runs = {r1}
    Checks = {c1}
    LastDay = 2
    Amounts = {25}
    MaxAmount = 25
    Tolerance = 10
    Tolerances = {20}
    NotANumber = NotANumber
    Requests = {q1, q2}
    Users = {"v1", "v2", "admin", "investor"}
    Verifiers = {"v1", "v2"}
    Admins = {"admin"}
    Last = 2
    Limits = {1, 2}
    Statuses = {"draft", "active", "closed", "completed", "cancelled"}
    Syncs = {y1, y2}
    Investors = {i1}
    Takers = {t1, t2}
    Holders = {"holder", "other"}
    MaxMoney = 2
    LastInstant = 2
    None = None
    MaxInvestors = 4
    MaxBalance = 3
    MaxRevenue = 45
INVARIANTS
    ReportsOverlapOnlyByRace
    BalancedIsPaid
    ValidationsAreSound
    SlotsAreReleased
    SnapshotsAreWhole
    PayoutsAddUp
PROPERTIES
    StatusRulesBreakOnlyByRace
    InvestmentsFitTheOffering
SYMMETRY CallSymmetry
CHECK_DEADLOCK FALSE
