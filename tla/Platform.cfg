SPECIFICATION PartSpec
CONSTANTS
    Calls = {c1, c2}
    Rollbacks = {r1}
    Requests = {q1}
    Migrations = {m1, m2}
    Destructive = {m2}
    Steps = {1, 2}
    Undoable = {1, 2}
    Signups = {s1, s2}
    Resets = {p1, p2}
    Tokens = {t1, t2}
    MaxRequests = 1
    MaxFaults = 1
    Roles = {"admin", "developer"}
    None = None
    Points = {"point"}
    Restores = {"restore"}
    Files = {"file"}
    Cooldown = 3
    OldestAge = 3
    CleanupDays = 2
    Opaque = {"o1", "o2"}
    Visits = {"v1", "v2"}
    Ttl = 2
    MaxClock = 4
    LastEvent = 3
    Handlers = {"h1", "h2"}
    MaxBufferSize = 2
    MaxCopies = 1
    MayAge = TRUE
    MaxRestarts = 1
    Emits = {"e1"}
    Receivers = {"r1", "r2"}
    MaxRetries = 3
    MaxStops = 1
    MaxAttempts = 3
    LastAttempt = 4
    RetryAfters <- RetryAfterSeconds
    Probes = {"p1", "p2"}
    MaxChanges = 2
    Instances = {"i1", "i2"}
    MaxRotations = 2
    MaxTokens = 1
    TokenTtl = 2
    MaxInstant = 4
    TierLimit <- TierLimits
    MaxAllowed = 2
    Window = 2
    MaxTime = 5
    MaxFailures = 1
    Never = Never
    Traffic = {"q1", "q2", "q3"}
    MetricRoutes = {"a", "b"}
    MaxCardinality = 4
    MaxPoints = 2
INVARIANTS
    RecordedIsComplete
    AppliedOnce
    DestructiveIsStopped
    MonitoringIsSound
    OneAccountPerEmail
    TokensAreSpentOnce
    AdmissionsAreBounded
    EndedSessionsStayEnded
    SequencesAreKept
    StartedDeliveriesAreDecided
    DecisionsAreFinal
    AnswersWereTrue
    MetricsAddUp
    TokensOutliveOneRotation
CONSTRAINT RequestsNextToOneCall
SYMMETRY CallSymmetry
CHECK_DEADLOCK FALSE
