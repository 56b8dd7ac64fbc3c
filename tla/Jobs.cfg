\* Two processes and one endpoint; one event, standing for a message's and for
\* an alert, which are handled alike; one job for it, two attempts, one upset.
SPECIFICATION FairSpec
CONSTANTS
    Workers = {w1, w2}
    Keys <- MCKeys
    MaxJobs = 1
    MaxAttempts = 2
    BatchSize = 1
    MaxUpsets = 1
    MaxRetries = 1
    NoWorker = NoWorker
    NoKey = NoKey
    Endpoints = {e1}
    SmsEvents = {event}
    Alerts = {event}
    Lists = {{}}
    Changes = {"on", "as_is"}
    MaxEndpoints = 1
    DisableAfter = 2
    NoEndpoint = NoEndpoint
    NoEvent = NoEvent
INVARIANTS TypeOK RunAlone ClaimsWithinBudget NothingLost DuplicatesNeedUpset
PROPERTIES OffUntilAsked JobsSettle
CHECK_DEADLOCK FALSE
