CONSTANTS
    lmstudio = lmstudio  openai = openai
    Provider = {lmstudio, openai}
    Local = {lmstudio}
    Client = {c1}
    NoProvider = NoProvider
    Idle = Idle
    Rank <- LocalFirst
    Policy = "local_first"
    SensitiveLocalOnly = TRUE
    MaxRetries = 1
    Threshold = 2
    Cooldown = 2
    Limit <- DailyAndMonthly
    MaxCost = 1
SPECIFICATION Spec
INVARIANTS TypeOK SensitiveStaysLocal
PROPERTY RequestsEnd
