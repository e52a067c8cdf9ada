CONSTANTS
    lmstudio = lmstudio  openai = openai
    Provider = {openai}
    Local = {}
    Client = {c1, c2}
    NoProvider = NoProvider
    Idle = Idle
    Rank <- CloudOnly
    Policy = "local_first"
    SensitiveLocalOnly = TRUE
    MaxRetries = 0
    Threshold = 2
    Cooldown = 2
    Limit <- DailyAndMonthly
    MaxCost = 1
SPECIFICATION Spec
INVARIANT OverspendBounded
PROPERTY ProvidersReturn
