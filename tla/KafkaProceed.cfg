SPECIFICATION Spec
CONSTANTS
    N = 1
    Parties = {dfsp1, dfsp2}
    Hub = Hub
    MaxCalls = 2
    MaxCrashes = 1
    MaxEvents = 4
    None = None
SYMMETRY Symmetric
INVARIANTS
    AtMostOnce
    HeadersAgree
    RepliesToSender
    AnswersConsumedEvent
CHECK_DEADLOCK FALSE
