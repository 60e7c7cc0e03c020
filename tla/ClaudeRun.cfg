CONSTANTS
    opus = opus
    sonnet = sonnet
    Modes = {opus, sonnet}
    Kinds = {"plain", "clear"}
    MaxCalls = 2
    MaxAsks = 1
    MaxPrompts = 3
SPECIFICATION RunLiveSpec
INVARIANTS
    PromptsInOrder
    OutputInOrder
    RequestsAreAnswerable
PROPERTIES
    PromptIsServed
CHECK_DEADLOCK FALSE
