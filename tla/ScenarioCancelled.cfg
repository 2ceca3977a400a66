SPECIFICATION ScenarioSpec
CONSTANTS
    NBrowsers = 2
    NPlugins = 1
    Stoppers = {s1}
INVARIANTS
    CancelLeavesNothing
CHECK_DEADLOCK FALSE
