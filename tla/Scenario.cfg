SPECIFICATION FairScenarioSpec
CONSTANTS
    NBrowsers = 3
    NPlugins = 2
    Stoppers = {s1, s2}
CHECK_DEADLOCK FALSE
INVARIANTS
    AllOrNothing
PROPERTIES
    StartsAndStopsEnd
