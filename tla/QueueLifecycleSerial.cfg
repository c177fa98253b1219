SPECIFICATION FairSpec
CONSTANTS
    Boot = Boot
    Calls = {u1}
    Configs = {c1, c2}
    MaxGen = 3
    MaxBacklog = 1
    MaxCrashes = 2


    
CHECK_DEADLOCK FALSE
PROPERTIES
    CreateConverges
    
    PurgeEndsUnlessGated
