SPECIFICATION Spec
CONSTANTS
    Boot = Boot
    Calls = {u1, u2}
    Configs = {c1, c2}
    MaxGen = 3
    MaxBacklog = 1
    MaxCrashes = 2

INVARIANTS
    ProjectionFollows
    HealthyIsProjected
    TombstonedIsGone
    BoundIsLive
    
 
CHECK_DEADLOCK FALSE
