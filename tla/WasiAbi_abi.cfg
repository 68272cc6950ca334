SPECIFICATION Spec
CONSTANTS
    Address = {2, 3, 4, 5}
    InputSize = {1}
    PayloadSize = {1, 2}
    ErrorSize = {2}
    MaxSlack = 1
    MaxCalls = 3
    MaxHeld = 5
INVARIANTS TypeOK NothingLeaks MemorySound ResultReachesHost
