SPECIFICATION Spec
CONSTANTS
    Jobs = {j1}
    Handlers = {h1}
    Shells = {}
    MaxAsked = 3
    MaxFaults = 0
INVARIANT ResumePointIsReached
CHECK_DEADLOCK FALSE
