SPECIFICATION Spec
CONSTANTS
    Instances = {i1, i2, i3}
    Args <- SomeArgs
    ClaConfigs <- SomeClaConfigs
    MaxOpens = 3
    MaxFails = 1
INVARIANTS OneLink ListensOnItsPort StackAgrees ConfigUsable
CHECK_DEADLOCK FALSE
