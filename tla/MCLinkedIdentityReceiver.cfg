CONSTANTS
    Owners = {o1, o2}
    Nobody = Nobody
    Foreign = Foreign
    Unset = Unset
    MaxLog = 2
    MaxFaults = 0
    MaxAborts = 0
SPECIFICATION Spec
INVARIANTS LinkedHasReceiver
CHECK_DEADLOCK FALSE
