CONSTANTS
    Assignment = "always_attend"
    MaxPerCont = 8
    Priorities = 1
    Bound = 7
SPECIFICATION Spec
INVARIANTS
    AlwaysAttendFits
    MaxPropFits
    StrictReassignmentPaid
    MaxPropReassignmentPaid
