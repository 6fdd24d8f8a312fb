SPECIFICATION Spec
CONSTANTS
    p1 = p1  p2 = p2  p3 = p3
    Placements = {p1, p2, p3}
    Original = Original
    Torn = Torn
    Absent = Absent
    NoPlan = NoPlan
    Plans <- AllPlans
    Errors = TRUE
    Cuts = TRUE
    Overlap = FALSE
SYMMETRY Interchangeable
CHECK_DEADLOCK FALSE
PROPERTY FailureRestoresBackup
