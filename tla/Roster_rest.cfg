\* The demo week under the documented limits: does the plan keep the minimum rest?
CONSTANTS
    None = None
    s1 = s1
    s2 = s2
    s3 = s3
    s4 = s4
    b1 = b1
    b2 = b2
    dt14 = dt14
    ex25 = ex25
    Horizon = 6
    Workers = {s1, s2, s3, s4, b1, b2}
    Dates <- Days
    Machines = {dt14, ex25}
    Serviceable <- Fit
    Certified <- Papers
    Default <- Documented
    Decisions <- JustDocumented
    Earlier <- Left1
    Offset <- Offsets
    MachineOf <- Planned
    Ids <- Numbers
    Sheets <- Books
    Unknown = Unknown
    SheetPolicy <- BookPolicy
    StartOf <- Starts
    EndOf <- Ends
    MinimumRest = 1
    MaxValidations = 2
SPECIFICATION Spec
INVARIANT PlanKeepsRest
