\* Three operators, two machines, two days: check-ins, assignments by hand, closings, reports.
CONSTANTS
    None = None
    w1 = w1
    w2 = w2
    w3 = w3
    dt1 = dt1
    dt2 = dt2
    Workers = {w1, w2, w3}
    Equipments = {dt1, dt2}
    Dates = {1, 2}
    Instants = {1, 2, 3}
    During <- Shifts
    Plan <- Plans
    Available <- Fleet
    TypeOf <- Types
    Competencies <- Certificates
    CompetencyOn = TRUE
    OnDuty <- Duties
    MaxAssignments = 2
SPECIFICATION Spec
CONSTRAINT FewAssignments
INVARIANT TypeOK ActiveDisjoint CaseHasCause ViewsAgree
CHECK_DEADLOCK FALSE
