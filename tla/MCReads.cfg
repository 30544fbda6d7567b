SPECIFICATION Spec
CONSTANTS
    None = None
    Unset = Unset
    AnyClass = AnyClass
    CommissionPercent = 20
    Rows = {r1, r2, r3}
    Times = {1, 2, 3}
    Classes = {c1}
    PageSize = 1
    Ids <- MCIds
    ClassSections <- MCClassSections
    Photos <- MCPhotos
    Schedules <- MCSchedules
    MeetingLists <- MCMeetingLists
    EventLists <- MCEventLists
    SaleSets <- MCSaleSets
SYMMETRY RowSymmetry
INVARIANTS
    TypeOK
    EstimatesKeepOrder
    NearestStart
    BatchTakesBest
    SalesAddUp
    EveryRowListed
CHECK_DEADLOCK FALSE
