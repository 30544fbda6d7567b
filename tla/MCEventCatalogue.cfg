SPECIFICATION FairSpec
CONSTANTS
    m1 = m1  m2 = m2  t1 = t1
    None = None
    Events = {e1, e2, e3}
    Meetings = {m1, m2}
    TdbIds = {t1}
    TdbOf <- OneKnown
    Workers = {beat, api}
    Beat = beat
    MaxSurprises = 2
INVARIANTS
    TypeOK
    UniqueIdentities
    OneEventPerCompetition
    ScheduleOfMeeting
    ImportedStaysListed
PROPERTIES
    HidesOnlyStale
    ManualMatchKept
    FeedIsListed
CHECK_DEADLOCK FALSE
