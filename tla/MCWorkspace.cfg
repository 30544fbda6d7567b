SPECIFICATION Spec
CONSTANTS
    p1 = p1  p2 = p2  p3 = p3  ea = ea  eb = eb  upper = upper  lower = lower  t1 = t1  t2 = t2
    None = None
    Users = {admin, ann, ben}
    Admin = admin
    Photographer = ann
    Photos = {p1, p2, p3}
    EventOf <- TwoEvents
    Folders = {f1, f2}
    FolderNames = {upper, lower}
    Lower <- OneName
    Slugs = {s1, s2}
    FirstSlug = s1
    TagSets <- SomeTags
    Prices = {0, 1}
    Workers = {w1, w2}
    MaxRequests = 3
INVARIANTS
    TypeOK
    FolderOfOwnEvent
    NoTwinFolders
    OnlyApprovedWork
    TagsOfOneSave
    OneGuest
    PhotographersHaveProfiles
    OneStripeAccount
PROPERTIES
    StatusByAdmin
    AllOrNone
SYMMETRY Interchangeable
CHECK_DEADLOCK FALSE
