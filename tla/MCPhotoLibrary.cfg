SPECIFICATION Spec
CONSTANTS
    pa = pa  pb = pb  pc = pc  s1 = s1  s2 = s2  n1 = n1  n2 = n2  oa = oa  ob = ob
    w1 = w1  w2 = w2
    None = None
    Photos = {pa, pb, pc}
    Sessions = {s1, s2}
    Names = {n1, n2}
    Orders = {oa, ob}
    Workers = {w1, w2}
    SessionOf <- ThreePhotosTwoUploads
    NameOf <- DistinctInUpload
    Items <- TwoCarts
    Dying = {"write", "process", "fulfill", "original", "preview", "cascade", "delete"}
INVARIANTS
    TypeOK
    SoldStaysUnlessAsked
    KeptUnlessAsked
    OwnBytesOnly
SYMMETRY Interchangeable
CHECK_DEADLOCK FALSE
