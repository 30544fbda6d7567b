SPECIFICATION Spec
CONSTANTS
    pa = pa  pb = pb  pc = pc  s1 = s1  s2 = s2  n1 = n1  n2 = n2  oa = oa  ob = ob
    w1 = w1  w2 = w2
    None = None
    Photos = {pa, pb}
    Sessions = {s1}
    Names = {n1}
    Orders = {oa}
    Workers = {w1}
    SessionOf <- OneUpload
    NameOf <- SameName
    Items <- OneCart
    Dying = {}
INVARIANT SoldKeepsOriginal
CHECK_DEADLOCK FALSE
