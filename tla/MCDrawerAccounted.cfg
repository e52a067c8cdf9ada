CONSTANTS
    o1 = o1  o2 = o2
    s1 = s1  s2 = s2
    c1 = c1
    Order = {o1, o2}
    Session = {s1, s2}
    Coupon = {c1}
    NoSession = NoSession
    UsageLimit <- OnceEach
    MaxRows = 1
    MaxDiscount = 1
    MaxMoney = 1
    NetMoves = {0, 1}
SPECIFICATION Spec
SYMMETRY Symmetry
INVARIANT DrawerAccounted
