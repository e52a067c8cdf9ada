CONSTANTS
    o1 = o1  o2 = o2
    s1 = s1  s2 = s2
    c1 = c1
    Order = {o1, o2}
    Session = {s1}
    Coupon = {c1}
    NoSession = NoSession
    UsageLimit <- OnceEach
    MaxRows = 2
    MaxDiscount = 1
    MaxMoney = 2
    NetMoves = {0, 1}
SPECIFICATION Spec
SYMMETRY Symmetry
INVARIANTS TypeOK RefundsWithinPayments CouponsCounted OwnSessionAccounted
PROPERTIES PaidWhenCovered
