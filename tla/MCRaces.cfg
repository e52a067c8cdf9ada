CONSTANTS
    o1 = o1  o2 = o2
    i1 = i1  i2 = i2
    k1 = k1  k2 = k2
    t1 = t1  t2 = t2
    Order = {o1, o2}
    Item = {i1, i2}
    Ticket = {k1, k2}
    Terminal = {t1}
    NoOrder = NoOrder
    NoTicket = NoTicket
    Nothing = Nothing
    NoStation = "unplaced"
    Group <- OneUnplaced
    MaxPaid = 1
SPECIFICATION RaceSpec
CONSTRAINT PaidAlone
SYMMETRY Symmetry
INVARIANTS RaceTypeOK KitchenAgreement SentOnce
PROPERTIES TicketKept
