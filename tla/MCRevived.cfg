CONSTANTS
    o1 = o1  o2 = o2
    i1 = i1  i2 = i2
    k1 = k1  k2 = k2
    Order = {o1, o2}
    Item = {i1, i2}
    Ticket = {k1, k2}
    NoOrder = NoOrder
    NoTicket = NoTicket
    NoStation = "unplaced"
    Group <- OneStation
    MaxPaid = 2
SPECIFICATION Spec
SYMMETRY Symmetry
PROPERTY CancelledRowsStayCancelled
