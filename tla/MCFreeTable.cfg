CONSTANTS
    o1 = o1  o2 = o2  o3 = o3
    t1 = t1  t2 = t2
    Order = {o1, o2, o3}
    Table = {t1, t2}
    Host = {h1}
    Waiter = {}
    NoTable = NoTable
    NoOrder = NoOrder
    Idle = Idle
    Nothing = Nothing
SPECIFICATION Spec
SYMMETRY Symmetry
INVARIANT FreeTableIsEmpty
