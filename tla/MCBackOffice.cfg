CONSTANTS
    flour = flour  cheese = cheese  pizza = pizza
    main = main  bar = bar
    Ingredient = {flour, cheese}
    Warehouse = {main, bar}
    Product = {pizza}
    Default = main
    Recipe <- Recipes
    Fefo = {cheese}
    MaxQuantity = 2
    MaxShort = 1
    Client = {c1, c2}
    Idle = Idle
    Depot = main
    MaxLine = 2
    Bill = {b1}
    MaxPoints = 1
    menu = menu  page = page
    p1 = p1  p2 = p2
    File = {menu, page}
    Fresh = {page}
    Proposal = {p1, p2}
    Target <- Targets
    Radix = 2
    Limit = 4
    MaxNumber = 6
SPECIFICATION BackOfficeSpec
SYMMETRY Clients
INVARIANTS
    BackOfficeTypeOK
    StockReconciles ReceiptsBacked ClosedInFull CountConverges
    AccountAgrees EarnedOnce OriginalsKept NumberIsNew
PROPERTIES OldestFirst TransfersBacked StockoutCloses ReopenedWhenStocked
