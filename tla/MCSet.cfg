CONSTANTS
    Items <- SomeItems
    NULL = NULL
    Hashes = {0, 1, 2, 5, 6}
    Capacities = {0, 2}
    Orders <- SomeOrders
    MaxSize = 7
SPECIFICATION Spec
VIEW Uncalled
INVARIANTS TypeOK ProbesEnd GetFinds IteratesAll
PROPERTY ImplementsItemSet
