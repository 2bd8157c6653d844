\* Three variables, two lists, four subscribers of which two collide.
SPECIFICATION Spec
CONSTANTS
    h1 = h1
    h2 = h2
    h3 = h3
    l1 = l1
    l2 = l2
    x = x
    y = y
    Variables = {h1, h2, h3}
    Lists = {l1, l2}
    Owners = {x, y}
    Static = Static
    Subscribers <- MCSubscribers
    Bits = {1, 2, 3, 4}
    Address <- MCAddress
    Code <- MCCode
    StdHash <- MCStdHash
    MovedFrom = MovedFrom
    Dead = Dead
    MaxNodes = 3
SYMMETRY NameSymmetry
INVARIANTS
    TypeOK
    NodesAccounted
    CallsReachSubscribers
