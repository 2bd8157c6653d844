\* Three owners with properties of all thirteen classes.
SPECIFICATION Spec
CONSTANTS
    u1 = u1
    v1 = v1
    p1 = p1
    p2 = p2
    Owners = {v1, p1, p2}
    Classes = {"user_1", "values", "pointers"}
    ClassOf <- ThreeUsers
    Decl <- MCDecl
    Fields = {"order", "index", "ro", "rw", "ref", "shr", "unq"}
    DataTypes = {"int", "float", "val", "const val", "ref"}
    Values = {0, 1}
    Initial <- AllZero
    Unknown = Unknown
SYMMETRY PointerOwners
INVARIANTS
    TypeOK
PROPERTIES
    LoneWritesReach
    WritesStayInOwner
