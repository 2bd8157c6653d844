\* One owner with two wrappers of the same type.
SPECIFICATION Spec
CONSTANTS
    u1 = u1
    v1 = v1
    p1 = p1
    p2 = p2
    Owners = {u1}
    Classes = {"user_1", "values", "pointers"}
    ClassOf <- OneUser
    Decl <- MCDecl
    Fields = {"order", "index", "ro", "rw", "ref", "shr", "unq"}
    DataTypes = {"int", "float", "val", "const val", "ref"}
    Values = {0, 1}
    Initial <- AllZero
    Unknown = Unknown
PROPERTY WritesReach
