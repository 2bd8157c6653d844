\* Two types, three fields, one fieldpawn and a spare slot, nested walks.
SPECIFICATION Spec
CONSTANTS
    num = num
    some = some
    a = a
    b = b
    first = first
    second = second
    third = third
    Types = {num, some}
    Params = {num, some}
    TypeId <- MCTypeId
    Bits = {1, 2, 3, 4}
    HashCode <- MCHashCode
    SizeHash <- MCSizeHash
    Default = {some}
    Reflected <- MCReflected
    Names = {first, second, third}
    Offsets = {0}
    Labels = {"one"}
    Members <- MCMembers
    PawnTypes = {"none"}
    MaxPawns = 1
    Slots = {a, b}
    NoPawn = NoPawn
    Unlabelled = Unlabelled
    MaxWalks = 2
SYMMETRY NameSymmetry
CHECK_DEADLOCK FALSE
INVARIANTS
    TypeOK
    OneFactoryPerKey
    DefaultsRegistered
    FieldsConsistent
    WalksAreComplete
PROPERTIES
    FactoriesStay
