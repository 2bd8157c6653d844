\* One thread, two containers that may share a name.
SPECIFICATION Spec
CONSTANTS
    Containers = {"c1", "c2"}
    Names = {"main", "other"}
    Types = {1, 2, 3, 4, 5}
    Labels = {1}
    FieldNames = {"first", "second", "value"}
    Fields <- MCFields
    Guarded = {2}
    Offers <- MCOffers
    Injectees = {4, 5}
    MaxSignatures <- TwoAndOne
    MaxObjects = 2
CHECK_DEADLOCK FALSE
INVARIANTS
    TypeOK
    OnlyCompleteInstances
    OneInstanceUnlessRecursive
    RegistryNamesLive
    UniqueNamesRegistered
    SoleContainerInjects
PROPERTIES
    InstancesKept
    EveryCallEnds
