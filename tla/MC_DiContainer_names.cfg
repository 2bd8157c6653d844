\* The four nameletons of doc/dependency_injection.md: two types by two names.
SPECIFICATION Spec
CONSTANTS
    Containers = {"c1"}
    Names = {"main"}
    Types = {1, 2, 3, 4, 5}
    Labels = {1, 2}
    FieldNames = {"first", "second", "value"}
    Fields <- NoFields
    Guarded = {}
    Offers <- NameletonOffers
    Injectees = {}
    MaxSignatures <- Four
    MaxObjects = 6
CHECK_DEADLOCK FALSE
INVARIANT OneInstancePerName
