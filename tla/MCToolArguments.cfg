CONSTANTS
    Schemas <- MCSchemas
    ArgumentSets <- MCArgumentSets
    MaxFields = 2
    MaxU16 = 65535
SPECIFICATION ArgumentsSpec
INVARIANTS
    EncodedIsValid
CHECK_DEADLOCK FALSE
