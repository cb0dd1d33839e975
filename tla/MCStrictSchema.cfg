CONSTANTS
    Plans <- MCPlans
    Schemas <- MCSchemas
    MaxRows = 1
SPECIFICATION Spec
INVARIANTS
    StrictMeansSchemaEquality
