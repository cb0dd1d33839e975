CONSTANTS
    Plans <- MCPlans
    Schemas <- MCSchemas
    MaxRows = 2
SPECIFICATION Spec
INVARIANTS
    BackendsAgree
    RejectionNamesFirstFault
    AcceptedBatchFitsTarget
    PreflightIsEnough
