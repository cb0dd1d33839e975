SPECIFICATION Spec
CONSTANTS
    Schemas <- MCSchemas
    PlanOptions <- MCOptions
    StrayTypes <- MCStrayTypes
    MaxAlterations = 1
INVARIANTS
    PlanIsSound
    OwnTableIsAccepted
    OpenLoadFollowsThePlan
