\* Every way four files may lie on three tapes, some of them deleted.
CONSTANTS
    FileIds = {f1, f2, f3, f4}
    TapeIds = {1, 2, 3}
SPECIFICATION Spec
INVARIANTS
    PlanIsSound
    PlanIsComplete
    PlanIsGreedy
    PlanIsNearlyMinimal
\* the loop ends
CHECK_DEADLOCK FALSE
