SPECIFICATION RecipeSpec
CONSTANTS
    MaxOps = 3
    Retained = 1
    Crews <- MCCrews
INVARIANTS OneTask OutcomeReported
PROPERTIES TrainsItsOwnAlignment StepSettles
