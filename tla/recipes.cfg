SPECIFICATION Spec
CONSTANTS
    Dynamic = Dynamic
    Unset = Unset
    Runtimes = {"cl", "ze", "sycl"}
    Recipes <- MCRecipes
    Requests <- MCRequests
    LocalSizes <- MCLocalSizes
    CallersRepeatM = TRUE
    MaxCalls = 3
CHECK_DEADLOCK FALSE
INVARIANTS
    RunsTheRequest
