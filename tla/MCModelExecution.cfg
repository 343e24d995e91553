CONSTANTS
    Programs <- Litmus
    Locs = {"x", "y"}
SPECIFICATION Spec
INVARIANTS
    ClocksAreHappensBefore
    GraphIsModificationOrder
    CyclesAreReal
    ScReadsAreConsistent
    PrunedReadsAreDoomed
    FeasiblePrefixGoesOn
\* an execution ends when its threads have finished or it is infeasible
CHECK_DEADLOCK FALSE
