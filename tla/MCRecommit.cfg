\* Intervals below the 1 s floor, in range, and above the 15 s cap; a gas
\* limit of ten units gives every ratio from the 0.1 floor to a full block.
CONSTANTS
    Intervals = {500, 3000, 20000}
    GasLimit = 10

SPECIFICATION Spec

INVARIANTS RecommitWithinLimits FeedbackReachesLimits
