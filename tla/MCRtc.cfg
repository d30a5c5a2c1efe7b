\* One second may pass between two reads.
CONSTANT Moments <- MCMoments
SPECIFICATION Spec
INVARIANT DateWasTrue
