------------------------- MODULE MCBackgroundAgents -------------------------
EXTENDS BackgroundAgents, TLC

CONSTANTS a, b

OverlappingRuns == Permutations({a, b})
=============================================================================
