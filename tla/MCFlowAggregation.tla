------------------------- MODULE MCFlowAggregation -------------------------
\* TLC instances of FlowAggregation.
EXTENDS FlowAggregation, TLC

CONSTANTS a, b, c

MCTimes == 0..3

Conversations == Permutations(Keys)

=============================================================================
