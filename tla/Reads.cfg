CONSTANTS
  Holdings <- MCHoldings
  MaxStates = 3
  HasFn = TRUE
  Unknown = {1, 2}
  Awaited = {0, 15}
  MaxTries = 4
  Wrap = 512
  Ns = 100
  Rates <- MCRates
  Factors <- MCFactors
  Moments <- MCMoments
SPECIFICATION Spec
INVARIANTS EachButtonTrue HeldIsSeen WaitEnds TimersTrue
CHECK_DEADLOCK FALSE
