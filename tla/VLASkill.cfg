SPECIFICATION Spec
CONSTANTS
  folding = folding
  wiping = wiping
  Executions = {folding, wiping}
  MaxSteps <- MCMaxSteps
  Timeout <- MCTimeout
  LowLimit = 3
  MaxPredictions = 4
INVARIANT ResultsAreEarned
PROPERTY CancelIsHeard
