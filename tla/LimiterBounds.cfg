CONSTANTS
  periodSec = 5
  timeLimitation = 15
SPECIFICATION Spec
INVARIANTS
  
  RefusedOnlyWhenBusy
