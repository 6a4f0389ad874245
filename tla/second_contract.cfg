\* A client that is told of a second contract and set up again.
SPECIFICATION Spec
CONSTANTS
  Hash = {before, after}
  Stream = {first, second}
  Listener = {f}
  None = none
  MaxDeploys = 1
  MaxListeners = 1
INVARIANT DocumentedSetUp
CHECK_DEADLOCK FALSE
